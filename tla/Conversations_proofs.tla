------------------------ MODULE Conversations_proofs ------------------------
(***************************************************************************)
(* For any sets of assets, addresses and orders: what "Yes" and the PIN    *)
(* sign is what the message above them tells, however conversations,       *)
(* commands, photos and "Back" follow each other.                          *)
(***************************************************************************)
EXTENDS Conversations, TLAPS

Keys ==
  {"send", "receive", "to", "known", "stars", "memo", "qr", "federal", "cancel", "activate",
   "offer", "delete", "address", "issuer", "usdt", "msg", "back", "xdr", "pending", "func",
   "after", "requests", "transfer"}

\* The FSM data have all of their keys.
ShapeInv ==
  /\ data = [k \in Keys |-> data[k]]
  /\ chosen = [k \in {"offer", "delete"} |-> chosen[k]]

\* Data with all of their fields, and what some handlers begin with.
Full(d) == d = [k \in Keys |-> d[k]]

Pair(a, b) == [NoData EXCEPT !.send = a, !.receive = b]

Ended(a, b) == [NoData EXCEPT !.send = a, !.receive = b, !.delete = TRUE]

Ending(a, b, o) == [OrderDeed(Ended(a, b)) EXCEPT !.obj = o]

Asked(a, x, memo) ==
  [NoData EXCEPT !.federal = memo # None, !.send = a, !.to = x, !.memo = memo]

Stored(d, deed) == [d EXCEPT !.xdr = deed, !.pending = deed]

\* Writing one field leaves all fields.
LEMMA FullKept ==
  ASSUME NEW d, Full(d), NEW k \in Keys, NEW v
  PROVE  Full([d EXCEPT ![k] = v])
BY DEF Full

\* After clear_state() every field is there, with its default.
LEMMA NoDataIsFull == Full(NoData)
BY DEF Full, Keys, NoData

\* Storing the transaction and the pending request leaves all fields.
LEMMA StoredIsFull ==
  ASSUME NEW d, Full(d), NEW deed
  PROVE  Full(Stored(d, deed))
BY DEF Full, Keys, Stored

\* What /swap and /trade with two assets write into empty data (Pair), and ...
LEMMA PairIs ==
  ASSUME NEW a, NEW b
  PROVE  /\ Full(Pair(a, b)) /\ Pair(a, b).send = a /\ Pair(a, b).receive = b
         /\ Pair(a, b).offer = None /\ Pair(a, b).delete = FALSE
<1>1. Full(Pair(a, b))
  BY NoDataIsFull DEF Full, Keys, Pair
<1>. QED
  BY <1>1 DEF Pair, NoData

\* ... what /trade writes for the end of an order (Ended).
LEMMA EndedIs ==
  ASSUME NEW a, NEW b
  PROVE  /\ Full(Ended(a, b)) /\ Ended(a, b).send = a /\ Ended(a, b).receive = b
         /\ Ended(a, b).delete = TRUE
<1>1. Full(Ended(a, b))
  BY NoDataIsFull DEF Full, Keys, Ended
<1>. QED
  BY <1>1 DEF Ended, NoData

\* The order made of such a pair is a new one that deletes nothing, and ...
LEMMA PairDeed ==
  ASSUME NEW a, NEW b
  PROVE  /\ OrderDeed(Pair(a, b)) # Nothing /\ OrderDeed(Pair(a, b)).obj = None
         /\ OrderDeed(Pair(a, b)).flags = {}
<1>1. /\ Pair(a, b).send = a /\ Pair(a, b).receive = b /\ Pair(a, b).offer = None
      /\ ~Pair(a, b).delete
  BY DEF Pair, NoData
<1>. QED
  BY <1>1 DEF OrderDeed, Deed, Nothing

\* ... the order made for the end of one names that order and deletes it.
LEMMA EndingDeed ==
  ASSUME NEW a, NEW b, NEW o
  PROVE  Ending(a, b, o) # Nothing /\ Ending(a, b, o).obj = o /\ Ending(a, b, o).flags = {"delete"}
<1>1. Ended(a, b).send = a /\ Ended(a, b).receive = b /\ Ended(a, b).delete
  BY DEF Ended, NoData
<1>. QED
  BY <1>1 DEF Ending, OrderDeed, Deed, Nothing

\* What cmd_send_04() is called with by /eurmtl: no stars and no follow-up of another payment.
LEMMA AskedIs ==
  ASSUME NEW a, NEW x, NEW memo
  PROVE  /\ Full(Asked(a, x, memo)) /\ Asked(a, x, memo).to = x
         /\ Asked(a, x, memo).memo = memo /\ Asked(a, x, memo).stars = None
         /\ Asked(a, x, memo).known = None /\ Asked(a, x, memo).msg = Nothing
         /\ Asked(a, x, memo).func = "none" /\ Asked(a, x, memo).after = "none"
<1>1. Full(Asked(a, x, memo))
  BY NoDataIsFull DEF Full, Keys, Asked
<1>. QED
  BY <1>1 DEF Asked, NoData

\* cmd_send_04() leaves all fields, with or without the transaction.
LEMMA Send04IsFull ==
  ASSUME NEW d, Full(d), NEW state, Send04(d, state)
  PROVE  Full(data')
<1>1. CASE data' = d
  BY <1>1
<1>2. CASE data' = Stored([d EXCEPT !.back = d.msg], Payment(d))
  <2>1. Full([d EXCEPT !.back = d.msg])
    BY FullKept DEF Keys
  <2>. QED
    BY <1>2, <2>1, StoredIsFull
<1>. QED
  BY <1>1, <1>2 DEF Send04, Confirm, Stored

\* "Back" to the address starts from all fields.
LEMMA SendBackToAddressIsFull ==
  ASSUME SendBackToAddress
  PROVE  Full(data')
BY NoDataIsFull DEF SendBackToAddress, Full, Keys

\* The requests of an anchor leave all fields.
LEMMA AssetRequestsIsFull ==
  ASSUME Full(data), AssetRequests
  PROVE  Full(data')
BY DEF AssetRequests, AskPinForAsset, Request, AskPin, Full, Keys

\* The end of an order leaves all fields, confirmed or refused.
LEMMA TradeCancelIsFull ==
  ASSUME NEW o, TradeCancel(o)
  PROVE  Full(data')
<1>1. CASE data' = NoData
  BY <1>1, NoDataIsFull
<1>2. ASSUME NEW a \in Assets, NEW b \in Assets, NEW deed, data' = Stored(Ended(a, b), deed)
      PROVE  Full(data')
  BY <1>2, EndedIs, StoredIsFull
<1>3. CASE data' # NoData
  <2>1. PICK a \in Assets, b \in Assets :
           Confirm("confirm", "none", Ending(a, b, o), Ended(a, b))
    BY <1>3 DEF TradeCancel, Ended, Ending
  <2>. QED
    BY <2>1, <1>2 DEF Confirm, Stored
<1>. QED
  BY <1>1, <1>3

\* Every step keeps ShapeInv.
LEMMA ShapeStep == ShapeInv /\ [Next]_vars => ShapeInv'
<1>. SUFFICES ASSUME ShapeInv, [Next]_vars
             PROVE  ShapeInv'
  OBVIOUS
<1>. USE DEF ShapeInv, Keys, Clear, NoData, Tell, Show, Screen, Ask, NewHistory, NoChoice,
     Pressed, Menu, Info, ShowKept
<1>1. CASE Return
  BY <1>1 DEF Return
<1>2. CASE About
  BY <1>2 DEF About
<1>3. CASE Yes
  BY <1>3 DEF Yes, Request, AskPin, After, PinPrompt, Confirming, Confirms, ToSign
<1>4. CASE Sign
  BY <1>4 DEF Sign
<1>5. CASE DeleteReturn
  BY <1>5 DEF DeleteReturn, Return
<1>6. CASE Send
  BY <1>6 DEF Send, SendStart
<1>7. CASE SendCancelOffers
  BY <1>7 DEF SendCancelOffers
<1>8. CASE SendSum
  BY <1>8 DEF SendSum, Send04, Payment, Confirm
<1>9. CASE Memo
  BY <1>9 DEF Memo
<1>10. CASE SendMemo
  BY <1>10 DEF SendMemo, Send04, Payment, Confirm
<1>11. CASE Send15
  BY <1>11 DEF Send15, CreateAccount
<1>12. CASE SendBackToAddress
  <2>1. Full(data')
    BY <1>12, SendBackToAddressIsFull
  <2>2. chosen' = chosen
    BY <1>12 DEF SendBackToAddress, Back
  <2>. QED
    BY <2>1, <2>2 DEF Full
<1>13. CASE SendBackToToken
  BY <1>13 DEF SendBackToToken, Back, BackButton, ChooseToken
<1>14. CASE SendBackToAmount
  BY <1>14 DEF SendBackToAmount, Back, BackButton, ForgetSignature
<1>15. CASE SendBackToConfirmation
  BY <1>15 DEF SendBackToConfirmation, Back, BackButton, Send04, Payment, Confirm
<1>16. ASSUME NEW x \in Addresses, SendFor(x) PROVE ShapeInv'
  BY <1>16 DEF SendFor, SendForIn, Recipient, ChooseToken, CreateAccount
<1>17. ASSUME NEW x \in Addresses, Photo(x) PROVE ShapeInv'
  BY <1>17 DEF Photo, SendForIn, Recipient, ChooseToken, CreateAccount, SendNow, Send04,
     Payment, Confirm, BeforeSend, BeforeTrade, BeforeTools, PinStates
<1>18. ASSUME NEW x \in Addresses, AddressText(x) PROVE ShapeInv'
  BY <1>18 DEF AddressText, ChooseToken
<1>19. ASSUME NEW a \in Assets, NEW x \in Addresses, Eurmtl(a, x) PROVE ShapeInv'
  <2>1. ASSUME NEW memo \in {None, x},
               SendNow([NoData EXCEPT !.federal = memo # None], "none", a, x, memo)
        PROVE  Full(data')
    <3>1. Send04(Asked(a, x, memo), "none")
      BY <2>1 DEF SendNow, Asked
    <3>. QED
      BY <3>1, AskedIs, Send04IsFull
  <2>2. ASSUME data' = NoData
        PROVE  Full(data')
    BY <2>2, NoDataIsFull
  <2>3. Full(data')
    BY <1>19, <2>1, <2>2 DEF Eurmtl
  <2>4. chosen' = NoChoice
    BY <1>19 DEF Eurmtl
  <2>. QED
    BY <2>3, <2>4 DEF Full
<1>20. ASSUME NEW a \in Assets, SendToken(a) PROVE ShapeInv'
  BY <1>20 DEF SendToken
<1>21. CASE SwapStart
  BY <1>21 DEF SwapStart
<1>22. CASE SwapSlippage
  BY <1>22 DEF SwapSlippage
<1>23. CASE SwapCancelOffers
  BY <1>23 DEF SwapCancelOffers
<1>24. CASE SwapStrictReceive
  BY <1>24 DEF SwapStrictReceive, ReceivePrompt
<1>25. CASE SwapSum
  BY <1>25 DEF SwapSum, Confirm, Swap
<1>26. CASE SwapReceiveSum
  BY <1>26 DEF SwapReceiveSum, Confirm, Swap, ReceivePrompt
<1>27. CASE SwapBackToSource
  BY <1>27 DEF SwapBackToSource, SwapBack
<1>28. CASE SwapBackToDestination
  BY <1>28 DEF SwapBackToDestination, SwapBack, SwapFromPrompt
<1>29. CASE SwapBackFromReceive
  BY <1>29 DEF SwapBackFromReceive, SwapBack, SumPrompt
<1>30. CASE SwapBackFromSendConfirmation
  BY <1>30 DEF SwapBackFromSendConfirmation, SwapBack, SumPrompt, ForgetSignature
<1>31. CASE SwapBackFromReceiveConfirmation
  BY <1>31 DEF SwapBackFromReceiveConfirmation, SwapBack, ReceivePrompt, ForgetSignature
<1>32. ASSUME NEW a \in Assets, SwapFrom(a) PROVE ShapeInv'
  BY <1>32 DEF SwapFrom, SwapFromPrompt
<1>33. ASSUME NEW a \in Assets, SwapFor(a) PROVE ShapeInv'
  BY <1>33 DEF SwapFor
<1>34. ASSUME NEW a \in Assets, NEW b \in Assets, SwapText(a, b) PROVE ShapeInv'
  BY <1>34 DEF SwapText, Confirm, Swap
<1>35. CASE Market
  BY <1>35 DEF Market
<1>36. CASE NewOrder
  BY <1>36 DEF NewOrder
<1>37. CASE ShowOrders
  BY <1>37 DEF ShowOrders
<1>38. CASE SaleSum
  BY <1>38 DEF SaleSum
<1>39. CASE SaleCost
  BY <1>39 DEF SaleCost, XdrOrder, OrderDeed, Confirm
<1>40. CASE EditSaleSum
  BY <1>40 DEF EditSaleSum, XdrOrder, OrderDeed, Confirm
<1>41. CASE EditSaleCost
  BY <1>41 DEF EditSaleCost, XdrOrder, OrderDeed, Confirm
<1>42. ASSUME NEW o \in Orders, EditOrder(o) PROVE ShapeInv'
  BY <1>42 DEF EditOrder
<1>43. ASSUME NEW o \in Orders, TradeCancel(o) PROVE ShapeInv'
  <2>1. chosen' = [offer |-> o, delete |-> TRUE]
    BY <1>43 DEF TradeCancel
  <2>2. Full(data')
    BY <1>43, TradeCancelIsFull
  <2>. QED
    BY <2>1, <2>2 DEF Full
<1>44. ASSUME NEW a \in Assets, TradeSell(a) PROVE ShapeInv'
  BY <1>44 DEF TradeSell
<1>45. ASSUME NEW a \in Assets, TradeBuy(a) PROVE ShapeInv'
  BY <1>45 DEF TradeBuy
<1>46. ASSUME NEW a \in Assets, NEW b \in Assets, TradeText(a, b) PROVE ShapeInv'
  BY <1>46 DEF TradeText, OrderDeed, Confirm
<1>47. ASSUME NEW a \in Assets, NEW b \in Assets, EditOrderAmount(a, b) PROVE ShapeInv'
  BY <1>47 DEF EditOrderAmount, Edit, OfOrder
<1>48. ASSUME NEW a \in Assets, NEW b \in Assets, EditOrderPrice(a, b) PROVE ShapeInv'
  BY <1>48 DEF EditOrderPrice, Edit, OfOrder
<1>49. ASSUME NEW a \in Assets, NEW b \in Assets, DeleteOrder(a, b) PROVE ShapeInv'
  BY <1>49 DEF DeleteOrder, OfOrder, XdrOrder, OrderDeed, Confirm
<1>50. CASE MTLTools
  BY <1>50 DEF MTLTools
<1>51. CASE MTLAPTools
  BY <1>51 DEF MTLAPTools
<1>52. CASE ToolsDelegate
  BY <1>52 DEF ToolsDelegate, OpenTool, Tool
<1>53. CASE ToolsDonate
  BY <1>53 DEF ToolsDonate, OpenTool, Tool
<1>54. CASE ToolsBIM
  BY <1>54 DEF ToolsBIM, OpenTool, Tool
<1>55. CASE ToolsDelegateA
  BY <1>55 DEF ToolsDelegateA, OpenTool, Tool
<1>56. CASE ToolsDelegateC
  BY <1>56 DEF ToolsDelegateC, OpenTool, Tool
<1>57. CASE AddDelegate
  BY <1>57 DEF AddDelegate, AskAddress, OnTool, AddressState
<1>58. CASE AddDelegateA
  BY <1>58 DEF AddDelegateA, AskAddress, OnTool, AddressState
<1>59. CASE AddDelegateC
  BY <1>59 DEF AddDelegateC, AskAddress, OnTool, AddressState
<1>60. CASE AddDonate
  BY <1>60 DEF AddDonate, AskAddress, OnTool, AddressState
<1>61. CASE AddBIM
  BY <1>61 DEF AddBIM, AskAddress, OnTool, AddressState
<1>62. CASE ToolsRecommend
  BY <1>62 DEF ToolsRecommend
<1>63. CASE DelDelegate
  BY <1>63 DEF DelDelegate, DeleteEntry, OnTool, ConfirmEntry, Confirm, DeleteData
<1>64. CASE DelDelegateA
  BY <1>64 DEF DelDelegateA, DeleteEntry, OnTool, ConfirmEntry, Confirm, DeleteData
<1>65. CASE DelDelegateC
  BY <1>65 DEF DelDelegateC, DeleteEntry, OnTool, ConfirmEntry, Confirm, DeleteData
<1>66. CASE DeleteDonate
  BY <1>66 DEF DeleteDonate, DeleteEntry, OnTool, ConfirmEntry, Confirm, DeleteData
<1>67. CASE DeleteBIM
  BY <1>67 DEF DeleteBIM, DeleteEntry, OnTool, ConfirmEntry, Confirm, DeleteData
<1>68. CASE DonateName
  BY <1>68 DEF DonateName
<1>69. CASE DonatePercent
  BY <1>69 DEF DonatePercent, ConfirmEntry, Confirm, SetData
<1>70. CASE BIMName
  BY <1>70 DEF BIMName, ConfirmEntry, Confirm, SetData
<1>71. CASE Donate
  BY <1>71 DEF Donate, AskDonation
<1>72. CASE CmdDonate
  BY <1>72 DEF CmdDonate, AskDonation
<1>73. CASE DonateSum
  BY <1>73 DEF DonateSum, After
<1>74. CASE DonateButton
  BY <1>74 DEF DonateButton
<1>75. ASSUME NEW x \in Addresses, DelegateFor(x) PROVE ShapeInv'
  BY <1>75 DEF DelegateFor, SetEntry, AddressState, ConfirmEntry, Confirm, SetData
<1>76. ASSUME NEW x \in Addresses, DelegateForA(x) PROVE ShapeInv'
  BY <1>76 DEF DelegateForA, SetEntry, AddressState, ConfirmEntry, Confirm, SetData
<1>77. ASSUME NEW x \in Addresses, DelegateForC(x) PROVE ShapeInv'
  BY <1>77 DEF DelegateForC, SetEntry, AddressState, ConfirmEntry, Confirm, SetData
<1>78. ASSUME NEW x \in Addresses, RecommendFor(x) PROVE ShapeInv'
  BY <1>78 DEF RecommendFor, SetEntry, AddressState, ConfirmEntry, Confirm, SetData
<1>79. ASSUME NEW x \in Addresses, DonateAddress(x) PROVE ShapeInv'
  BY <1>79 DEF DonateAddress, KeepAddress, AddressState
<1>80. ASSUME NEW x \in Addresses, BIMAddress(x) PROVE ShapeInv'
  BY <1>80 DEF BIMAddress, KeepAddress, AddressState
<1>81. CASE WalletSetting
  BY <1>81 DEF WalletSetting
<1>82. CASE ManageAssets
  BY <1>82 DEF ManageAssets
<1>83. CASE AssetVisibility
  BY <1>83 DEF AssetVisibility, VisibilityList
<1>84. CASE SetVisibility
  BY <1>84 DEF SetVisibility, VisibilityList
<1>85. CASE DeleteAsset
  BY <1>85 DEF DeleteAsset
<1>86. CASE AddAsset
  BY <1>86 DEF AddAsset
<1>87. CASE AddAssetExpert
  BY <1>87 DEF AddAssetExpert
<1>88. CASE RemovePassword
  BY <1>88 DEF RemovePassword, AskPinFor, AskPin, PinPrompt
<1>89. CASE GetPrivateKey
  BY <1>89 DEF GetPrivateKey, AskPinFor, AskPin, PinPrompt
<1>90. CASE BuyAddress
  BY <1>90 DEF BuyAddress, ConfirmOr, Confirm
<1>91. CASE AddressBook
  BY <1>91 DEF AddressBook
<1>92. CASE AddressBookText
  BY <1>92 DEF AddressBookText
<1>93. CASE DataManagement
  BY <1>93 DEF DataManagement
<1>94. CASE SetDefault
  BY <1>94 DEF SetDefault
<1>95. CASE DefaultAddress
  BY <1>95 DEF DefaultAddress
<1>96. CASE SetLimit
  BY <1>96 DEF SetLimit
<1>97. CASE Assets_
  BY <1>97 DEF Assets_
<1>98. CASE AssetRequests
  <2>1. Full(data')
    BY <1>98, AssetRequestsIsFull DEF Full
  <2>2. chosen' = chosen
    BY <1>98 DEF AssetRequests, AskPinForAsset
  <2>. QED
    BY <2>1, <2>2 DEF Full
<1>99. CASE InOut
  BY <1>99 DEF InOut
<1>100. CASE USDT
  BY <1>100 DEF USDT
<1>101. CASE BTC
  BY <1>101 DEF BTC
<1>102. CASE USDTOut
  BY <1>102 DEF USDTOut
<1>103. CASE USDTSum
  BY <1>103 DEF USDTSum, Confirm
<1>104. CASE BTCIn
  BY <1>104 DEF BTCIn
<1>105. CASE BTCSum
  BY <1>105 DEF BTCSum
<1>106. CASE Stars
  BY <1>106 DEF Stars
<1>107. CASE StarsSum
  BY <1>107 DEF StarsSum
<1>108. ASSUME NEW a \in Assets, DelAsset(a) PROVE ShapeInv'
  BY <1>108 DEF DelAsset, ConfirmOr, Confirm, Trust
<1>109. ASSUME NEW a \in Assets, CqAddAsset(a) PROVE ShapeInv'
  BY <1>109 DEF CqAddAsset, AddAssetEnd, Confirm, Trust
<1>110. ASSUME NEW a \in Assets, SendingCode(a) PROVE ShapeInv'
  BY <1>110 DEF SendingCode
<1>111. ASSUME NEW a \in Assets, StartAsset(a) PROVE ShapeInv'
  BY <1>111 DEF StartAsset, AddAssetEnd, Confirm, Trust
<1>112. ASSUME NEW a \in Assets, AssetView(a) PROVE ShapeInv'
  BY <1>112 DEF AssetView
<1>113. ASSUME NEW x \in Addresses, SendingIssuer(x) PROVE ShapeInv'
  BY <1>113 DEF SendingIssuer, AddAssetEnd, Confirm, Trust
<1>114. ASSUME NEW x \in Addresses, USDTAddress(x) PROVE ShapeInv'
  BY <1>114 DEF USDTAddress
<1>115. ASSUME NEW x \in Addresses, ManageData(x) PROVE ShapeInv'
  BY <1>115 DEF ManageData, ConfirmOr, Confirm
<1>116. ASSUME NEW way \in {"deposit", "withdraw"}, AssetTransfer(way) PROVE ShapeInv'
  BY <1>116 DEF AssetTransfer, AskPinForAsset, Request, AskPin, PinPrompt
<1>117. CASE UNCHANGED vars
  BY <1>117 DEF vars
<1>118. CASE SendNext
  BY <1>6, <1>7, <1>8, <1>9, <1>10, <1>11, <1>12, <1>13, <1>14, <1>15, <1>16, <1>17, <1>18,
     <1>19, <1>20, <1>118 DEF SendNext
<1>119. CASE SwapNext
  BY <1>21, <1>22, <1>23, <1>24, <1>25, <1>26, <1>27, <1>28, <1>29, <1>30, <1>31, <1>32, <1>33,
     <1>34, <1>119 DEF SwapNext
<1>120. CASE TradeNext
  BY <1>35, <1>36, <1>37, <1>38, <1>39, <1>40, <1>41, <1>42, <1>43, <1>44, <1>45, <1>46, <1>47,
     <1>48, <1>49, <1>120 DEF TradeNext
<1>121. CASE ToolsNext
  BY <1>50, <1>51, <1>52, <1>53, <1>54, <1>55, <1>56, <1>57, <1>58, <1>59, <1>60, <1>61, <1>62,
     <1>63, <1>64, <1>65, <1>66, <1>67, <1>68, <1>69, <1>70, <1>71, <1>72, <1>73, <1>74, <1>75,
     <1>76, <1>77, <1>78, <1>79, <1>80, <1>121 DEF ToolsNext
<1>122. CASE WalletNext
  BY <1>81, <1>82, <1>83, <1>84, <1>85, <1>86, <1>87, <1>88, <1>89, <1>90, <1>91, <1>92, <1>93,
     <1>94, <1>95, <1>96, <1>97, <1>98, <1>99, <1>100, <1>101, <1>102, <1>103, <1>104, <1>105,
     <1>106, <1>107, <1>108, <1>109, <1>110, <1>111, <1>112, <1>113, <1>114, <1>115, <1>116,
     <1>122 DEF WalletNext
<1>. QED
  BY <1>1, <1>2, <1>3, <1>4, <1>5, <1>117, <1>118, <1>119, <1>120, <1>121, <1>122 DEF Next

-----------------------------------------------------------------------------
\* The messages between the menu and what they lead to; no text is awaited.
Lists ==
  {"menu", "market", "sell", "buy", "orders", "order", "mtl_tools", "mtlap_tools", "tool",
   "settings", "assets", "open", "close", "data"}

\* The last message and the FSM state: what QuestionFits says, and what else the buttons of
\* a message may count on.
QuestionInv ==
  /\ screen.kind \in TextStates \ {"sending_for", "donate_address"} => fsm = screen.kind
  /\ screen.kind = "sending_for" => fsm = "sending_for" \/ data.qr # None
  /\ screen.kind = "donate_address" => fsm \in {"donate_address", "donate_name", "donate_persent"}
  /\ screen.kind = "donate_confirm" => fsm = "send_donate_sum"
  /\ screen.kind = "pin" => fsm \in PinStates
  /\ screen.kind \in Lists => fsm = "none"

\* Every step keeps QuestionInv.
LEMMA QuestionStep == ShapeInv /\ QuestionInv /\ [Next]_vars => QuestionInv'
<1>. SUFFICES ASSUME ShapeInv, QuestionInv, [Next]_vars
             PROVE  QuestionInv'
  OBVIOUS
<1>. USE DEF QuestionInv, Lists, TextStates, PinStates, ShapeInv, Keys, Clear, NoData, Tell,
     Show, Screen, Ask, NewHistory, NoChoice, Pressed, Menu, Info, ShowKept
<1>1. CASE Return
  BY <1>1 DEF Return
<1>2. CASE About
  BY <1>2 DEF About
<1>3. CASE Yes
  BY <1>3 DEF Yes, Request, AskPin, After, PinPrompt, Confirming, Confirms, ToSign
<1>4. CASE Sign
  BY <1>4 DEF Sign
<1>5. CASE DeleteReturn
  BY <1>5 DEF DeleteReturn, Return
<1>6. CASE Send
  BY <1>6 DEF Send, SendStart
<1>7. CASE SendCancelOffers
  BY <1>7 DEF SendCancelOffers
<1>8. CASE SendSum
  BY <1>8 DEF SendSum, Send04, Payment, Confirm
<1>9. CASE Memo
  BY <1>9 DEF Memo
<1>10. CASE SendMemo
  BY <1>10 DEF SendMemo, Send04, Payment, Confirm
<1>11. CASE Send15
  BY <1>11 DEF Send15, CreateAccount
<1>12. CASE SendBackToAddress
  BY <1>12 DEF SendBackToAddress, Back, BackButton
<1>13. CASE SendBackToToken
  BY <1>13 DEF SendBackToToken, Back, BackButton, ChooseToken
<1>14. CASE SendBackToAmount
  BY <1>14 DEF SendBackToAmount, Back, BackButton, ForgetSignature
<1>15. CASE SendBackToConfirmation
  BY <1>15 DEF SendBackToConfirmation, Back, BackButton, Send04, Payment, Confirm
<1>16. ASSUME NEW x \in Addresses, SendFor(x) PROVE QuestionInv'
  BY <1>16 DEF SendFor, SendForIn, Recipient, ChooseToken, CreateAccount
<1>17. ASSUME NEW x \in Addresses, Photo(x) PROVE QuestionInv'
  <2>1. CASE SendForIn([data EXCEPT !.qr = x], x)
    <3>1. \/ screen'.kind = "send_token"
          \/ screen'.kind \in {"activate", "info"}
          \/ screen'.kind = "sending_for" /\ data'.qr = x
      BY <2>1 DEF SendForIn, ChooseToken, CreateAccount
    <3>. QED
      BY <3>1, DataAssumption
  <2>2. CASE \E a \in Assets, memo \in {None, x} : SendNow(data, fsm, a, x, memo)
    <3>1. screen'.kind \in {"send_confirm", "send_error"}
      BY <2>2 DEF SendNow, Send04, Confirm
    <3>. QED
      BY <3>1
  <2>. QED
    BY <1>17, <2>1, <2>2 DEF Photo
<1>18. ASSUME NEW x \in Addresses, AddressText(x) PROVE QuestionInv'
  BY <1>18 DEF AddressText, ChooseToken
<1>19. ASSUME NEW a \in Assets, NEW x \in Addresses, Eurmtl(a, x) PROVE QuestionInv'
  BY <1>19 DEF Eurmtl, SendNow, Send04, Payment, Confirm
<1>20. ASSUME NEW a \in Assets, SendToken(a) PROVE QuestionInv'
  BY <1>20 DEF SendToken
<1>21. CASE SwapStart
  BY <1>21 DEF SwapStart
<1>22. CASE SwapSlippage
  BY <1>22 DEF SwapSlippage
<1>23. CASE SwapCancelOffers
  BY <1>23 DEF SwapCancelOffers
<1>24. CASE SwapStrictReceive
  BY <1>24 DEF SwapStrictReceive, ReceivePrompt
<1>25. CASE SwapSum
  BY <1>25 DEF SwapSum, Confirm, Swap
<1>26. CASE SwapReceiveSum
  BY <1>26 DEF SwapReceiveSum, Confirm, Swap, ReceivePrompt
<1>27. CASE SwapBackToSource
  BY <1>27 DEF SwapBackToSource, SwapBack
<1>28. CASE SwapBackToDestination
  BY <1>28 DEF SwapBackToDestination, SwapBack, SwapFromPrompt
<1>29. CASE SwapBackFromReceive
  BY <1>29 DEF SwapBackFromReceive, SwapBack, SumPrompt
<1>30. CASE SwapBackFromSendConfirmation
  BY <1>30 DEF SwapBackFromSendConfirmation, SwapBack, SumPrompt, ForgetSignature
<1>31. CASE SwapBackFromReceiveConfirmation
  BY <1>31 DEF SwapBackFromReceiveConfirmation, SwapBack, ReceivePrompt, ForgetSignature
<1>32. ASSUME NEW a \in Assets, SwapFrom(a) PROVE QuestionInv'
  BY <1>32 DEF SwapFrom, SwapFromPrompt
<1>33. ASSUME NEW a \in Assets, SwapFor(a) PROVE QuestionInv'
  BY <1>33 DEF SwapFor
<1>34. ASSUME NEW a \in Assets, NEW b \in Assets, SwapText(a, b) PROVE QuestionInv'
  BY <1>34 DEF SwapText, Confirm, Swap
<1>35. CASE Market
  BY <1>35 DEF Market
<1>36. CASE NewOrder
  BY <1>36 DEF NewOrder
<1>37. CASE ShowOrders
  BY <1>37 DEF ShowOrders
<1>38. CASE SaleSum
  BY <1>38 DEF SaleSum
<1>39. CASE SaleCost
  BY <1>39 DEF SaleCost, XdrOrder, OrderDeed, Confirm
<1>40. CASE EditSaleSum
  BY <1>40 DEF EditSaleSum, XdrOrder, OrderDeed, Confirm
<1>41. CASE EditSaleCost
  BY <1>41 DEF EditSaleCost, XdrOrder, OrderDeed, Confirm
<1>42. ASSUME NEW o \in Orders, EditOrder(o) PROVE QuestionInv'
  BY <1>42 DEF EditOrder
<1>43. ASSUME NEW o \in Orders, TradeCancel(o) PROVE QuestionInv'
  BY <1>43 DEF TradeCancel, OrderDeed, Confirm
<1>44. ASSUME NEW a \in Assets, TradeSell(a) PROVE QuestionInv'
  BY <1>44 DEF TradeSell
<1>45. ASSUME NEW a \in Assets, TradeBuy(a) PROVE QuestionInv'
  BY <1>45 DEF TradeBuy
<1>46. ASSUME NEW a \in Assets, NEW b \in Assets, TradeText(a, b) PROVE QuestionInv'
  BY <1>46 DEF TradeText, OrderDeed, Confirm
<1>47. ASSUME NEW a \in Assets, NEW b \in Assets, EditOrderAmount(a, b) PROVE QuestionInv'
  BY <1>47 DEF EditOrderAmount, Edit, OfOrder
<1>48. ASSUME NEW a \in Assets, NEW b \in Assets, EditOrderPrice(a, b) PROVE QuestionInv'
  BY <1>48 DEF EditOrderPrice, Edit, OfOrder
<1>49. ASSUME NEW a \in Assets, NEW b \in Assets, DeleteOrder(a, b) PROVE QuestionInv'
  BY <1>49 DEF DeleteOrder, OfOrder, XdrOrder, OrderDeed, Confirm
<1>50. CASE MTLTools
  BY <1>50 DEF MTLTools
<1>51. CASE MTLAPTools
  BY <1>51 DEF MTLAPTools
<1>52. CASE ToolsDelegate
  BY <1>52 DEF ToolsDelegate, OpenTool, Tool
<1>53. CASE ToolsDonate
  BY <1>53 DEF ToolsDonate, OpenTool, Tool
<1>54. CASE ToolsBIM
  BY <1>54 DEF ToolsBIM, OpenTool, Tool
<1>55. CASE ToolsDelegateA
  BY <1>55 DEF ToolsDelegateA, OpenTool, Tool
<1>56. CASE ToolsDelegateC
  BY <1>56 DEF ToolsDelegateC, OpenTool, Tool
<1>57. CASE AddDelegate
  BY <1>57 DEF AddDelegate, AskAddress, OnTool, AddressState
<1>58. CASE AddDelegateA
  BY <1>58 DEF AddDelegateA, AskAddress, OnTool, AddressState
<1>59. CASE AddDelegateC
  BY <1>59 DEF AddDelegateC, AskAddress, OnTool, AddressState
<1>60. CASE AddDonate
  BY <1>60 DEF AddDonate, AskAddress, OnTool, AddressState
<1>61. CASE AddBIM
  BY <1>61 DEF AddBIM, AskAddress, OnTool, AddressState
<1>62. CASE ToolsRecommend
  BY <1>62 DEF ToolsRecommend
<1>63. CASE DelDelegate
  BY <1>63 DEF DelDelegate, DeleteEntry, OnTool, ConfirmEntry, Confirm, DeleteData
<1>64. CASE DelDelegateA
  BY <1>64 DEF DelDelegateA, DeleteEntry, OnTool, ConfirmEntry, Confirm, DeleteData
<1>65. CASE DelDelegateC
  BY <1>65 DEF DelDelegateC, DeleteEntry, OnTool, ConfirmEntry, Confirm, DeleteData
<1>66. CASE DeleteDonate
  BY <1>66 DEF DeleteDonate, DeleteEntry, OnTool, ConfirmEntry, Confirm, DeleteData
<1>67. CASE DeleteBIM
  BY <1>67 DEF DeleteBIM, DeleteEntry, OnTool, ConfirmEntry, Confirm, DeleteData
<1>68. CASE DonateName
  BY <1>68 DEF DonateName
<1>69. CASE DonatePercent
  BY <1>69 DEF DonatePercent, ConfirmEntry, Confirm, SetData
<1>70. CASE BIMName
  BY <1>70 DEF BIMName, ConfirmEntry, Confirm, SetData
<1>71. CASE Donate
  BY <1>71 DEF Donate, AskDonation
<1>72. CASE CmdDonate
  BY <1>72 DEF CmdDonate, AskDonation
<1>73. CASE DonateSum
  BY <1>73 DEF DonateSum, After
<1>74. CASE DonateButton
  BY <1>74 DEF DonateButton
<1>75. ASSUME NEW x \in Addresses, DelegateFor(x) PROVE QuestionInv'
  BY <1>75 DEF DelegateFor, SetEntry, AddressState, ConfirmEntry, Confirm, SetData
<1>76. ASSUME NEW x \in Addresses, DelegateForA(x) PROVE QuestionInv'
  BY <1>76 DEF DelegateForA, SetEntry, AddressState, ConfirmEntry, Confirm, SetData
<1>77. ASSUME NEW x \in Addresses, DelegateForC(x) PROVE QuestionInv'
  BY <1>77 DEF DelegateForC, SetEntry, AddressState, ConfirmEntry, Confirm, SetData
<1>78. ASSUME NEW x \in Addresses, RecommendFor(x) PROVE QuestionInv'
  BY <1>78 DEF RecommendFor, SetEntry, AddressState, ConfirmEntry, Confirm, SetData
<1>79. ASSUME NEW x \in Addresses, DonateAddress(x) PROVE QuestionInv'
  BY <1>79 DEF DonateAddress, KeepAddress, AddressState
<1>80. ASSUME NEW x \in Addresses, BIMAddress(x) PROVE QuestionInv'
  BY <1>80 DEF BIMAddress, KeepAddress, AddressState
<1>81. CASE WalletSetting
  BY <1>81 DEF WalletSetting
<1>82. CASE ManageAssets
  BY <1>82 DEF ManageAssets
<1>83. CASE AssetVisibility
  BY <1>83 DEF AssetVisibility, VisibilityList
<1>84. CASE SetVisibility
  BY <1>84 DEF SetVisibility, VisibilityList
<1>85. CASE DeleteAsset
  BY <1>85 DEF DeleteAsset
<1>86. CASE AddAsset
  BY <1>86 DEF AddAsset
<1>87. CASE AddAssetExpert
  BY <1>87 DEF AddAssetExpert
<1>88. CASE RemovePassword
  BY <1>88 DEF RemovePassword, AskPinFor, AskPin, PinPrompt
<1>89. CASE GetPrivateKey
  BY <1>89 DEF GetPrivateKey, AskPinFor, AskPin, PinPrompt
<1>90. CASE BuyAddress
  BY <1>90 DEF BuyAddress, ConfirmOr, Confirm
<1>91. CASE AddressBook
  BY <1>91 DEF AddressBook
<1>92. CASE AddressBookText
  BY <1>92 DEF AddressBookText
<1>93. CASE DataManagement
  BY <1>93 DEF DataManagement
<1>94. CASE SetDefault
  BY <1>94 DEF SetDefault
<1>95. CASE DefaultAddress
  BY <1>95 DEF DefaultAddress
<1>96. CASE SetLimit
  BY <1>96 DEF SetLimit
<1>97. CASE Assets_
  BY <1>97 DEF Assets_
<1>98. CASE AssetRequests
  BY <1>98 DEF AssetRequests, AskPinForAsset, Request, AskPin, PinPrompt
<1>99. CASE InOut
  BY <1>99 DEF InOut
<1>100. CASE USDT
  BY <1>100 DEF USDT
<1>101. CASE BTC
  BY <1>101 DEF BTC
<1>102. CASE USDTOut
  BY <1>102 DEF USDTOut
<1>103. CASE USDTSum
  BY <1>103 DEF USDTSum, Confirm
<1>104. CASE BTCIn
  BY <1>104 DEF BTCIn
<1>105. CASE BTCSum
  BY <1>105 DEF BTCSum
<1>106. CASE Stars
  BY <1>106 DEF Stars
<1>107. CASE StarsSum
  BY <1>107 DEF StarsSum
<1>108. ASSUME NEW a \in Assets, DelAsset(a) PROVE QuestionInv'
  BY <1>108 DEF DelAsset, ConfirmOr, Confirm, Trust
<1>109. ASSUME NEW a \in Assets, CqAddAsset(a) PROVE QuestionInv'
  BY <1>109 DEF CqAddAsset, AddAssetEnd, Confirm, Trust
<1>110. ASSUME NEW a \in Assets, SendingCode(a) PROVE QuestionInv'
  BY <1>110 DEF SendingCode
<1>111. ASSUME NEW a \in Assets, StartAsset(a) PROVE QuestionInv'
  BY <1>111 DEF StartAsset, AddAssetEnd, Confirm, Trust
<1>112. ASSUME NEW a \in Assets, AssetView(a) PROVE QuestionInv'
  BY <1>112 DEF AssetView
<1>113. ASSUME NEW x \in Addresses, SendingIssuer(x) PROVE QuestionInv'
  BY <1>113 DEF SendingIssuer, AddAssetEnd, Confirm, Trust
<1>114. ASSUME NEW x \in Addresses, USDTAddress(x) PROVE QuestionInv'
  BY <1>114 DEF USDTAddress
<1>115. ASSUME NEW x \in Addresses, ManageData(x) PROVE QuestionInv'
  BY <1>115 DEF ManageData, ConfirmOr, Confirm
<1>116. ASSUME NEW way \in {"deposit", "withdraw"}, AssetTransfer(way) PROVE QuestionInv'
  BY <1>116 DEF AssetTransfer, AskPinForAsset, Request, AskPin, PinPrompt
<1>117. CASE UNCHANGED vars
  BY <1>117 DEF vars
<1>118. CASE SendNext
  BY <1>6, <1>7, <1>8, <1>9, <1>10, <1>11, <1>12, <1>13, <1>14, <1>15, <1>16, <1>17, <1>18,
     <1>19, <1>20, <1>118 DEF SendNext
<1>119. CASE SwapNext
  BY <1>21, <1>22, <1>23, <1>24, <1>25, <1>26, <1>27, <1>28, <1>29, <1>30, <1>31, <1>32, <1>33,
     <1>34, <1>119 DEF SwapNext
<1>120. CASE TradeNext
  BY <1>35, <1>36, <1>37, <1>38, <1>39, <1>40, <1>41, <1>42, <1>43, <1>44, <1>45, <1>46, <1>47,
     <1>48, <1>49, <1>120 DEF TradeNext
<1>121. CASE ToolsNext
  BY <1>50, <1>51, <1>52, <1>53, <1>54, <1>55, <1>56, <1>57, <1>58, <1>59, <1>60, <1>61, <1>62,
     <1>63, <1>64, <1>65, <1>66, <1>67, <1>68, <1>69, <1>70, <1>71, <1>72, <1>73, <1>74, <1>75,
     <1>76, <1>77, <1>78, <1>79, <1>80, <1>121 DEF ToolsNext
<1>122. CASE WalletNext
  BY <1>81, <1>82, <1>83, <1>84, <1>85, <1>86, <1>87, <1>88, <1>89, <1>90, <1>91, <1>92, <1>93,
     <1>94, <1>95, <1>96, <1>97, <1>98, <1>99, <1>100, <1>101, <1>102, <1>103, <1>104, <1>105,
     <1>106, <1>107, <1>108, <1>109, <1>110, <1>111, <1>112, <1>113, <1>114, <1>115, <1>116,
     <1>122 DEF WalletNext
<1>. QED
  BY <1>1, <1>2, <1>3, <1>4, <1>5, <1>117, <1>118, <1>119, <1>120, <1>121, <1>122 DEF Next

-----------------------------------------------------------------------------
\* What the parts of "Send" leave behind.
LEMMA PaymentIs ==
  ASSUME NEW d
  PROVE  /\ Payment(d).op = "pay" /\ Payment(d).obj = d.to
         /\ Payment(d).send = d.send /\ Payment(d).receive = None
         /\ Payment(d).flags \subseteq {"cancel"} \cup ({d.memo} \ {None})
         /\ Payment(d) # Nothing
BY DEF Payment, Deed, Nothing

LEMMA Send04Does ==
  ASSUME NEW d, Full(d), NEW state, Send04(d, state)
  PROVE  \/ /\ fsm' = "confirming" /\ screen' = Screen("send_confirm", Payment(d))
            /\ \A k \in Keys \ {"xdr", "pending", "back"} : data'[k] = d[k]
            /\ data'.xdr = Payment(d) /\ data'.pending = Payment(d) /\ data'.back = d.msg
         \/ fsm' = state /\ data' = d /\ screen' = Screen("send_error", Nothing)
BY DEF Send04, Confirm, Show, Full, Keys

LEMMA ChooseTokenDoes ==
  ASSUME NEW d, Full(d), ChooseToken(d)
  PROVE  /\ fsm' = "choosing_token" /\ screen'.kind = "send_token"
         /\ \A k \in Keys \ {"stars"} : data'[k] = d[k]
         /\ data'.stars \in {d.known, d.to}
BY DEF ChooseToken, Show, Screen, Full, Keys

LEMMA CreateAccountDoes ==
  ASSUME NEW d, Full(d), CreateAccount(d)
  PROVE  /\ fsm' = "none"
         /\ \/ /\ screen'.kind = "activate" /\ screen'.deed.op = "activate"
               /\ data'.xdr = screen'.deed
               /\ \A k \in Keys \ {"xdr", "send"} : data'[k] = d[k]
            \/ screen' = Info /\ data' = d
<1>. DEFINE deed == Deed("activate", None, None, d.to, IF d.activate THEN {"15"} ELSE {})
<1>1. deed.op = "activate"
  BY DEF Deed
<1>2. \/ data' = [d EXCEPT !.xdr = deed, !.send = None] /\ screen' = Screen("activate", deed)
      \/ data' = d /\ screen' = Info
  BY DEF CreateAccount, Show
<1>3. fsm' = "none"
  BY DEF CreateAccount
<1>. HIDE DEF deed
<1>4. CASE data' = [d EXCEPT !.xdr = deed, !.send = None] /\ screen' = Screen("activate", deed)
  <2>1. screen'.kind = "activate" /\ screen'.deed = deed
    BY <1>4 DEF Screen
  <2>2. data'.xdr = deed
    BY <1>4 DEF Full, Keys
  <2>3. \A k \in Keys \ {"xdr", "send"} : data'[k] = d[k]
    BY <1>4 DEF Full
  <2>. QED
    BY <1>1, <1>3, <2>1, <2>2, <2>3
<1>5. CASE data' = d /\ screen' = Info
  BY <1>3, <1>5
<1>. QED
  BY <1>2, <1>4, <1>5

\* a is the address that a text or a photo with the address x stands for.
LEMMA SendForInDoes ==
  ASSUME NEW d, Full(d), NEW x, SendForIn(d, x)
  PROVE  \E a \in {x, d.qr}, memo \in {d.memo, Recipient(d, x)} :
           /\ a = Recipient(d, x)
           /\ \/ /\ fsm' = "choosing_token" /\ screen'.kind = "send_token"
                 /\ \A k \in Keys \ {"to", "known", "stars", "memo", "federal"} : data'[k] = d[k]
                 /\ data'.to = a /\ data'.stars = a /\ data'.known = a /\ data'.memo = memo
              \/ /\ fsm' = "none" /\ screen'.kind = "activate" /\ screen'.deed.op = "activate"
                 /\ data'.xdr = screen'.deed
                 /\ \A k \in Keys \ {"to", "xdr", "send"} : data'[k] = d[k]
              \/ /\ fsm' = "none" /\ screen' = Info
                 /\ \A k \in Keys \ {"to"} : data'[k] = d[k]
              \/ data' = d /\ fsm' = fsm /\ screen' = Screen("sending_for", Nothing)
<1>. DEFINE a == Recipient(d, x)
<1>1. a \in {x, d.qr}
  BY DEF Recipient
<1>2. CASE ChooseToken([d EXCEPT !.to = a, !.known = a])
  BY <1>1, <1>2 DEF ChooseToken, Show, Screen, Full, Keys
<1>3. CASE ChooseToken([d EXCEPT !.to = a, !.known = a, !.memo = a, !.federal = TRUE])
  BY <1>1, <1>3 DEF ChooseToken, Show, Screen, Full, Keys
<1>4. CASE CreateAccount([d EXCEPT !.to = a])
  <2>. DEFINE e == [d EXCEPT !.to = a]
  <2>1. Full(e) /\ e.qr = d.qr /\ \A k \in Keys \ {"to"} : e[k] = d[k]
    BY DEF Full, Keys
  <2>. HIDE DEF e
  <2>2. CreateAccount(e)
    BY <1>4 DEF e
  <2>. QED
    BY <1>1, <2>1, <2>2, CreateAccountDoes DEF Keys
<1>5. CASE data' = d /\ Show("sending_for", Nothing) /\ UNCHANGED fsm
  BY <1>1, <1>5 DEF Show
<1>. HIDE DEF a
<1>. QED
  BY <1>2, <1>3, <1>4, <1>5 DEF SendForIn, a

-----------------------------------------------------------------------------
\* A payment is under way, by the state or by the buttons.
InSend == fsm \in {"sending_sum", "sending_memo"} \/ screen.kind \in BackButton

\* Its recipient is the address given last, or that of the QR code.
RecipientInv ==
  /\ InSend => data.to \in {given, data.qr}
  /\ screen.kind = "send_confirm" => screen.deed.obj = data.to /\ screen.deed.op = "pay"

\* Every step keeps RecipientInv.
LEMMA RecipientStep == ShapeInv /\ QuestionInv /\ RecipientInv /\ [Next]_vars => RecipientInv'
<1>. SUFFICES ASSUME ShapeInv, QuestionInv, RecipientInv, [Next]_vars
             PROVE  RecipientInv'
  OBVIOUS
<1>. USE DEF RecipientInv, InSend, BackButton, QuestionInv, Lists, TextStates, PinStates, Deed,
     Nothing, ShapeInv, Keys, Clear, NoData, Tell, Show, Screen, Ask, NewHistory, NoChoice,
     Pressed, Menu, Info, ShowKept
<1>1. CASE Return
  BY <1>1 DEF Return
<1>2. CASE About
  BY <1>2 DEF About
<1>3. CASE Yes
  BY <1>3 DEF Yes, Request, AskPin, After, PinPrompt, Confirming, Confirms, ToSign
<1>4. CASE Sign
  BY <1>4 DEF Sign
<1>5. CASE DeleteReturn
  BY <1>5 DEF DeleteReturn, Return
<1>6. CASE Send
  BY <1>6 DEF Send, SendStart
<1>7. CASE SendCancelOffers
  BY <1>7 DEF SendCancelOffers
<1>8. CASE SendSum
  <2>1. CASE Send04(data, fsm)
    BY <1>8, <2>1, Send04Does, PaymentIs DEF SendSum, Full
  <2>2. CASE ShowKept("sending_sum", data.msg) /\ UNCHANGED <<fsm, data>>
    BY <1>8, <2>2 DEF SendSum
  <2>. QED
    BY <1>8, <2>1, <2>2 DEF SendSum
<1>9. CASE Memo
  BY <1>9 DEF Memo
<1>10. CASE SendMemo
  <2>. DEFINE d == [data EXCEPT !.memo = data.to]
  <2>1. Full(d) /\ d.to = data.to /\ d.qr = data.qr
    BY DEF Full
  <2>2. Send04(d, fsm) /\ given' = given /\ fsm = "sending_memo"
    BY <1>10 DEF SendMemo
  <2>. HIDE DEF d
  <2>. QED
    BY <2>1, <2>2, Send04Does, PaymentIs
<1>11. CASE Send15
  BY <1>11 DEF Send15, CreateAccount
<1>12. CASE SendBackToAddress
  BY <1>12 DEF SendBackToAddress, Back
<1>13. CASE SendBackToToken
  BY <1>13 DEF SendBackToToken, Back, ChooseToken
<1>14. CASE SendBackToAmount
  BY <1>14 DEF SendBackToAmount, Back, ForgetSignature
<1>15. CASE SendBackToConfirmation
  BY <1>15, Send04Does, PaymentIs DEF SendBackToConfirmation, Back, Full
<1>16. ASSUME NEW x \in Addresses, SendFor(x) PROVE RecipientInv'
  <2>1. SendForIn(data, x) /\ given' = x /\ fsm = "sending_for" /\ Full(data)
    BY <1>16 DEF SendFor, Full
  <2>. QED
    BY <2>1, SendForInDoes DEF Full
<1>17. ASSUME NEW x \in Addresses, Photo(x) PROVE RecipientInv'
  <2>1. CASE SendForIn([data EXCEPT !.qr = x], x)
    <3>. DEFINE d == [data EXCEPT !.qr = x]
    <3>1. Full(d) /\ d.qr = x
      BY DEF Full
    <3>2. SendForIn(d, x) /\ given' = x /\ fsm \notin {"sending_sum", "sending_memo"}
      BY <1>17, <2>1 DEF Photo
    <3>. HIDE DEF d
    <3>. QED
      BY <3>1, <3>2, SendForInDoes
  <2>2. ASSUME NEW a \in Assets, NEW memo \in {None, x}, SendNow(data, fsm, a, x, memo)
        PROVE  RecipientInv'
    <3>. DEFINE d == [data EXCEPT !.send = a, !.to = x, !.memo = memo]
    <3>1. Full(d) /\ d.to = x
      BY DEF Full
    <3>2. Send04(d, fsm) /\ given' = x
      BY <1>17, <2>2 DEF Photo, SendNow
    <3>. HIDE DEF d
    <3>. QED
      BY <3>1, <3>2, Send04Does, PaymentIs
  <2>. QED
    BY <1>17, <2>1, <2>2 DEF Photo
<1>18. ASSUME NEW x \in Addresses, AddressText(x) PROVE RecipientInv'
  <2>1. \E d : Full(d) /\ d.to = x /\ ChooseToken(d)
    BY <1>18 DEF AddressText, Full
  <2>2. given' = x
    BY <1>18 DEF AddressText
  <2>. QED
    BY <2>1, <2>2, ChooseTokenDoes
<1>19. ASSUME NEW a \in Assets, NEW x \in Addresses, Eurmtl(a, x) PROVE RecipientInv'
  <2>1. ASSUME NEW memo \in {None, x},
               SendNow([NoData EXCEPT !.federal = memo # None], "none", a, x, memo)
        PROVE  RecipientInv'
    <3>. DEFINE d == Asked(a, x, memo)
    <3>1. Full(d) /\ d.to = x
      BY AskedIs
    <3>2. Send04(d, "none") /\ given' = x
      BY <1>19, <2>1 DEF Eurmtl, SendNow, Asked
    <3>. HIDE DEF d
    <3>. QED
      BY <3>1, <3>2, Send04Does, PaymentIs
  <2>2. CASE data' = NoData /\ fsm' = "none" /\ screen' = Info
    BY <2>2
  <2>. QED
    BY <1>19, <2>1, <2>2 DEF Eurmtl
<1>20. ASSUME NEW a \in Assets, SendToken(a) PROVE RecipientInv'
  BY <1>20 DEF SendToken
<1>21. CASE SwapStart
  BY <1>21 DEF SwapStart
<1>22. CASE SwapSlippage
  BY <1>22 DEF SwapSlippage
<1>23. CASE SwapCancelOffers
  BY <1>23 DEF SwapCancelOffers
<1>24. CASE SwapStrictReceive
  BY <1>24 DEF SwapStrictReceive, ReceivePrompt
<1>25. CASE SwapSum
  BY <1>25 DEF SwapSum, Confirm, Swap
<1>26. CASE SwapReceiveSum
  BY <1>26 DEF SwapReceiveSum, Confirm, Swap, ReceivePrompt
<1>27. CASE SwapBackToSource
  BY <1>27 DEF SwapBackToSource, SwapBack
<1>28. CASE SwapBackToDestination
  BY <1>28 DEF SwapBackToDestination, SwapBack, SwapFromPrompt
<1>29. CASE SwapBackFromReceive
  BY <1>29 DEF SwapBackFromReceive, SwapBack, SumPrompt
<1>30. CASE SwapBackFromSendConfirmation
  BY <1>30 DEF SwapBackFromSendConfirmation, SwapBack, SumPrompt, ForgetSignature
<1>31. CASE SwapBackFromReceiveConfirmation
  BY <1>31 DEF SwapBackFromReceiveConfirmation, SwapBack, ReceivePrompt, ForgetSignature
<1>32. ASSUME NEW a \in Assets, SwapFrom(a) PROVE RecipientInv'
  BY <1>32 DEF SwapFrom, SwapFromPrompt
<1>33. ASSUME NEW a \in Assets, SwapFor(a) PROVE RecipientInv'
  BY <1>33 DEF SwapFor
<1>34. ASSUME NEW a \in Assets, NEW b \in Assets, SwapText(a, b) PROVE RecipientInv'
  BY <1>34 DEF SwapText, Confirm, Swap
<1>35. CASE Market
  BY <1>35 DEF Market
<1>36. CASE NewOrder
  BY <1>36 DEF NewOrder
<1>37. CASE ShowOrders
  BY <1>37 DEF ShowOrders
<1>38. CASE SaleSum
  BY <1>38 DEF SaleSum
<1>39. CASE SaleCost
  BY <1>39 DEF SaleCost, XdrOrder, OrderDeed, Confirm
<1>40. CASE EditSaleSum
  BY <1>40 DEF EditSaleSum, XdrOrder, OrderDeed, Confirm
<1>41. CASE EditSaleCost
  BY <1>41 DEF EditSaleCost, XdrOrder, OrderDeed, Confirm
<1>42. ASSUME NEW o \in Orders, EditOrder(o) PROVE RecipientInv'
  BY <1>42 DEF EditOrder
<1>43. ASSUME NEW o \in Orders, TradeCancel(o) PROVE RecipientInv'
  BY <1>43 DEF TradeCancel, OrderDeed, Confirm
<1>44. ASSUME NEW a \in Assets, TradeSell(a) PROVE RecipientInv'
  BY <1>44 DEF TradeSell
<1>45. ASSUME NEW a \in Assets, TradeBuy(a) PROVE RecipientInv'
  BY <1>45 DEF TradeBuy
<1>46. ASSUME NEW a \in Assets, NEW b \in Assets, TradeText(a, b) PROVE RecipientInv'
  BY <1>46 DEF TradeText, OrderDeed, Confirm
<1>47. ASSUME NEW a \in Assets, NEW b \in Assets, EditOrderAmount(a, b) PROVE RecipientInv'
  BY <1>47 DEF EditOrderAmount, Edit, OfOrder
<1>48. ASSUME NEW a \in Assets, NEW b \in Assets, EditOrderPrice(a, b) PROVE RecipientInv'
  BY <1>48 DEF EditOrderPrice, Edit, OfOrder
<1>49. ASSUME NEW a \in Assets, NEW b \in Assets, DeleteOrder(a, b) PROVE RecipientInv'
  BY <1>49 DEF DeleteOrder, OfOrder, XdrOrder, OrderDeed, Confirm
<1>50. CASE MTLTools
  BY <1>50 DEF MTLTools
<1>51. CASE MTLAPTools
  BY <1>51 DEF MTLAPTools
<1>52. CASE ToolsDelegate
  BY <1>52 DEF ToolsDelegate, OpenTool, Tool
<1>53. CASE ToolsDonate
  BY <1>53 DEF ToolsDonate, OpenTool, Tool
<1>54. CASE ToolsBIM
  BY <1>54 DEF ToolsBIM, OpenTool, Tool
<1>55. CASE ToolsDelegateA
  BY <1>55 DEF ToolsDelegateA, OpenTool, Tool
<1>56. CASE ToolsDelegateC
  BY <1>56 DEF ToolsDelegateC, OpenTool, Tool
<1>57. CASE AddDelegate
  BY <1>57 DEF AddDelegate, AskAddress, OnTool, AddressState
<1>58. CASE AddDelegateA
  BY <1>58 DEF AddDelegateA, AskAddress, OnTool, AddressState
<1>59. CASE AddDelegateC
  BY <1>59 DEF AddDelegateC, AskAddress, OnTool, AddressState
<1>60. CASE AddDonate
  BY <1>60 DEF AddDonate, AskAddress, OnTool, AddressState
<1>61. CASE AddBIM
  BY <1>61 DEF AddBIM, AskAddress, OnTool, AddressState
<1>62. CASE ToolsRecommend
  BY <1>62 DEF ToolsRecommend
<1>63. CASE DelDelegate
  BY <1>63 DEF DelDelegate, DeleteEntry, OnTool, ConfirmEntry, Confirm, DeleteData
<1>64. CASE DelDelegateA
  BY <1>64 DEF DelDelegateA, DeleteEntry, OnTool, ConfirmEntry, Confirm, DeleteData
<1>65. CASE DelDelegateC
  BY <1>65 DEF DelDelegateC, DeleteEntry, OnTool, ConfirmEntry, Confirm, DeleteData
<1>66. CASE DeleteDonate
  BY <1>66 DEF DeleteDonate, DeleteEntry, OnTool, ConfirmEntry, Confirm, DeleteData
<1>67. CASE DeleteBIM
  BY <1>67 DEF DeleteBIM, DeleteEntry, OnTool, ConfirmEntry, Confirm, DeleteData
<1>68. CASE DonateName
  BY <1>68 DEF DonateName
<1>69. CASE DonatePercent
  BY <1>69 DEF DonatePercent, ConfirmEntry, Confirm, SetData
<1>70. CASE BIMName
  BY <1>70 DEF BIMName, ConfirmEntry, Confirm, SetData
<1>71. CASE Donate
  BY <1>71 DEF Donate, AskDonation
<1>72. CASE CmdDonate
  BY <1>72 DEF CmdDonate, AskDonation
<1>73. CASE DonateSum
  BY <1>73 DEF DonateSum, After
<1>74. CASE DonateButton
  BY <1>74 DEF DonateButton
<1>75. ASSUME NEW x \in Addresses, DelegateFor(x) PROVE RecipientInv'
  BY <1>75 DEF DelegateFor, SetEntry, AddressState, ConfirmEntry, Confirm, SetData
<1>76. ASSUME NEW x \in Addresses, DelegateForA(x) PROVE RecipientInv'
  BY <1>76 DEF DelegateForA, SetEntry, AddressState, ConfirmEntry, Confirm, SetData
<1>77. ASSUME NEW x \in Addresses, DelegateForC(x) PROVE RecipientInv'
  BY <1>77 DEF DelegateForC, SetEntry, AddressState, ConfirmEntry, Confirm, SetData
<1>78. ASSUME NEW x \in Addresses, RecommendFor(x) PROVE RecipientInv'
  BY <1>78 DEF RecommendFor, SetEntry, AddressState, ConfirmEntry, Confirm, SetData
<1>79. ASSUME NEW x \in Addresses, DonateAddress(x) PROVE RecipientInv'
  BY <1>79 DEF DonateAddress, KeepAddress, AddressState
<1>80. ASSUME NEW x \in Addresses, BIMAddress(x) PROVE RecipientInv'
  BY <1>80 DEF BIMAddress, KeepAddress, AddressState
<1>81. CASE WalletSetting
  BY <1>81 DEF WalletSetting
<1>82. CASE ManageAssets
  BY <1>82 DEF ManageAssets
<1>83. CASE AssetVisibility
  BY <1>83 DEF AssetVisibility, VisibilityList
<1>84. CASE SetVisibility
  BY <1>84 DEF SetVisibility, VisibilityList
<1>85. CASE DeleteAsset
  BY <1>85 DEF DeleteAsset
<1>86. CASE AddAsset
  BY <1>86 DEF AddAsset
<1>87. CASE AddAssetExpert
  BY <1>87 DEF AddAssetExpert
<1>88. CASE RemovePassword
  BY <1>88 DEF RemovePassword, AskPinFor, AskPin, PinPrompt
<1>89. CASE GetPrivateKey
  BY <1>89 DEF GetPrivateKey, AskPinFor, AskPin, PinPrompt
<1>90. CASE BuyAddress
  BY <1>90 DEF BuyAddress, ConfirmOr, Confirm
<1>91. CASE AddressBook
  BY <1>91 DEF AddressBook
<1>92. CASE AddressBookText
  BY <1>92 DEF AddressBookText
<1>93. CASE DataManagement
  BY <1>93 DEF DataManagement
<1>94. CASE SetDefault
  BY <1>94 DEF SetDefault
<1>95. CASE DefaultAddress
  BY <1>95 DEF DefaultAddress
<1>96. CASE SetLimit
  BY <1>96 DEF SetLimit
<1>97. CASE Assets_
  BY <1>97 DEF Assets_
<1>98. CASE AssetRequests
  BY <1>98 DEF AssetRequests, AskPinForAsset, Request, AskPin, PinPrompt
<1>99. CASE InOut
  BY <1>99 DEF InOut
<1>100. CASE USDT
  BY <1>100 DEF USDT
<1>101. CASE BTC
  BY <1>101 DEF BTC
<1>102. CASE USDTOut
  BY <1>102 DEF USDTOut
<1>103. CASE USDTSum
  BY <1>103 DEF USDTSum, Confirm
<1>104. CASE BTCIn
  BY <1>104 DEF BTCIn
<1>105. CASE BTCSum
  BY <1>105 DEF BTCSum
<1>106. CASE Stars
  BY <1>106 DEF Stars
<1>107. CASE StarsSum
  BY <1>107 DEF StarsSum
<1>108. ASSUME NEW a \in Assets, DelAsset(a) PROVE RecipientInv'
  BY <1>108 DEF DelAsset, ConfirmOr, Confirm, Trust
<1>109. ASSUME NEW a \in Assets, CqAddAsset(a) PROVE RecipientInv'
  BY <1>109 DEF CqAddAsset, AddAssetEnd, Confirm, Trust
<1>110. ASSUME NEW a \in Assets, SendingCode(a) PROVE RecipientInv'
  BY <1>110 DEF SendingCode
<1>111. ASSUME NEW a \in Assets, StartAsset(a) PROVE RecipientInv'
  BY <1>111 DEF StartAsset, AddAssetEnd, Confirm, Trust
<1>112. ASSUME NEW a \in Assets, AssetView(a) PROVE RecipientInv'
  BY <1>112 DEF AssetView
<1>113. ASSUME NEW x \in Addresses, SendingIssuer(x) PROVE RecipientInv'
  BY <1>113 DEF SendingIssuer, AddAssetEnd, Confirm, Trust
<1>114. ASSUME NEW x \in Addresses, USDTAddress(x) PROVE RecipientInv'
  BY <1>114 DEF USDTAddress
<1>115. ASSUME NEW x \in Addresses, ManageData(x) PROVE RecipientInv'
  BY <1>115 DEF ManageData, ConfirmOr, Confirm
<1>116. ASSUME NEW way \in {"deposit", "withdraw"}, AssetTransfer(way) PROVE RecipientInv'
  BY <1>116 DEF AssetTransfer, AskPinForAsset, Request, AskPin, PinPrompt
<1>117. CASE UNCHANGED vars
  BY <1>117 DEF vars
<1>118. CASE SendNext
  BY <1>6, <1>7, <1>8, <1>9, <1>10, <1>11, <1>12, <1>13, <1>14, <1>15, <1>16, <1>17, <1>18,
     <1>19, <1>20, <1>118 DEF SendNext
<1>119. CASE SwapNext
  BY <1>21, <1>22, <1>23, <1>24, <1>25, <1>26, <1>27, <1>28, <1>29, <1>30, <1>31, <1>32, <1>33,
     <1>34, <1>119 DEF SwapNext
<1>120. CASE TradeNext
  BY <1>35, <1>36, <1>37, <1>38, <1>39, <1>40, <1>41, <1>42, <1>43, <1>44, <1>45, <1>46, <1>47,
     <1>48, <1>49, <1>120 DEF TradeNext
<1>121. CASE ToolsNext
  BY <1>50, <1>51, <1>52, <1>53, <1>54, <1>55, <1>56, <1>57, <1>58, <1>59, <1>60, <1>61, <1>62,
     <1>63, <1>64, <1>65, <1>66, <1>67, <1>68, <1>69, <1>70, <1>71, <1>72, <1>73, <1>74, <1>75,
     <1>76, <1>77, <1>78, <1>79, <1>80, <1>121 DEF ToolsNext
<1>122. CASE WalletNext
  BY <1>81, <1>82, <1>83, <1>84, <1>85, <1>86, <1>87, <1>88, <1>89, <1>90, <1>91, <1>92, <1>93,
     <1>94, <1>95, <1>96, <1>97, <1>98, <1>99, <1>100, <1>101, <1>102, <1>103, <1>104, <1>105,
     <1>106, <1>107, <1>108, <1>109, <1>110, <1>111, <1>112, <1>113, <1>114, <1>115, <1>116,
     <1>122 DEF WalletNext
<1>. QED
  BY <1>1, <1>2, <1>3, <1>4, <1>5, <1>117, <1>118, <1>119, <1>120, <1>121, <1>122 DEF Next

-----------------------------------------------------------------------------
\* Nothing of another conversation is in the data of a payment.
PayInv == ~mixed =>
  /\ InSend => {data.memo, data.stars, data.known} \subseteq {None, data.to}
  /\ InSend \/ screen.kind = "activate" \/ fsm = "sending_for" =>
       data.func = "none" /\ data.after = "none"
  /\ fsm = "sending_for" => data.memo = None /\ data.pending = Nothing
  /\ screen.kind = "activate" => data.pending = Nothing /\ screen.deed.op = "activate"
  /\ screen.kind = "send_confirm" => screen.deed.flags \subseteq {"cancel", screen.deed.obj}

\* The parts of "Send" keep PayInv.
Tidy(d) == d.func = "none" /\ d.after = "none"

LEMMA Send04Pays ==
  ASSUME NEW d, Full(d), NEW state, Send04(d, state), state # "sending_for",
         ~mixed' => Tidy(d) /\ {d.memo, d.stars, d.known} \subseteq {None, d.to}
  PROVE  PayInv'
<1>. USE DEF PayInv, InSend, BackButton, Screen, Tidy
<1>1. CASE /\ fsm' = "confirming" /\ screen' = Screen("send_confirm", Payment(d))
           /\ \A k \in Keys \ {"xdr", "pending", "back"} : data'[k] = d[k]
  <2>1. /\ data'.to = d.to /\ data'.memo = d.memo /\ data'.stars = d.stars
        /\ data'.known = d.known /\ data'.func = d.func /\ data'.after = d.after
    BY <1>1 DEF Keys
  <2>. QED
    BY <1>1, <2>1, PaymentIs
<1>2. CASE fsm' = state /\ data' = d /\ screen' = Screen("send_error", Nothing)
  BY <1>2
<1>. QED
  BY <1>1, <1>2, Send04Does

LEMMA ChooseTokenPays ==
  ASSUME NEW d, Full(d), ChooseToken(d),
         ~mixed' => Tidy(d) /\ {d.memo, d.known} \subseteq {None, d.to}
  PROVE  PayInv'
<1>1. /\ data'.to = d.to /\ data'.memo = d.memo /\ data'.stars \in {d.known, d.to}
      /\ data'.known = d.known /\ data'.func = d.func /\ data'.after = d.after
      /\ fsm' = "choosing_token" /\ screen'.kind = "send_token"
  BY ChooseTokenDoes DEF Keys
<1>. QED
  BY <1>1 DEF PayInv, InSend, BackButton, Tidy

LEMMA CreateAccountPays ==
  ASSUME NEW d, Full(d), CreateAccount(d), ~mixed' => Tidy(d) /\ d.pending = Nothing
  PROVE  PayInv'
<1>. USE DEF PayInv, InSend, BackButton, Tidy
<1>1. CASE /\ fsm' = "none" /\ screen'.kind = "activate" /\ screen'.deed.op = "activate"
           /\ \A k \in Keys \ {"xdr", "send"} : data'[k] = d[k]
  <2>1. data'.func = d.func /\ data'.after = d.after /\ data'.pending = d.pending
    BY <1>1 DEF Keys
  <2>. QED
    BY <1>1, <2>1
<1>2. CASE fsm' = "none" /\ screen' = Info /\ data' = d
  BY <1>2 DEF Info, Screen
<1>. QED
  BY <1>1, <1>2, CreateAccountDoes

LEMMA SendForPays ==
  ASSUME NEW d, Full(d), NEW x, SendForIn(d, x), fsm \notin {"sending_sum", "sending_memo"},
         ~mixed' => Tidy(d) /\ d.memo = None /\ d.pending = Nothing
  PROVE  PayInv'
<1>. DEFINE a == Recipient(d, x)
<1>1. CASE ChooseToken([d EXCEPT !.to = a, !.known = a])
  <2>. DEFINE e == [d EXCEPT !.to = a, !.known = a]
  <2>1. /\ Full(e) /\ e.to = a /\ e.known = a /\ e.memo = d.memo
        /\ e.func = d.func /\ e.after = d.after
    BY DEF Full, Keys
  <2>2. ChooseToken(e)
    BY <1>1
  <2>. HIDE DEF e
  <2>. QED
    BY <2>1, <2>2, ChooseTokenPays DEF Tidy
<1>2. CASE ChooseToken([d EXCEPT !.to = a, !.known = a, !.memo = a, !.federal = TRUE])
  <2>. DEFINE e == [d EXCEPT !.to = a, !.known = a, !.memo = a, !.federal = TRUE]
  <2>1. /\ Full(e) /\ e.to = a /\ e.known = a /\ e.memo = a
        /\ e.func = d.func /\ e.after = d.after
    BY DEF Full, Keys
  <2>2. ChooseToken(e)
    BY <1>2
  <2>. HIDE DEF e
  <2>. QED
    BY <2>1, <2>2, ChooseTokenPays DEF Tidy
<1>3. CASE CreateAccount([d EXCEPT !.to = a])
  <2>. DEFINE e == [d EXCEPT !.to = a]
  <2>1. Full(e) /\ e.pending = d.pending /\ e.func = d.func /\ e.after = d.after
    BY DEF Full, Keys
  <2>2. CreateAccount(e)
    BY <1>3
  <2>. HIDE DEF e
  <2>. QED
    BY <2>1, <2>2, CreateAccountPays DEF Tidy
<1>4. CASE data' = d /\ Show("sending_for", Nothing) /\ UNCHANGED fsm
  BY <1>4 DEF PayInv, InSend, BackButton, Tidy, Show, Screen
<1>. QED
  BY <1>1, <1>2, <1>3, <1>4 DEF SendForIn

\* Every step keeps PayInv.
LEMMA PayStep == ShapeInv /\ QuestionInv /\ PayInv /\ [Next]_vars => PayInv'
<1>. SUFFICES ASSUME ShapeInv, QuestionInv, PayInv, [Next]_vars
             PROVE  PayInv'
  OBVIOUS
<1>. USE DEF PayInv, InSend, BackButton, QuestionInv, Lists, TextStates, PinStates, Deed,
     Nothing, ShapeInv, Keys, Clear, NoData, Tell, Show, Screen, Ask, NewHistory, NoChoice,
     Pressed, Menu, Info, ShowKept
<1>1. CASE Return
  BY <1>1 DEF Return
<1>2. CASE About
  BY <1>2 DEF About
<1>3. CASE Yes
  BY <1>3 DEF Yes, Request, AskPin, After, PinPrompt, Confirming, Confirms, ToSign
<1>4. CASE Sign
  BY <1>4 DEF Sign
<1>5. CASE DeleteReturn
  BY <1>5 DEF DeleteReturn, Return
<1>6. CASE Send
  BY <1>6 DEF Send, SendStart
<1>7. CASE SendCancelOffers
  BY <1>7 DEF SendCancelOffers
<1>8. CASE SendSum
  <2>1. CASE Send04(data, fsm)
    BY <1>8, <2>1, Send04Pays DEF SendSum, Full, Tidy
  <2>2. CASE ShowKept("sending_sum", data.msg) /\ UNCHANGED <<fsm, data>>
    BY <1>8, <2>2 DEF SendSum
  <2>. QED
    BY <1>8, <2>1, <2>2 DEF SendSum
<1>9. CASE Memo
  BY <1>9 DEF Memo
<1>10. CASE SendMemo
  <2>. DEFINE d == [data EXCEPT !.memo = data.to]
  <2>1. /\ Full(d) /\ d.memo = data.to /\ d.to = data.to /\ d.stars = data.stars
        /\ d.known = data.known /\ d.func = data.func /\ d.after = data.after
    BY DEF Full
  <2>2. Send04(d, fsm) /\ mixed' = mixed /\ fsm = "sending_memo"
    BY <1>10 DEF SendMemo
  <2>. HIDE DEF d
  <2>. QED
    BY <2>1, <2>2, Send04Pays DEF Tidy
<1>11. CASE Send15
  <2>. DEFINE d == [data EXCEPT !.activate = TRUE]
  <2>1. Full(d) /\ d.pending = data.pending /\ d.func = data.func /\ d.after = data.after
    BY DEF Full
  <2>2. CreateAccount(d) /\ mixed' = mixed /\ screen.kind = "activate"
    BY <1>11 DEF Send15
  <2>. HIDE DEF d
  <2>. QED
    BY <2>1, <2>2, CreateAccountPays DEF Tidy
<1>12. CASE SendBackToAddress
  BY <1>12 DEF SendBackToAddress, Back
<1>13. CASE SendBackToToken
  <2>1. ChooseToken(data) /\ mixed' = mixed /\ fsm = "sending_sum"
    BY <1>13 DEF SendBackToToken, Back
  <2>. QED
    BY <2>1, ChooseTokenPays DEF Full, Tidy
<1>14. CASE SendBackToAmount
  BY <1>14 DEF SendBackToAmount, Back, ForgetSignature
<1>15. CASE SendBackToConfirmation
  <2>1. Send04(data, fsm) /\ mixed' = mixed /\ fsm = "sending_memo"
    BY <1>15 DEF SendBackToConfirmation, Back
  <2>. QED
    BY <2>1, Send04Pays DEF Full, Tidy
<1>16. ASSUME NEW x \in Addresses, SendFor(x) PROVE PayInv'
  <2>1. SendForIn(data, x) /\ mixed' = mixed /\ fsm = "sending_for"
    BY <1>16 DEF SendFor
  <2>. QED
    BY <2>1, SendForPays DEF Full, Tidy
<1>17. ASSUME NEW x \in Addresses, Photo(x) PROVE PayInv'
  <2>1. CASE /\ SendForIn([data EXCEPT !.qr = x], x)
             /\ mixed' = ([data EXCEPT !.qr = None] # NoData)
    <3>. DEFINE d == [data EXCEPT !.qr = x]
    <3>1. ASSUME ~mixed' PROVE [data EXCEPT !.qr = None] = NoData
      BY <2>1, <3>1
    <3>2. Full(d) /\ (~mixed' => Tidy(d) /\ d.memo = None /\ d.pending = Nothing)
      BY <3>1 DEF Full, Tidy
    <3>3. SendForIn(d, x) /\ fsm \notin {"sending_sum", "sending_memo"}
      BY <1>17, <2>1 DEF Photo
    <3>. HIDE DEF d
    <3>. QED
      BY <3>2, <3>3, SendForPays
  <2>2. ASSUME NEW a \in Assets, NEW memo \in {None, x}, SendNow(data, fsm, a, x, memo),
               mixed' = (fsm # "none" \/ data # NoData)
        PROVE  PayInv'
    <3>. DEFINE d == [data EXCEPT !.send = a, !.to = x, !.memo = memo]
    <3>1. ASSUME ~mixed' PROVE data = NoData
      BY <2>2, <3>1
    <3>2. /\ Full(d) /\ d.to = x /\ d.memo = memo /\ d.stars = data.stars
          /\ d.known = data.known /\ d.func = data.func /\ d.after = data.after
      BY DEF Full
    <3>3. Send04(d, fsm)
      BY <2>2 DEF SendNow
    <3>4. CASE fsm = "sending_for"
      <4>1. mixed'
        BY <2>2, <3>4
      <4>. QED
        BY <4>1
    <3>. HIDE DEF d
    <3>5. ~mixed' => Tidy(d) /\ d.stars = None /\ d.known = None
      BY <3>1, <3>2 DEF Tidy
    <3>. QED
      BY <3>2, <3>3, <3>4, <3>5, Send04Pays
  <2>. QED
    BY <1>17, <2>1, <2>2 DEF Photo
<1>18. ASSUME NEW x \in Addresses, AddressText(x) PROVE PayInv'
  <2>1. ASSUME ~mixed' PROVE data = NoData
    BY <1>18, <2>1 DEF AddressText
  <2>2. ASSUME NEW d, d \in {[data EXCEPT !.to = x],
                             [data EXCEPT !.to = x, !.memo = x, !.federal = TRUE]},
               ChooseToken(d)
        PROVE  PayInv'
    <3>1. /\ Full(d) /\ d.to = x /\ d.memo \in {data.memo, x} /\ d.known = data.known
          /\ d.func = data.func /\ d.after = data.after
      BY <2>2 DEF Full
    <3>2. ASSUME ~mixed' PROVE Tidy(d) /\ d.memo \in {None, x} /\ d.known = None
      BY <2>1, <3>1, <3>2 DEF Tidy
    <3>3. ~mixed' => Tidy(d) /\ {d.memo, d.known} \subseteq {None, d.to}
      BY <3>1, <3>2
    <3>. QED
      BY <2>2, <3>1, <3>3, ChooseTokenPays
  <2>. QED
    BY <1>18, <2>2 DEF AddressText
<1>19. ASSUME NEW a \in Assets, NEW x \in Addresses, Eurmtl(a, x) PROVE PayInv'
  <2>1. ASSUME NEW memo \in {None, x},
               SendNow([NoData EXCEPT !.federal = memo # None], "none", a, x, memo)
        PROVE  PayInv'
    <3>. DEFINE d == Asked(a, x, memo)
    <3>1. Full(d) /\ d.to = x /\ d.memo = memo /\ d.stars = None /\ d.known = None /\ Tidy(d)
      BY AskedIs DEF Tidy
    <3>2. Send04(d, "none")
      BY <1>19, <2>1 DEF Eurmtl, SendNow, Asked
    <3>. HIDE DEF d
    <3>. QED
      BY <3>1, <3>2, Send04Pays
  <2>2. CASE data' = NoData /\ fsm' = "none" /\ screen' = Info
    BY <2>2
  <2>. QED
    BY <1>19, <2>1, <2>2 DEF Eurmtl
<1>20. ASSUME NEW a \in Assets, SendToken(a) PROVE PayInv'
  BY <1>20 DEF SendToken
<1>21. CASE SwapStart
  BY <1>21 DEF SwapStart
<1>22. CASE SwapSlippage
  BY <1>22 DEF SwapSlippage
<1>23. CASE SwapCancelOffers
  BY <1>23 DEF SwapCancelOffers
<1>24. CASE SwapStrictReceive
  BY <1>24 DEF SwapStrictReceive, ReceivePrompt
<1>25. CASE SwapSum
  BY <1>25 DEF SwapSum, Confirm, Swap
<1>26. CASE SwapReceiveSum
  BY <1>26 DEF SwapReceiveSum, Confirm, Swap, ReceivePrompt
<1>27. CASE SwapBackToSource
  BY <1>27 DEF SwapBackToSource, SwapBack
<1>28. CASE SwapBackToDestination
  BY <1>28 DEF SwapBackToDestination, SwapBack, SwapFromPrompt
<1>29. CASE SwapBackFromReceive
  BY <1>29 DEF SwapBackFromReceive, SwapBack, SumPrompt
<1>30. CASE SwapBackFromSendConfirmation
  BY <1>30 DEF SwapBackFromSendConfirmation, SwapBack, SumPrompt, ForgetSignature
<1>31. CASE SwapBackFromReceiveConfirmation
  BY <1>31 DEF SwapBackFromReceiveConfirmation, SwapBack, ReceivePrompt, ForgetSignature
<1>32. ASSUME NEW a \in Assets, SwapFrom(a) PROVE PayInv'
  BY <1>32 DEF SwapFrom, SwapFromPrompt
<1>33. ASSUME NEW a \in Assets, SwapFor(a) PROVE PayInv'
  BY <1>33 DEF SwapFor
<1>34. ASSUME NEW a \in Assets, NEW b \in Assets, SwapText(a, b) PROVE PayInv'
  BY <1>34 DEF SwapText, Confirm, Swap
<1>35. CASE Market
  BY <1>35 DEF Market
<1>36. CASE NewOrder
  BY <1>36 DEF NewOrder
<1>37. CASE ShowOrders
  BY <1>37 DEF ShowOrders
<1>38. CASE SaleSum
  BY <1>38 DEF SaleSum
<1>39. CASE SaleCost
  BY <1>39 DEF SaleCost, XdrOrder, OrderDeed, Confirm
<1>40. CASE EditSaleSum
  BY <1>40 DEF EditSaleSum, XdrOrder, OrderDeed, Confirm
<1>41. CASE EditSaleCost
  BY <1>41 DEF EditSaleCost, XdrOrder, OrderDeed, Confirm
<1>42. ASSUME NEW o \in Orders, EditOrder(o) PROVE PayInv'
  BY <1>42 DEF EditOrder
<1>43. ASSUME NEW o \in Orders, TradeCancel(o) PROVE PayInv'
  BY <1>43 DEF TradeCancel, OrderDeed, Confirm
<1>44. ASSUME NEW a \in Assets, TradeSell(a) PROVE PayInv'
  BY <1>44 DEF TradeSell
<1>45. ASSUME NEW a \in Assets, TradeBuy(a) PROVE PayInv'
  BY <1>45 DEF TradeBuy
<1>46. ASSUME NEW a \in Assets, NEW b \in Assets, TradeText(a, b) PROVE PayInv'
  BY <1>46 DEF TradeText, OrderDeed, Confirm
<1>47. ASSUME NEW a \in Assets, NEW b \in Assets, EditOrderAmount(a, b) PROVE PayInv'
  BY <1>47 DEF EditOrderAmount, Edit, OfOrder
<1>48. ASSUME NEW a \in Assets, NEW b \in Assets, EditOrderPrice(a, b) PROVE PayInv'
  BY <1>48 DEF EditOrderPrice, Edit, OfOrder
<1>49. ASSUME NEW a \in Assets, NEW b \in Assets, DeleteOrder(a, b) PROVE PayInv'
  BY <1>49 DEF DeleteOrder, OfOrder, XdrOrder, OrderDeed, Confirm
<1>50. CASE MTLTools
  BY <1>50 DEF MTLTools
<1>51. CASE MTLAPTools
  BY <1>51 DEF MTLAPTools
<1>52. CASE ToolsDelegate
  BY <1>52 DEF ToolsDelegate, OpenTool, Tool
<1>53. CASE ToolsDonate
  BY <1>53 DEF ToolsDonate, OpenTool, Tool
<1>54. CASE ToolsBIM
  BY <1>54 DEF ToolsBIM, OpenTool, Tool
<1>55. CASE ToolsDelegateA
  BY <1>55 DEF ToolsDelegateA, OpenTool, Tool
<1>56. CASE ToolsDelegateC
  BY <1>56 DEF ToolsDelegateC, OpenTool, Tool
<1>57. CASE AddDelegate
  BY <1>57 DEF AddDelegate, AskAddress, OnTool, AddressState
<1>58. CASE AddDelegateA
  BY <1>58 DEF AddDelegateA, AskAddress, OnTool, AddressState
<1>59. CASE AddDelegateC
  BY <1>59 DEF AddDelegateC, AskAddress, OnTool, AddressState
<1>60. CASE AddDonate
  BY <1>60 DEF AddDonate, AskAddress, OnTool, AddressState
<1>61. CASE AddBIM
  BY <1>61 DEF AddBIM, AskAddress, OnTool, AddressState
<1>62. CASE ToolsRecommend
  BY <1>62 DEF ToolsRecommend
<1>63. CASE DelDelegate
  BY <1>63 DEF DelDelegate, DeleteEntry, OnTool, ConfirmEntry, Confirm, DeleteData
<1>64. CASE DelDelegateA
  BY <1>64 DEF DelDelegateA, DeleteEntry, OnTool, ConfirmEntry, Confirm, DeleteData
<1>65. CASE DelDelegateC
  BY <1>65 DEF DelDelegateC, DeleteEntry, OnTool, ConfirmEntry, Confirm, DeleteData
<1>66. CASE DeleteDonate
  BY <1>66 DEF DeleteDonate, DeleteEntry, OnTool, ConfirmEntry, Confirm, DeleteData
<1>67. CASE DeleteBIM
  BY <1>67 DEF DeleteBIM, DeleteEntry, OnTool, ConfirmEntry, Confirm, DeleteData
<1>68. CASE DonateName
  BY <1>68 DEF DonateName
<1>69. CASE DonatePercent
  BY <1>69 DEF DonatePercent, ConfirmEntry, Confirm, SetData
<1>70. CASE BIMName
  BY <1>70 DEF BIMName, ConfirmEntry, Confirm, SetData
<1>71. CASE Donate
  BY <1>71 DEF Donate, AskDonation
<1>72. CASE CmdDonate
  BY <1>72 DEF CmdDonate, AskDonation
<1>73. CASE DonateSum
  BY <1>73 DEF DonateSum, After
<1>74. CASE DonateButton
  BY <1>74 DEF DonateButton
<1>75. ASSUME NEW x \in Addresses, DelegateFor(x) PROVE PayInv'
  BY <1>75 DEF DelegateFor, SetEntry, AddressState, ConfirmEntry, Confirm, SetData
<1>76. ASSUME NEW x \in Addresses, DelegateForA(x) PROVE PayInv'
  BY <1>76 DEF DelegateForA, SetEntry, AddressState, ConfirmEntry, Confirm, SetData
<1>77. ASSUME NEW x \in Addresses, DelegateForC(x) PROVE PayInv'
  BY <1>77 DEF DelegateForC, SetEntry, AddressState, ConfirmEntry, Confirm, SetData
<1>78. ASSUME NEW x \in Addresses, RecommendFor(x) PROVE PayInv'
  BY <1>78 DEF RecommendFor, SetEntry, AddressState, ConfirmEntry, Confirm, SetData
<1>79. ASSUME NEW x \in Addresses, DonateAddress(x) PROVE PayInv'
  BY <1>79 DEF DonateAddress, KeepAddress, AddressState
<1>80. ASSUME NEW x \in Addresses, BIMAddress(x) PROVE PayInv'
  BY <1>80 DEF BIMAddress, KeepAddress, AddressState
<1>81. CASE WalletSetting
  BY <1>81 DEF WalletSetting
<1>82. CASE ManageAssets
  BY <1>82 DEF ManageAssets
<1>83. CASE AssetVisibility
  BY <1>83 DEF AssetVisibility, VisibilityList
<1>84. CASE SetVisibility
  BY <1>84 DEF SetVisibility, VisibilityList
<1>85. CASE DeleteAsset
  BY <1>85 DEF DeleteAsset
<1>86. CASE AddAsset
  BY <1>86 DEF AddAsset
<1>87. CASE AddAssetExpert
  BY <1>87 DEF AddAssetExpert
<1>88. CASE RemovePassword
  BY <1>88 DEF RemovePassword, AskPinFor, AskPin, PinPrompt
<1>89. CASE GetPrivateKey
  BY <1>89 DEF GetPrivateKey, AskPinFor, AskPin, PinPrompt
<1>90. CASE BuyAddress
  BY <1>90 DEF BuyAddress, ConfirmOr, Confirm
<1>91. CASE AddressBook
  BY <1>91 DEF AddressBook
<1>92. CASE AddressBookText
  BY <1>92 DEF AddressBookText
<1>93. CASE DataManagement
  BY <1>93 DEF DataManagement
<1>94. CASE SetDefault
  BY <1>94 DEF SetDefault
<1>95. CASE DefaultAddress
  BY <1>95 DEF DefaultAddress
<1>96. CASE SetLimit
  BY <1>96 DEF SetLimit
<1>97. CASE Assets_
  BY <1>97 DEF Assets_
<1>98. CASE AssetRequests
  BY <1>98 DEF AssetRequests, AskPinForAsset, Request, AskPin, PinPrompt
<1>99. CASE InOut
  BY <1>99 DEF InOut
<1>100. CASE USDT
  BY <1>100 DEF USDT
<1>101. CASE BTC
  BY <1>101 DEF BTC
<1>102. CASE USDTOut
  BY <1>102 DEF USDTOut
<1>103. CASE USDTSum
  BY <1>103 DEF USDTSum, Confirm
<1>104. CASE BTCIn
  BY <1>104 DEF BTCIn
<1>105. CASE BTCSum
  BY <1>105 DEF BTCSum
<1>106. CASE Stars
  BY <1>106 DEF Stars
<1>107. CASE StarsSum
  BY <1>107 DEF StarsSum
<1>108. ASSUME NEW a \in Assets, DelAsset(a) PROVE PayInv'
  BY <1>108 DEF DelAsset, ConfirmOr, Confirm, Trust
<1>109. ASSUME NEW a \in Assets, CqAddAsset(a) PROVE PayInv'
  BY <1>109 DEF CqAddAsset, AddAssetEnd, Confirm, Trust
<1>110. ASSUME NEW a \in Assets, SendingCode(a) PROVE PayInv'
  BY <1>110 DEF SendingCode
<1>111. ASSUME NEW a \in Assets, StartAsset(a) PROVE PayInv'
  BY <1>111 DEF StartAsset, AddAssetEnd, Confirm, Trust
<1>112. ASSUME NEW a \in Assets, AssetView(a) PROVE PayInv'
  BY <1>112 DEF AssetView
<1>113. ASSUME NEW x \in Addresses, SendingIssuer(x) PROVE PayInv'
  BY <1>113 DEF SendingIssuer, AddAssetEnd, Confirm, Trust
<1>114. ASSUME NEW x \in Addresses, USDTAddress(x) PROVE PayInv'
  BY <1>114 DEF USDTAddress
<1>115. ASSUME NEW x \in Addresses, ManageData(x) PROVE PayInv'
  BY <1>115 DEF ManageData, ConfirmOr, Confirm
<1>116. ASSUME NEW way \in {"deposit", "withdraw"}, AssetTransfer(way) PROVE PayInv'
  BY <1>116 DEF AssetTransfer, AskPinForAsset, Request, AskPin, PinPrompt
<1>117. CASE UNCHANGED vars
  BY <1>117 DEF vars
<1>118. CASE SendNext
  BY <1>6, <1>7, <1>8, <1>9, <1>10, <1>11, <1>12, <1>13, <1>14, <1>15, <1>16, <1>17, <1>18,
     <1>19, <1>20, <1>118 DEF SendNext
<1>119. CASE SwapNext
  BY <1>21, <1>22, <1>23, <1>24, <1>25, <1>26, <1>27, <1>28, <1>29, <1>30, <1>31, <1>32, <1>33,
     <1>34, <1>119 DEF SwapNext
<1>120. CASE TradeNext
  BY <1>35, <1>36, <1>37, <1>38, <1>39, <1>40, <1>41, <1>42, <1>43, <1>44, <1>45, <1>46, <1>47,
     <1>48, <1>49, <1>120 DEF TradeNext
<1>121. CASE ToolsNext
  BY <1>50, <1>51, <1>52, <1>53, <1>54, <1>55, <1>56, <1>57, <1>58, <1>59, <1>60, <1>61, <1>62,
     <1>63, <1>64, <1>65, <1>66, <1>67, <1>68, <1>69, <1>70, <1>71, <1>72, <1>73, <1>74, <1>75,
     <1>76, <1>77, <1>78, <1>79, <1>80, <1>121 DEF ToolsNext
<1>122. CASE WalletNext
  BY <1>81, <1>82, <1>83, <1>84, <1>85, <1>86, <1>87, <1>88, <1>89, <1>90, <1>91, <1>92, <1>93,
     <1>94, <1>95, <1>96, <1>97, <1>98, <1>99, <1>100, <1>101, <1>102, <1>103, <1>104, <1>105,
     <1>106, <1>107, <1>108, <1>109, <1>110, <1>111, <1>112, <1>113, <1>114, <1>115, <1>116,
     <1>122 DEF WalletNext
<1>. QED
  BY <1>1, <1>2, <1>3, <1>4, <1>5, <1>117, <1>118, <1>119, <1>120, <1>121, <1>122 DEF Next

-----------------------------------------------------------------------------
\* What a prompt names is what the data say.
Fits(deed, d) ==
  /\ deed.op # "none"
  /\ deed.send \in {None, d.send} /\ deed.receive \in {None, d.receive}
  /\ deed.obj \in {None, d.offer}

\* The states that show msg again, those that may, and those that may show back.
KeepMsg == (AmountStates \ {"sending_sum"}) \cup {"confirming_send", "confirming_receive"}

MayKeepMsg == {"sending_sum", "confirming", "sending_memo"}

MayKeepBack == {"confirming", "swap_receive_sum", "confirming_send", "confirming_receive"}

\* What is shown, and what will be shown again.
PromptInv == ~mixed =>
  /\ screen.kind \in AmountStates => Fits(screen.deed, data)
  /\ fsm \in KeepMsg => Fits(data.msg, data)
  /\ fsm \in MayKeepMsg /\ data.msg # Nothing => Fits(data.msg, data)
  /\ screen.kind = "send_confirm" /\ data.msg # Nothing => Fits(data.msg, data)
  /\ fsm \in MayKeepBack /\ data.back # Nothing => Fits(data.back, data)

LEMMA ConfirmDoes ==
  ASSUME NEW d, Full(d), NEW kind, NEW state, NEW deed, Confirm(kind, state, deed, d)
  PROVE  /\ fsm' = state /\ screen'.kind = kind /\ screen'.deed = deed
         /\ data'.xdr = deed /\ data'.pending = deed
         /\ \A k \in Keys \ {"xdr", "pending"} : data'[k] = d[k]
BY DEF Confirm, Show, Screen, Full, Keys

\* The parts of "Send" keep PromptInv.
LEMMA Send04Prompts ==
  ASSUME NEW d, Full(d), NEW state, Send04(d, state),
         ~mixed' => /\ state \in {"sending_sum", "sending_memo", "none"}
                    /\ d.msg # Nothing => Fits(d.msg, d)
  PROVE  PromptInv'
<1>. USE DEF PromptInv, KeepMsg, MayKeepMsg, MayKeepBack, AmountStates
<1>1. CASE /\ fsm' = "confirming" /\ screen' = Screen("send_confirm", Payment(d))
           /\ \A k \in Keys \ {"xdr", "pending", "back"} : data'[k] = d[k]
           /\ data'.back = d.msg
  <2>1. /\ data'.msg = d.msg /\ data'.back = d.msg
        /\ data'.send = d.send /\ data'.receive = d.receive /\ data'.offer = d.offer
        /\ fsm' = "confirming" /\ screen'.kind = "send_confirm"
    BY <1>1 DEF Keys, Screen
  <2>2. Fits(d.msg, d) => Fits(data'.msg, data') /\ Fits(data'.back, data')
    BY <2>1 DEF Fits
  <2>. QED
    BY <2>1, <2>2
<1>2. CASE fsm' = state /\ data' = d /\ screen' = Screen("send_error", Nothing)
  BY <1>2 DEF Screen
<1>. QED
  BY <1>1, <1>2, Send04Does

\* Every step keeps PromptInv.
LEMMA PromptStep == ShapeInv /\ QuestionInv /\ PromptInv /\ [Next]_vars => PromptInv'
<1>. SUFFICES ASSUME ShapeInv, QuestionInv, PromptInv, [Next]_vars
             PROVE  PromptInv'
  OBVIOUS
<1>. USE DEF PromptInv, Fits, AmountStates, KeepMsg, MayKeepMsg, MayKeepBack, BackButton,
     QuestionInv, Lists, TextStates, PinStates, Deed, Nothing, ShapeInv, Keys, Clear, NoData,
     Tell, Show, Screen, Ask, NewHistory, NoChoice, Pressed, Menu, Info, ShowKept
<1>1. CASE Return
  BY <1>1 DEF Return
<1>2. CASE About
  BY <1>2 DEF About
<1>3. CASE Yes
  BY <1>3 DEF Yes, Request, AskPin, After, PinPrompt, Confirming, Confirms, ToSign
<1>4. CASE Sign
  BY <1>4 DEF Sign
<1>5. CASE DeleteReturn
  BY <1>5 DEF DeleteReturn, Return
<1>6. CASE Send
  BY <1>6 DEF Send, SendStart
<1>7. CASE SendCancelOffers
  BY <1>7 DEF SendCancelOffers
<1>8. CASE SendSum
  <2>1. CASE Send04(data, fsm)
    BY <1>8, <2>1, Send04Prompts DEF SendSum, Full
  <2>2. CASE ShowKept("sending_sum", data.msg) /\ UNCHANGED <<fsm, data>>
    BY <1>8, <2>2 DEF SendSum
  <2>. QED
    BY <1>8, <2>1, <2>2 DEF SendSum
<1>9. CASE Memo
  BY <1>9 DEF Memo
<1>10. CASE SendMemo
  <2>. DEFINE d == [data EXCEPT !.memo = data.to]
  <2>1. /\ Full(d) /\ d.msg = data.msg /\ d.send = data.send /\ d.receive = data.receive
        /\ d.offer = data.offer
    BY DEF Full
  <2>2. Send04(d, fsm) /\ mixed' = mixed /\ fsm = "sending_memo"
    BY <1>10 DEF SendMemo
  <2>. HIDE DEF d
  <2>. QED
    BY <2>1, <2>2, Send04Prompts
<1>11. CASE Send15
  BY <1>11 DEF Send15, CreateAccount
<1>12. CASE SendBackToAddress
  BY <1>12 DEF SendBackToAddress, Back
<1>13. CASE SendBackToToken
  BY <1>13 DEF SendBackToToken, Back, ChooseToken
<1>14. CASE SendBackToAmount
  BY <1>14 DEF SendBackToAmount, Back, ForgetSignature
<1>15. CASE SendBackToConfirmation
  <2>1. Send04(data, fsm) /\ mixed' = mixed /\ fsm = "sending_memo"
    BY <1>15 DEF SendBackToConfirmation, Back
  <2>. QED
    BY <2>1, Send04Prompts DEF Full
<1>16. ASSUME NEW x \in Addresses, SendFor(x) PROVE PromptInv'
  BY <1>16 DEF SendFor, SendForIn, Recipient, ChooseToken, CreateAccount
<1>17. ASSUME NEW x \in Addresses, Photo(x) PROVE PromptInv'
  <2>1. CASE /\ SendForIn([data EXCEPT !.qr = x], x)
             /\ mixed' = ([data EXCEPT !.qr = None] # NoData)
    <3>1. ASSUME ~mixed' PROVE data.msg = Nothing
      <4>1. [data EXCEPT !.qr = None] = NoData
        BY <2>1, <3>1
      <4>2. [data EXCEPT !.qr = None].msg = data.msg /\ NoData.msg = Nothing
        OBVIOUS
      <4>. QED
        BY <4>1, <4>2
    <3>2. ASSUME ~mixed' PROVE fsm \notin KeepMsg
      BY <1>17, <3>1, <3>2 DEF Photo
    <3>. DEFINE d == [data EXCEPT !.qr = x]
    <3>3. Full(d) /\ d.msg = data.msg
      BY DEF Full
    <3>4. SendForIn(d, x)
      BY <2>1
    <3>5. ASSUME ~mixed' PROVE d.back = Nothing
      <4>1. [data EXCEPT !.qr = None] = NoData
        BY <2>1, <3>5
      <4>2. [data EXCEPT !.qr = None].back = data.back /\ NoData.back = Nothing
        OBVIOUS
      <4>. QED
        BY <4>1, <4>2
    <3>. HIDE DEF d
    <3>6. \/ fsm' = "choosing_token" /\ screen'.kind = "send_token"
          \/ fsm' = "none" /\ screen'.kind \in {"activate", "info"}
          \/ data' = d /\ fsm' = fsm /\ screen'.kind = "sending_for"
      BY <3>3, <3>4, SendForInDoes
    <3>. QED
      BY <3>1, <3>2, <3>3, <3>5, <3>6
  <2>2. ASSUME NEW a \in Assets, NEW memo \in {None, x}, SendNow(data, fsm, a, x, memo),
               mixed' = (fsm # "none" \/ data # NoData)
        PROVE  PromptInv'
    <3>. DEFINE d == [data EXCEPT !.send = a, !.to = x, !.memo = memo]
    <3>1. Full(d) /\ d.msg = data.msg
      BY DEF Full
    <3>2. Send04(d, fsm)
      BY <2>2 DEF SendNow
    <3>. HIDE DEF d
    <3>3. ASSUME ~mixed' PROVE fsm = "none" /\ data = NoData
      BY <2>2, <3>3
    <3>4. NoData.msg = Nothing
      OBVIOUS
    <3>. QED
      BY <3>1, <3>2, <3>3, <3>4, Send04Prompts
  <2>. QED
    BY <1>17, <2>1, <2>2 DEF Photo
<1>18. ASSUME NEW x \in Addresses, AddressText(x) PROVE PromptInv'
  BY <1>18 DEF AddressText, ChooseToken
<1>19. ASSUME NEW a \in Assets, NEW x \in Addresses, Eurmtl(a, x) PROVE PromptInv'
  <2>1. ASSUME NEW memo \in {None, x},
               SendNow([NoData EXCEPT !.federal = memo # None], "none", a, x, memo)
        PROVE  PromptInv'
    <3>. DEFINE d == Asked(a, x, memo)
    <3>1. Full(d) /\ d.msg = Nothing
      BY AskedIs
    <3>2. Send04(d, "none")
      BY <2>1 DEF SendNow, Asked
    <3>. HIDE DEF d
    <3>. QED
      BY <3>1, <3>2, Send04Prompts
  <2>2. CASE data' = NoData /\ fsm' = "none" /\ screen' = Info
    BY <2>2
  <2>. QED
    BY <1>19, <2>1, <2>2 DEF Eurmtl
<1>20. ASSUME NEW a \in Assets, SendToken(a) PROVE PromptInv'
  BY <1>20 DEF SendToken
<1>21. CASE SwapStart
  BY <1>21 DEF SwapStart
<1>22. CASE SwapSlippage
  BY <1>22 DEF SwapSlippage
<1>23. CASE SwapCancelOffers
  BY <1>23 DEF SwapCancelOffers
<1>24. CASE SwapStrictReceive
  BY <1>24 DEF SwapStrictReceive, ReceivePrompt
<1>25. CASE SwapSum
  <2>1. CASE Confirm("swap_confirm", "confirming_send", Swap(data, FALSE),
                     [data EXCEPT !.back = data.msg])
    <3>. DEFINE d == [data EXCEPT !.back = data.msg]
                deed == Swap(data, FALSE)
    <3>1. Full(d)
      BY DEF Full
    <3>2. /\ d.msg = data.msg /\ d.back = data.msg /\ d.send = data.send
          /\ d.receive = data.receive /\ d.offer = data.offer
      OBVIOUS
    <3>. HIDE DEF d, deed, Keys
    <3>3. Confirm("swap_confirm", "confirming_send", deed, d)
      BY <2>1 DEF d, deed
    <3>4. /\ fsm' = "confirming_send" /\ screen'.kind = "swap_confirm"
          /\ \A k \in Keys \ {"xdr", "pending"} : data'[k] = d[k]
      BY <3>1, <3>3, ConfirmDoes
    <3>5. /\ data'.msg = data.msg /\ data'.back = data.msg /\ data'.send = data.send
          /\ data'.receive = data.receive /\ data'.offer = data.offer
      BY <3>2, <3>4 DEF Keys
    <3>6. fsm = "swap_sum" /\ mixed' = mixed
      BY <1>25 DEF SwapSum
    <3>7. ~mixed' => Fits(data.msg, data)
      BY <3>6
    <3>. QED
      BY <3>4, <3>5, <3>7
  <2>2. CASE Show("swap_sum", data.msg) /\ UNCHANGED <<fsm, data>>
    BY <1>25, <2>2 DEF SwapSum
  <2>. QED
    BY <1>25, <2>1, <2>2 DEF SwapSum
<1>26. CASE SwapReceiveSum
  <2>1. CASE Confirm("swap_confirm", "confirming_receive", Swap(data, TRUE),
                     [data EXCEPT !.back = data.msg])
    <3>. DEFINE d == [data EXCEPT !.back = data.msg]
                deed == Swap(data, TRUE)
    <3>1. Full(d)
      BY DEF Full
    <3>2. /\ d.msg = data.msg /\ d.back = data.msg /\ d.send = data.send
          /\ d.receive = data.receive /\ d.offer = data.offer
      OBVIOUS
    <3>. HIDE DEF d, deed, Keys
    <3>3. Confirm("swap_confirm", "confirming_receive", deed, d)
      BY <2>1 DEF d, deed
    <3>4. /\ fsm' = "confirming_receive" /\ screen'.kind = "swap_confirm"
          /\ \A k \in Keys \ {"xdr", "pending"} : data'[k] = d[k]
      BY <3>1, <3>3, ConfirmDoes
    <3>5. /\ data'.msg = data.msg /\ data'.back = data.msg /\ data'.send = data.send
          /\ data'.receive = data.receive /\ data'.offer = data.offer
      BY <3>2, <3>4 DEF Keys
    <3>6. fsm = "swap_receive_sum" /\ mixed' = mixed
      BY <1>26 DEF SwapReceiveSum
    <3>7. ~mixed' => Fits(data.msg, data)
      BY <3>6
    <3>. QED
      BY <3>4, <3>5, <3>7
  <2>2. CASE Show("swap_receive_sum", ReceivePrompt(data)) /\ UNCHANGED <<fsm, data>>
    BY <1>26, <2>2 DEF SwapReceiveSum, ReceivePrompt
  <2>. QED
    BY <1>26, <2>1, <2>2 DEF SwapReceiveSum
<1>27. CASE SwapBackToSource
  BY <1>27 DEF SwapBackToSource, SwapBack
<1>28. CASE SwapBackToDestination
  BY <1>28 DEF SwapBackToDestination, SwapBack, SwapFromPrompt
<1>29. CASE SwapBackFromReceive
  BY <1>29 DEF SwapBackFromReceive, SwapBack, SumPrompt
<1>30. CASE SwapBackFromSendConfirmation
  BY <1>30 DEF SwapBackFromSendConfirmation, SwapBack, SumPrompt, ForgetSignature
<1>31. CASE SwapBackFromReceiveConfirmation
  BY <1>31 DEF SwapBackFromReceiveConfirmation, SwapBack, ReceivePrompt, ForgetSignature
<1>32. ASSUME NEW a \in Assets, SwapFrom(a) PROVE PromptInv'
  BY <1>32 DEF SwapFrom, SwapFromPrompt
<1>33. ASSUME NEW a \in Assets, SwapFor(a) PROVE PromptInv'
  BY <1>33 DEF SwapFor
<1>34. ASSUME NEW a \in Assets, NEW b \in Assets, SwapText(a, b) PROVE PromptInv'
  BY <1>34 DEF SwapText, Confirm, Swap
<1>35. CASE Market
  BY <1>35 DEF Market
<1>36. CASE NewOrder
  BY <1>36 DEF NewOrder
<1>37. CASE ShowOrders
  BY <1>37 DEF ShowOrders
<1>38. CASE SaleSum
  BY <1>38 DEF SaleSum
<1>39. CASE SaleCost
  BY <1>39 DEF SaleCost, XdrOrder, OrderDeed, Confirm
<1>40. CASE EditSaleSum
  BY <1>40 DEF EditSaleSum, XdrOrder, OrderDeed, Confirm
<1>41. CASE EditSaleCost
  BY <1>41 DEF EditSaleCost, XdrOrder, OrderDeed, Confirm
<1>42. ASSUME NEW o \in Orders, EditOrder(o) PROVE PromptInv'
  BY <1>42 DEF EditOrder
<1>43. ASSUME NEW o \in Orders, TradeCancel(o) PROVE PromptInv'
  BY <1>43 DEF TradeCancel, OrderDeed, Confirm
<1>44. ASSUME NEW a \in Assets, TradeSell(a) PROVE PromptInv'
  BY <1>44 DEF TradeSell
<1>45. ASSUME NEW a \in Assets, TradeBuy(a) PROVE PromptInv'
  BY <1>45 DEF TradeBuy
<1>46. ASSUME NEW a \in Assets, NEW b \in Assets, TradeText(a, b) PROVE PromptInv'
  BY <1>46 DEF TradeText, OrderDeed, Confirm
<1>47. ASSUME NEW a \in Assets, NEW b \in Assets, EditOrderAmount(a, b) PROVE PromptInv'
  BY <1>47 DEF EditOrderAmount, Edit, OfOrder
<1>48. ASSUME NEW a \in Assets, NEW b \in Assets, EditOrderPrice(a, b) PROVE PromptInv'
  BY <1>48 DEF EditOrderPrice, Edit, OfOrder
<1>49. ASSUME NEW a \in Assets, NEW b \in Assets, DeleteOrder(a, b) PROVE PromptInv'
  BY <1>49 DEF DeleteOrder, OfOrder, XdrOrder, OrderDeed, Confirm
<1>50. CASE MTLTools
  BY <1>50 DEF MTLTools
<1>51. CASE MTLAPTools
  BY <1>51 DEF MTLAPTools
<1>52. CASE ToolsDelegate
  BY <1>52 DEF ToolsDelegate, OpenTool, Tool
<1>53. CASE ToolsDonate
  BY <1>53 DEF ToolsDonate, OpenTool, Tool
<1>54. CASE ToolsBIM
  BY <1>54 DEF ToolsBIM, OpenTool, Tool
<1>55. CASE ToolsDelegateA
  BY <1>55 DEF ToolsDelegateA, OpenTool, Tool
<1>56. CASE ToolsDelegateC
  BY <1>56 DEF ToolsDelegateC, OpenTool, Tool
<1>57. CASE AddDelegate
  BY <1>57 DEF AddDelegate, AskAddress, OnTool, AddressState
<1>58. CASE AddDelegateA
  BY <1>58 DEF AddDelegateA, AskAddress, OnTool, AddressState
<1>59. CASE AddDelegateC
  BY <1>59 DEF AddDelegateC, AskAddress, OnTool, AddressState
<1>60. CASE AddDonate
  BY <1>60 DEF AddDonate, AskAddress, OnTool, AddressState
<1>61. CASE AddBIM
  BY <1>61 DEF AddBIM, AskAddress, OnTool, AddressState
<1>62. CASE ToolsRecommend
  BY <1>62 DEF ToolsRecommend
<1>63. CASE DelDelegate
  BY <1>63 DEF DelDelegate, DeleteEntry, OnTool, ConfirmEntry, Confirm, DeleteData
<1>64. CASE DelDelegateA
  BY <1>64 DEF DelDelegateA, DeleteEntry, OnTool, ConfirmEntry, Confirm, DeleteData
<1>65. CASE DelDelegateC
  BY <1>65 DEF DelDelegateC, DeleteEntry, OnTool, ConfirmEntry, Confirm, DeleteData
<1>66. CASE DeleteDonate
  BY <1>66 DEF DeleteDonate, DeleteEntry, OnTool, ConfirmEntry, Confirm, DeleteData
<1>67. CASE DeleteBIM
  BY <1>67 DEF DeleteBIM, DeleteEntry, OnTool, ConfirmEntry, Confirm, DeleteData
<1>68. CASE DonateName
  BY <1>68 DEF DonateName
<1>69. CASE DonatePercent
  BY <1>69 DEF DonatePercent, ConfirmEntry, Confirm, SetData
<1>70. CASE BIMName
  BY <1>70 DEF BIMName, ConfirmEntry, Confirm, SetData
<1>71. CASE Donate
  BY <1>71 DEF Donate, AskDonation
<1>72. CASE CmdDonate
  BY <1>72 DEF CmdDonate, AskDonation
<1>73. CASE DonateSum
  BY <1>73 DEF DonateSum, After
<1>74. CASE DonateButton
  BY <1>74 DEF DonateButton
<1>75. ASSUME NEW x \in Addresses, DelegateFor(x) PROVE PromptInv'
  BY <1>75 DEF DelegateFor, SetEntry, AddressState, ConfirmEntry, Confirm, SetData
<1>76. ASSUME NEW x \in Addresses, DelegateForA(x) PROVE PromptInv'
  BY <1>76 DEF DelegateForA, SetEntry, AddressState, ConfirmEntry, Confirm, SetData
<1>77. ASSUME NEW x \in Addresses, DelegateForC(x) PROVE PromptInv'
  BY <1>77 DEF DelegateForC, SetEntry, AddressState, ConfirmEntry, Confirm, SetData
<1>78. ASSUME NEW x \in Addresses, RecommendFor(x) PROVE PromptInv'
  BY <1>78 DEF RecommendFor, SetEntry, AddressState, ConfirmEntry, Confirm, SetData
<1>79. ASSUME NEW x \in Addresses, DonateAddress(x) PROVE PromptInv'
  BY <1>79 DEF DonateAddress, KeepAddress, AddressState
<1>80. ASSUME NEW x \in Addresses, BIMAddress(x) PROVE PromptInv'
  BY <1>80 DEF BIMAddress, KeepAddress, AddressState
<1>81. CASE WalletSetting
  BY <1>81 DEF WalletSetting
<1>82. CASE ManageAssets
  BY <1>82 DEF ManageAssets
<1>83. CASE AssetVisibility
  BY <1>83 DEF AssetVisibility, VisibilityList
<1>84. CASE SetVisibility
  BY <1>84 DEF SetVisibility, VisibilityList
<1>85. CASE DeleteAsset
  BY <1>85 DEF DeleteAsset
<1>86. CASE AddAsset
  BY <1>86 DEF AddAsset
<1>87. CASE AddAssetExpert
  BY <1>87 DEF AddAssetExpert
<1>88. CASE RemovePassword
  BY <1>88 DEF RemovePassword, AskPinFor, AskPin, PinPrompt
<1>89. CASE GetPrivateKey
  BY <1>89 DEF GetPrivateKey, AskPinFor, AskPin, PinPrompt
<1>90. CASE BuyAddress
  BY <1>90 DEF BuyAddress, ConfirmOr, Confirm
<1>91. CASE AddressBook
  BY <1>91 DEF AddressBook
<1>92. CASE AddressBookText
  BY <1>92 DEF AddressBookText
<1>93. CASE DataManagement
  BY <1>93 DEF DataManagement
<1>94. CASE SetDefault
  BY <1>94 DEF SetDefault
<1>95. CASE DefaultAddress
  BY <1>95 DEF DefaultAddress
<1>96. CASE SetLimit
  BY <1>96 DEF SetLimit
<1>97. CASE Assets_
  BY <1>97 DEF Assets_
<1>98. CASE AssetRequests
  BY <1>98 DEF AssetRequests, AskPinForAsset, Request, AskPin, PinPrompt
<1>99. CASE InOut
  BY <1>99 DEF InOut
<1>100. CASE USDT
  BY <1>100 DEF USDT
<1>101. CASE BTC
  BY <1>101 DEF BTC
<1>102. CASE USDTOut
  <2>1. CASE fsm' = "sending_usdt_address" /\ screen'.kind = "sending_usdt_address"
    BY <2>1
  <2>2. CASE screen' = Info /\ UNCHANGED <<fsm, data>>
    BY <1>102, <2>2 DEF USDTOut
  <2>. QED
    BY <1>102, <2>1, <2>2 DEF USDTOut
<1>103. CASE USDTSum
  BY <1>103 DEF USDTSum, Confirm
<1>104. CASE BTCIn
  BY <1>104 DEF BTCIn
<1>105. CASE BTCSum
  BY <1>105 DEF BTCSum
<1>106. CASE Stars
  BY <1>106 DEF Stars
<1>107. CASE StarsSum
  BY <1>107 DEF StarsSum
<1>108. ASSUME NEW a \in Assets, DelAsset(a) PROVE PromptInv'
  BY <1>108 DEF DelAsset, ConfirmOr, Confirm, Trust
<1>109. ASSUME NEW a \in Assets, CqAddAsset(a) PROVE PromptInv'
  BY <1>109 DEF CqAddAsset, AddAssetEnd, Confirm, Trust
<1>110. ASSUME NEW a \in Assets, SendingCode(a) PROVE PromptInv'
  BY <1>110 DEF SendingCode
<1>111. ASSUME NEW a \in Assets, StartAsset(a) PROVE PromptInv'
  BY <1>111 DEF StartAsset, AddAssetEnd, Confirm, Trust
<1>112. ASSUME NEW a \in Assets, AssetView(a) PROVE PromptInv'
  BY <1>112 DEF AssetView
<1>113. ASSUME NEW x \in Addresses, SendingIssuer(x) PROVE PromptInv'
  BY <1>113 DEF SendingIssuer, AddAssetEnd, Confirm, Trust
<1>114. ASSUME NEW x \in Addresses, USDTAddress(x) PROVE PromptInv'
  BY <1>114 DEF USDTAddress
<1>115. ASSUME NEW x \in Addresses, ManageData(x) PROVE PromptInv'
  BY <1>115 DEF ManageData, ConfirmOr, Confirm
<1>116. ASSUME NEW way \in {"deposit", "withdraw"}, AssetTransfer(way) PROVE PromptInv'
  BY <1>116 DEF AssetTransfer, AskPinForAsset, Request, AskPin, PinPrompt
<1>117. CASE UNCHANGED vars
  BY <1>117 DEF vars
<1>118. CASE SendNext
  BY <1>6, <1>7, <1>8, <1>9, <1>10, <1>11, <1>12, <1>13, <1>14, <1>15, <1>16, <1>17, <1>18,
     <1>19, <1>20, <1>118 DEF SendNext
<1>119. CASE SwapNext
  BY <1>21, <1>22, <1>23, <1>24, <1>25, <1>26, <1>27, <1>28, <1>29, <1>30, <1>31, <1>32, <1>33,
     <1>34, <1>119 DEF SwapNext
<1>120. CASE TradeNext
  BY <1>35, <1>36, <1>37, <1>38, <1>39, <1>40, <1>41, <1>42, <1>43, <1>44, <1>45, <1>46, <1>47,
     <1>48, <1>49, <1>120 DEF TradeNext
<1>121. CASE ToolsNext
  BY <1>50, <1>51, <1>52, <1>53, <1>54, <1>55, <1>56, <1>57, <1>58, <1>59, <1>60, <1>61, <1>62,
     <1>63, <1>64, <1>65, <1>66, <1>67, <1>68, <1>69, <1>70, <1>71, <1>72, <1>73, <1>74, <1>75,
     <1>76, <1>77, <1>78, <1>79, <1>80, <1>121 DEF ToolsNext
<1>122. CASE WalletNext
  BY <1>81, <1>82, <1>83, <1>84, <1>85, <1>86, <1>87, <1>88, <1>89, <1>90, <1>91, <1>92, <1>93,
     <1>94, <1>95, <1>96, <1>97, <1>98, <1>99, <1>100, <1>101, <1>102, <1>103, <1>104, <1>105,
     <1>106, <1>107, <1>108, <1>109, <1>110, <1>111, <1>112, <1>113, <1>114, <1>115, <1>116,
     <1>122 DEF WalletNext
<1>. QED
  BY <1>1, <1>2, <1>3, <1>4, <1>5, <1>117, <1>118, <1>119, <1>120, <1>121, <1>122 DEF Next

-----------------------------------------------------------------------------
\* What "Yes" and the PIN will do is what the message above them tells.
SignInv == ~mixed =>
  /\ screen.kind \in {"confirm", "swap_confirm"} =>
       data.pending = screen.deed /\ screen.deed # Nothing
  /\ screen.kind \in {"menu", "settings"} \/ fsm = "send_donate_sum" => data.pending = Nothing
  /\ fsm = "sending_usdt_sum" => data.after = "usdt"
  /\ Confirming => ToSign \in {screen.deed, Nothing}
  /\ screen.kind = "pin" =>
       IF data.func # "none" THEN Instead = screen.deed
       ELSE data.xdr \in {screen.deed, Nothing} /\ data.after = After(screen.deed.op)

\* A message whose request is stored keeps SignInv.
LEMMA ConfirmSigns ==
  ASSUME NEW d, Full(d), NEW kind \in {"confirm", "swap_confirm"}, NEW state, NEW deed,
         Confirm(kind, state, deed, d), ~mixed' => deed # Nothing,
         state \notin {"send_donate_sum", "sending_usdt_sum"}
  PROVE  SignInv'
<1>1. /\ fsm' = state /\ screen'.kind = kind /\ screen'.deed = deed
      /\ data'.xdr = deed /\ data'.pending = deed
  BY ConfirmDoes
<1>. QED
  BY <1>1 DEF SignInv, ToSign

\* The parts of "Send" keep SignInv.
LEMMA Send04Signs ==
  ASSUME NEW d, Full(d), NEW state, Send04(d, state),
         ~mixed' => state \notin {"send_donate_sum", "sending_usdt_sum"}
  PROVE  SignInv'
<1>. USE DEF SignInv, Confirming, Confirms, ToSign, Screen
<1>1. CASE /\ fsm' = "confirming" /\ screen' = Screen("send_confirm", Payment(d))
           /\ data'.xdr = Payment(d) /\ data'.pending = Payment(d)
  BY <1>1, PaymentIs
<1>2. CASE fsm' = state /\ data' = d /\ screen' = Screen("send_error", Nothing)
  BY <1>2
<1>. QED
  BY <1>1, <1>2, Send04Does

LEMMA CreateAccountSigns ==
  ASSUME NEW d, Full(d), CreateAccount(d), ~mixed' => d.pending = Nothing
  PROVE  SignInv'
<1>. USE DEF SignInv, Confirming, Confirms, ToSign
<1>1. CASE /\ fsm' = "none" /\ screen'.kind = "activate" /\ data'.xdr = screen'.deed
           /\ \A k \in Keys \ {"xdr", "send"} : data'[k] = d[k]
  <2>1. data'.pending = d.pending
    BY <1>1 DEF Keys
  <2>. QED
    BY <1>1, <2>1
<1>2. CASE fsm' = "none" /\ screen' = Info
  BY <1>2 DEF Info, Screen
<1>. QED
  BY <1>1, <1>2, CreateAccountDoes

LEMMA SendForSigns ==
  ASSUME NEW d, Full(d), NEW x, SendForIn(d, x),
         ~mixed' => d.pending = Nothing /\ fsm \notin {"send_donate_sum", "sending_usdt_sum"}
  PROVE  SignInv'
<1>. USE DEF SignInv, Confirming, Confirms, ToSign
<1>1. CASE fsm' = "choosing_token" /\ screen'.kind = "send_token"
  BY <1>1
<1>2. CASE /\ fsm' = "none" /\ screen'.kind = "activate" /\ data'.xdr = screen'.deed
           /\ \A k \in Keys \ {"to", "xdr", "send"} : data'[k] = d[k]
  <2>1. data'.pending = d.pending
    BY <1>2 DEF Keys
  <2>. QED
    BY <1>2, <2>1
<1>3. CASE fsm' = "none" /\ screen' = Info
  BY <1>3 DEF Info, Screen
<1>4. CASE fsm' = fsm /\ screen' = Screen("sending_for", Nothing)
  BY <1>4 DEF Screen
<1>. QED
  BY <1>1, <1>2, <1>3, <1>4, SendForInDoes

LEMMA XdrOrderSigns ==
  ASSUME NEW d, Full(d), NEW state, XdrOrder(d, state),
         state \notin {"send_donate_sum", "sending_usdt_sum"}
  PROVE  SignInv'
<1>1. CASE Confirm("confirm", state, OrderDeed(d), [d EXCEPT !.msg = Nothing])
  <2>. DEFINE e == [d EXCEPT !.msg = Nothing]
  <2>1. Full(e)
    BY DEF Full
  <2>2. OrderDeed(d) # Nothing
    BY DEF OrderDeed, Deed, Nothing
  <2>3. Confirm("confirm", state, OrderDeed(d), e)
    BY <1>1
  <2>. HIDE DEF e
  <2>. QED
    BY <2>1, <2>2, <2>3, ConfirmSigns
<1>2. CASE screen' = Info /\ fsm' = state
  BY <1>2 DEF SignInv, Info, Screen, Confirming, Confirms
<1>. QED
  BY <1>1, <1>2 DEF XdrOrder

\* Every step keeps SignInv.
LEMMA SignStep == ShapeInv /\ QuestionInv /\ RecipientInv /\ PayInv /\ SignInv /\ [Next]_vars => SignInv'
<1>. SUFFICES ASSUME ShapeInv, QuestionInv, RecipientInv, PayInv, SignInv, [Next]_vars
             PROVE  SignInv'
  OBVIOUS
<1>. USE DEF SignInv, Confirming, Confirms, ToSign, Instead, After, BackButton, QuestionInv,
     Lists, TextStates, PinStates, Deed, Nothing, ShapeInv, Keys, Clear, NoData, Tell, Show,
     Screen, Ask, NewHistory, NoChoice, Pressed, Menu, Info, ShowKept
<1>1. CASE Return
  BY <1>1 DEF Return
<1>2. CASE About
  BY <1>2 DEF About
<1>3. CASE Yes
  <2>. HIDE DEF Nothing, Deed, After
  <2>1. /\ screen.kind \in Confirms /\ fsm # "send_donate_sum" /\ mixed' = mixed
        /\ fsm' = "sign_and_send" /\ screen'.kind = "pin" /\ screen'.deed = screen.deed
    BY <1>3 DEF Yes
  <2>2. CASE data.pending # Nothing
    <3>1. /\ data'.func = "none" /\ data'.after = After(data.pending.op)
          /\ data'.xdr = data.pending
      BY <1>3, <2>2 DEF Yes, Request, AskPin
    <3>2. ~mixed => data.pending = screen.deed
      BY <2>1, <2>2
    <3>. QED
      BY <2>1, <3>1, <3>2
  <2>3. CASE data.pending = Nothing
    <3>1. data'.func = data.func /\ data'.after = data.after /\ data'.xdr = data.xdr
      BY <1>3, <2>3 DEF Yes, AskPin
    <3>2. ~mixed => data.xdr \in {screen.deed, Nothing}
      BY <2>1, <2>3
    <3>3. ~mixed => screen.kind \in {"activate", "send_confirm"}
      BY <2>1, <2>3
    <3>4. ~mixed => data.func = "none" /\ data.after = "none"
      BY <3>3 DEF PayInv, InSend
    <3>5. ~mixed => screen.deed.op \in {"activate", "pay"}
      BY <3>3 DEF PayInv, RecipientInv
    <3>6. ~mixed => After(screen.deed.op) = "none"
      BY <3>5 DEF After
    <3>. QED
      BY <2>1, <3>1, <3>2, <3>4, <3>6
  <2>. QED
    BY <2>2, <2>3
<1>4. CASE Sign
  BY <1>4 DEF Sign
<1>5. CASE DeleteReturn
  BY <1>5 DEF DeleteReturn, Return
<1>6. CASE Send
  BY <1>6 DEF Send, SendStart
<1>7. CASE SendCancelOffers
  BY <1>7 DEF SendCancelOffers
<1>8. CASE SendSum
  <2>1. CASE Send04(data, fsm)
    BY <1>8, <2>1, Send04Signs DEF SendSum, Full
  <2>2. CASE ShowKept("sending_sum", data.msg) /\ UNCHANGED <<fsm, data>>
    BY <1>8, <2>2 DEF SendSum, PayInv, InSend
  <2>. QED
    BY <1>8, <2>1, <2>2 DEF SendSum
<1>9. CASE Memo
  BY <1>9 DEF Memo
<1>10. CASE SendMemo
  <2>. DEFINE d == [data EXCEPT !.memo = data.to]
  <2>1. Full(d)
    BY DEF Full
  <2>2. Send04(d, fsm) /\ fsm = "sending_memo"
    BY <1>10 DEF SendMemo
  <2>. HIDE DEF d
  <2>. QED
    BY <2>1, <2>2, Send04Signs
<1>11. CASE Send15
  <2>. DEFINE d == [data EXCEPT !.activate = TRUE]
  <2>1. Full(d) /\ d.pending = data.pending
    BY DEF Full
  <2>2. CreateAccount(d) /\ mixed' = mixed /\ screen.kind = "activate"
    BY <1>11 DEF Send15
  <2>. HIDE DEF d
  <2>3. ~mixed => data.pending = Nothing
    BY <2>2 DEF PayInv
  <2>. QED
    BY <2>1, <2>2, <2>3, CreateAccountSigns
<1>12. CASE SendBackToAddress
  BY <1>12 DEF SendBackToAddress, Back
<1>13. CASE SendBackToToken
  BY <1>13 DEF SendBackToToken, Back, ChooseToken
<1>14. CASE SendBackToAmount
  BY <1>14 DEF SendBackToAmount, Back, ForgetSignature
<1>15. CASE SendBackToConfirmation
  <2>1. Send04(data, fsm) /\ fsm = "sending_memo"
    BY <1>15 DEF SendBackToConfirmation, Back
  <2>. QED
    BY <2>1, Send04Signs DEF Full
<1>16. ASSUME NEW x \in Addresses, SendFor(x) PROVE SignInv'
  <2>1. SendForIn(data, x) /\ mixed' = mixed /\ fsm = "sending_for"
    BY <1>16 DEF SendFor
  <2>2. ~mixed => data.pending = Nothing
    BY <2>1 DEF PayInv
  <2>. QED
    BY <2>1, <2>2, SendForSigns DEF Full
<1>17. ASSUME NEW x \in Addresses, Photo(x) PROVE SignInv'
  <2>1. CASE /\ SendForIn([data EXCEPT !.qr = x], x)
             /\ mixed' = ([data EXCEPT !.qr = None] # NoData)
    <3>1. ASSUME ~mixed' PROVE data.pending = Nothing /\ data.after = "none"
      <4>1. [data EXCEPT !.qr = None] = NoData
        BY <2>1, <3>1
      <4>2. /\ [data EXCEPT !.qr = None].pending = data.pending /\ NoData.pending = Nothing
            /\ [data EXCEPT !.qr = None].after = data.after /\ NoData.after = "none"
        OBVIOUS
      <4>. QED
        BY <4>1, <4>2
    <3>. DEFINE d == [data EXCEPT !.qr = x]
    <3>2. Full(d) /\ d.pending = data.pending
      BY DEF Full
    <3>3. SendForIn(d, x)
      BY <2>1
    <3>. HIDE DEF d
    <3>4. fsm # "send_donate_sum" /\ ~mixed
      BY <1>17 DEF Photo, BeforeSend, BeforeTrade, BeforeTools
    <3>5. fsm = "sending_usdt_sum" => data.after = "usdt"
      BY <3>4
    <3>. QED
      BY <3>1, <3>2, <3>3, <3>4, <3>5, SendForSigns
  <2>2. ASSUME NEW a \in Assets, NEW memo \in {None, x}, SendNow(data, fsm, a, x, memo),
               mixed' = (fsm # "none" \/ data # NoData)
        PROVE  SignInv'
    <3>. DEFINE d == [data EXCEPT !.send = a, !.to = x, !.memo = memo]
    <3>1. Full(d)
      BY DEF Full
    <3>2. Send04(d, fsm)
      BY <2>2 DEF SendNow
    <3>. HIDE DEF d
    <3>3. ASSUME ~mixed' PROVE fsm = "none"
      BY <2>2, <3>3
    <3>. QED
      BY <3>1, <3>2, <3>3, Send04Signs
  <2>. QED
    BY <1>17, <2>1, <2>2 DEF Photo
<1>18. ASSUME NEW x \in Addresses, AddressText(x) PROVE SignInv'
  BY <1>18 DEF AddressText, ChooseToken
<1>19. ASSUME NEW a \in Assets, NEW x \in Addresses, Eurmtl(a, x) PROVE SignInv'
  <2>1. ASSUME NEW memo \in {None, x},
               SendNow([NoData EXCEPT !.federal = memo # None], "none", a, x, memo)
        PROVE  SignInv'
    <3>. DEFINE d == Asked(a, x, memo)
    <3>1. Full(d)
      BY AskedIs
    <3>2. Send04(d, "none")
      BY <2>1 DEF SendNow, Asked
    <3>. HIDE DEF d
    <3>. QED
      BY <3>1, <3>2, Send04Signs
  <2>2. CASE data' = NoData /\ fsm' = "none" /\ screen' = Info
    BY <2>2
  <2>. QED
    BY <1>19, <2>1, <2>2 DEF Eurmtl
<1>20. ASSUME NEW a \in Assets, SendToken(a) PROVE SignInv'
  BY <1>20 DEF SendToken
<1>21. CASE SwapStart
  BY <1>21 DEF SwapStart
<1>22. CASE SwapSlippage
  BY <1>22 DEF SwapSlippage
<1>23. CASE SwapCancelOffers
  BY <1>23 DEF SwapCancelOffers
<1>24. CASE SwapStrictReceive
  BY <1>24 DEF SwapStrictReceive, ReceivePrompt
<1>25. CASE SwapSum
  <2>. DEFINE d == [data EXCEPT !.back = data.msg]
              deed == Swap(data, FALSE)
  <2>1. Full(d)
    BY DEF Full
  <2>2. CASE Confirm("swap_confirm", "confirming_send", deed, d)
    <3>1. deed # Nothing
      BY DEF Swap
    <3>. HIDE DEF d, deed, SignInv
    <3>. QED
      BY <2>1, <2>2, <3>1, ConfirmSigns
  <2>3. CASE Show("swap_sum", data.msg) /\ UNCHANGED <<fsm, data>>
    BY <1>25, <2>3 DEF SwapSum
  <2>. QED
    BY <1>25, <2>2, <2>3 DEF SwapSum
<1>26. CASE SwapReceiveSum
  <2>. DEFINE d == [data EXCEPT !.back = data.msg]
              deed == Swap(data, TRUE)
  <2>1. Full(d)
    BY DEF Full
  <2>2. CASE Confirm("swap_confirm", "confirming_receive", deed, d)
    <3>1. deed # Nothing
      BY DEF Swap
    <3>. HIDE DEF d, deed, SignInv
    <3>. QED
      BY <2>1, <2>2, <3>1, ConfirmSigns
  <2>3. CASE Show("swap_receive_sum", ReceivePrompt(data)) /\ UNCHANGED <<fsm, data>>
    BY <1>26, <2>3 DEF SwapReceiveSum
  <2>. QED
    BY <1>26, <2>2, <2>3 DEF SwapReceiveSum
<1>27. CASE SwapBackToSource
  BY <1>27 DEF SwapBackToSource, SwapBack
<1>28. CASE SwapBackToDestination
  BY <1>28 DEF SwapBackToDestination, SwapBack, SwapFromPrompt
<1>29. CASE SwapBackFromReceive
  BY <1>29 DEF SwapBackFromReceive, SwapBack, SumPrompt
<1>30. CASE SwapBackFromSendConfirmation
  BY <1>30 DEF SwapBackFromSendConfirmation, SwapBack, SumPrompt, ForgetSignature
<1>31. CASE SwapBackFromReceiveConfirmation
  BY <1>31 DEF SwapBackFromReceiveConfirmation, SwapBack, ReceivePrompt, ForgetSignature
<1>32. ASSUME NEW a \in Assets, SwapFrom(a) PROVE SignInv'
  BY <1>32 DEF SwapFrom, SwapFromPrompt
<1>33. ASSUME NEW a \in Assets, SwapFor(a) PROVE SignInv'
  BY <1>33 DEF SwapFor
<1>34. ASSUME NEW a \in Assets, NEW b \in Assets, SwapText(a, b) PROVE SignInv'
  <2>. DEFINE d == Pair(a, b)
  <2>1. Full(d)
    BY PairIs
  <2>2. ASSUME NEW strict \in BOOLEAN, Confirm("confirm", "none", Swap(d, strict), d)
        PROVE  SignInv'
    <3>. DEFINE deed == Swap(d, strict)
    <3>1. deed # Nothing
      BY DEF Swap
    <3>2. Confirm("confirm", "none", deed, d)
      BY <2>2
    <3>. HIDE DEF d, deed, SignInv
    <3>. QED
      BY <2>1, <2>2, <3>1, <3>2, ConfirmSigns
  <2>3. CASE data' = NoData /\ screen' = Info /\ fsm' = "none"
    BY <1>34, <2>3 DEF SwapText
  <2>. QED
    BY <1>34, <2>2, <2>3 DEF SwapText, Pair
<1>35. CASE Market
  BY <1>35 DEF Market
<1>36. CASE NewOrder
  BY <1>36 DEF NewOrder
<1>37. CASE ShowOrders
  BY <1>37 DEF ShowOrders
<1>38. CASE SaleSum
  BY <1>38 DEF SaleSum
<1>39. CASE SaleCost
  <2>1. CASE XdrOrder([data EXCEPT !.msg = Nothing], "none")
    <3>. DEFINE d == [data EXCEPT !.msg = Nothing]
    <3>1. Full(d)
      BY FullKept DEF Full
    <3>2. XdrOrder(d, "none")
      BY <2>1
    <3>. HIDE DEF d
    <3>. QED
      BY <3>1, <3>2, XdrOrderSigns
  <2>2. CASE Show("selling_receive_sum", data.msg) /\ UNCHANGED <<fsm, data>>
    BY <1>39, <2>2 DEF SaleCost
  <2>. QED
    BY <1>39, <2>1, <2>2 DEF SaleCost
<1>40. CASE EditSaleSum
  <2>1. CASE XdrOrder([data EXCEPT !.msg = Nothing], "none")
    <3>. DEFINE d == [data EXCEPT !.msg = Nothing]
    <3>1. Full(d)
      BY FullKept DEF Full
    <3>2. XdrOrder(d, "none")
      BY <2>1
    <3>. HIDE DEF d
    <3>. QED
      BY <3>1, <3>2, XdrOrderSigns
  <2>2. CASE Show("editing_amount", data.msg) /\ UNCHANGED <<fsm, data>>
    BY <1>40, <2>2 DEF EditSaleSum
  <2>. QED
    BY <1>40, <2>1, <2>2 DEF EditSaleSum
<1>41. CASE EditSaleCost
  <2>1. CASE XdrOrder([data EXCEPT !.msg = Nothing], "none")
    <3>. DEFINE d == [data EXCEPT !.msg = Nothing]
    <3>1. Full(d)
      BY FullKept DEF Full
    <3>2. XdrOrder(d, "none")
      BY <2>1
    <3>. HIDE DEF d
    <3>. QED
      BY <3>1, <3>2, XdrOrderSigns
  <2>2. CASE Show("editing_price", data.msg) /\ UNCHANGED <<fsm, data>>
    BY <1>41, <2>2 DEF EditSaleCost
  <2>. QED
    BY <1>41, <2>1, <2>2 DEF EditSaleCost
<1>42. ASSUME NEW o \in Orders, EditOrder(o) PROVE SignInv'
  BY <1>42 DEF EditOrder
<1>43. ASSUME NEW o \in Orders, TradeCancel(o) PROVE SignInv'
  <2>1. ASSUME NEW a \in Assets, NEW b \in Assets
        PROVE  Confirm("confirm", "none", Ending(a, b, o), Ended(a, b))
                 => SignInv'
    <3>. DEFINE d == Ended(a, b)
                deed == Ending(a, b, o)
    <3>1. Full(d)
      BY EndedIs
    <3>3. deed # Nothing /\ deed.obj = o /\ deed.flags = {"delete"}
      BY EndingDeed
    <3>. HIDE DEF d, deed
    <3>. SUFFICES ASSUME Confirm("confirm", "none", deed, d) PROVE SignInv'
      BY DEF d, deed
    <3>. QED
      BY <3>1, <3>3, ConfirmSigns
  <2>2. CASE data' = NoData /\ screen' = Info /\ fsm' = "none"
    BY <2>2
  <2>. QED
    BY <1>43, <2>1, <2>2 DEF TradeCancel, Ended, Ending
<1>44. ASSUME NEW a \in Assets, TradeSell(a) PROVE SignInv'
  BY <1>44 DEF TradeSell
<1>45. ASSUME NEW a \in Assets, TradeBuy(a) PROVE SignInv'
  BY <1>45 DEF TradeBuy
<1>46. ASSUME NEW a \in Assets, NEW b \in Assets, TradeText(a, b) PROVE SignInv'
  <2>. DEFINE d == Pair(a, b)
              deed == OrderDeed(d)
  <2>1. Full(d)
    BY PairIs
  <2>2. CASE Confirm("confirm", "none", deed, d)
    <3>1. deed # Nothing
      BY DEF OrderDeed
    <3>. HIDE DEF d, deed, SignInv
    <3>. QED
      BY <2>1, <2>2, <3>1, ConfirmSigns
  <2>3. CASE data' = NoData /\ screen' = Info /\ fsm' = "none"
    BY <1>46, <2>3 DEF TradeText
  <2>. QED
    BY <1>46, <2>2, <2>3 DEF TradeText, Pair
<1>47. ASSUME NEW a \in Assets, NEW b \in Assets, EditOrderAmount(a, b) PROVE SignInv'
  BY <1>47 DEF EditOrderAmount, Edit, OfOrder
<1>48. ASSUME NEW a \in Assets, NEW b \in Assets, EditOrderPrice(a, b) PROVE SignInv'
  BY <1>48 DEF EditOrderPrice, Edit, OfOrder
<1>49. ASSUME NEW a \in Assets, NEW b \in Assets, DeleteOrder(a, b) PROVE SignInv'
  <2>. DEFINE d == [OfOrder(data, a, b) EXCEPT !.delete = TRUE]
  <2>1. Full(d)
    BY DEF Full, OfOrder
  <2>2. XdrOrder(d, fsm) /\ screen.kind = "order"
    BY <1>49 DEF DeleteOrder
  <2>3. fsm = "none"
    BY <2>2
  <2>. HIDE DEF d
  <2>. QED
    BY <2>1, <2>2, <2>3, XdrOrderSigns
<1>50. CASE MTLTools
  BY <1>50 DEF MTLTools
<1>51. CASE MTLAPTools
  BY <1>51 DEF MTLAPTools
<1>52. CASE ToolsDelegate
  BY <1>52 DEF ToolsDelegate, OpenTool, Tool
<1>53. CASE ToolsDonate
  BY <1>53 DEF ToolsDonate, OpenTool, Tool
<1>54. CASE ToolsBIM
  BY <1>54 DEF ToolsBIM, OpenTool, Tool
<1>55. CASE ToolsDelegateA
  BY <1>55 DEF ToolsDelegateA, OpenTool, Tool
<1>56. CASE ToolsDelegateC
  BY <1>56 DEF ToolsDelegateC, OpenTool, Tool
<1>57. CASE AddDelegate
  BY <1>57 DEF AddDelegate, AskAddress, OnTool, AddressState
<1>58. CASE AddDelegateA
  BY <1>58 DEF AddDelegateA, AskAddress, OnTool, AddressState
<1>59. CASE AddDelegateC
  BY <1>59 DEF AddDelegateC, AskAddress, OnTool, AddressState
<1>60. CASE AddDonate
  BY <1>60 DEF AddDonate, AskAddress, OnTool, AddressState
<1>61. CASE AddBIM
  BY <1>61 DEF AddBIM, AskAddress, OnTool, AddressState
<1>62. CASE ToolsRecommend
  BY <1>62 DEF ToolsRecommend
<1>63. CASE DelDelegate
  BY <1>63 DEF DelDelegate, DeleteEntry, OnTool, ConfirmEntry, Confirm, DeleteData
<1>64. CASE DelDelegateA
  BY <1>64 DEF DelDelegateA, DeleteEntry, OnTool, ConfirmEntry, Confirm, DeleteData
<1>65. CASE DelDelegateC
  BY <1>65 DEF DelDelegateC, DeleteEntry, OnTool, ConfirmEntry, Confirm, DeleteData
<1>66. CASE DeleteDonate
  BY <1>66 DEF DeleteDonate, DeleteEntry, OnTool, ConfirmEntry, Confirm, DeleteData
<1>67. CASE DeleteBIM
  BY <1>67 DEF DeleteBIM, DeleteEntry, OnTool, ConfirmEntry, Confirm, DeleteData
<1>68. CASE DonateName
  BY <1>68 DEF DonateName
<1>69. CASE DonatePercent
  <2>. DEFINE d == data
              deed == SetData("mtl_donate", data.address)
  <2>1. Full(d)
    BY DEF Full
  <2>2. CASE Confirm("confirm", fsm, deed, d)
    <3>1. deed # Nothing
      BY DEF SetData
    <3>4. fsm = "donate_persent"
      BY <1>69 DEF DonatePercent
    <3>. HIDE DEF d, deed, SignInv
    <3>. QED
      BY <2>1, <2>2, <3>1, <3>4, ConfirmSigns
  <2>3. CASE Tell("donate_address", Nothing)
    BY <1>69, <2>3 DEF DonatePercent
  <2>. QED
    BY <1>69, <2>2, <2>3 DEF DonatePercent, ConfirmEntry
<1>70. CASE BIMName
  <2>. DEFINE d == data
              deed == SetData("bod", data.address)
  <2>1. Full(d)
    BY DEF Full
  <2>2. CASE Confirm("confirm", fsm, deed, d)
    <3>1. deed # Nothing
      BY DEF SetData
    <3>4. fsm = "bim_name"
      BY <1>70 DEF BIMName
    <3>. HIDE DEF d, deed, SignInv
    <3>. QED
      BY <2>1, <2>2, <3>1, <3>4, ConfirmSigns
  <2>3. CASE Tell("bim_name", Nothing)
    BY <1>70, <2>3 DEF BIMName
  <2>. QED
    BY <1>70, <2>2, <2>3 DEF BIMName, ConfirmEntry
<1>71. CASE Donate
  BY <1>71 DEF Donate, AskDonation
<1>72. CASE CmdDonate
  BY <1>72 DEF CmdDonate, AskDonation
<1>73. CASE DonateSum
  <2>. DEFINE deed == Deed("donate", None, None, None, {})
  <2>1. CASE /\ data' = [data EXCEPT !.xdr = deed, !.after = After("donate")]
             /\ Show("donate_confirm", deed) /\ UNCHANGED <<fsm, given, chosen, mixed>>
    <3>. HIDE DEF Deed, Nothing
    <3>1. /\ data'.xdr = deed /\ data'.pending = data.pending
          /\ screen'.kind = "donate_confirm" /\ screen'.deed = deed
          /\ fsm' = fsm /\ mixed' = mixed
      BY <2>1
    <3>2. fsm = "send_donate_sum"
      BY <1>73 DEF DonateSum
    <3>. HIDE DEF deed
    <3>. QED
      BY <3>1, <3>2
  <2>2. CASE Tell("send_donate_sum", Nothing) \/ Tell("info", Nothing)
    BY <1>73, <2>2 DEF DonateSum
  <2>. QED
    BY <1>73, <2>1, <2>2 DEF DonateSum
<1>74. CASE DonateButton
  BY <1>74 DEF DonateButton
<1>75. ASSUME NEW x \in Addresses, DelegateFor(x) PROVE SignInv'
  <2>. DEFINE d == data
              deed == SetData("mtl_delegate", x)
  <2>1. Full(d)
    BY DEF Full
  <2>2. CASE Confirm("confirm", fsm, deed, d)
    <3>1. deed # Nothing
      BY DEF SetData
    <3>4. fsm = "delegate_for"
      BY <1>75 DEF DelegateFor, SetEntry, AddressState
    <3>. HIDE DEF d, deed, SignInv
    <3>. QED
      BY <2>1, <2>2, <3>1, <3>4, ConfirmSigns
  <2>3. CASE Tell("delegate_for", Nothing)
    BY <1>75, <2>3 DEF DelegateFor, SetEntry, AddressState
  <2>. QED
    BY <1>75, <2>2, <2>3 DEF DelegateFor, SetEntry, AddressState, ConfirmEntry
<1>76. ASSUME NEW x \in Addresses, DelegateForA(x) PROVE SignInv'
  <2>. DEFINE d == data
              deed == SetData("mtla_a_delegate", x)
  <2>1. Full(d)
    BY DEF Full
  <2>2. CASE Confirm("confirm", fsm, deed, d)
    <3>1. deed # Nothing
      BY DEF SetData
    <3>4. fsm = "delegate_for_a"
      BY <1>76 DEF DelegateForA, SetEntry, AddressState
    <3>. HIDE DEF d, deed, SignInv
    <3>. QED
      BY <2>1, <2>2, <3>1, <3>4, ConfirmSigns
  <2>3. CASE Tell("delegate_for_a", Nothing)
    BY <1>76, <2>3 DEF DelegateForA, SetEntry, AddressState
  <2>. QED
    BY <1>76, <2>2, <2>3 DEF DelegateForA, SetEntry, AddressState, ConfirmEntry
<1>77. ASSUME NEW x \in Addresses, DelegateForC(x) PROVE SignInv'
  <2>. DEFINE d == data
              deed == SetData("mtla_c_delegate", x)
  <2>1. Full(d)
    BY DEF Full
  <2>2. CASE Confirm("confirm", fsm, deed, d)
    <3>1. deed # Nothing
      BY DEF SetData
    <3>4. fsm = "delegate_for_c"
      BY <1>77 DEF DelegateForC, SetEntry, AddressState
    <3>. HIDE DEF d, deed, SignInv
    <3>. QED
      BY <2>1, <2>2, <3>1, <3>4, ConfirmSigns
  <2>3. CASE Tell("delegate_for_c", Nothing)
    BY <1>77, <2>3 DEF DelegateForC, SetEntry, AddressState
  <2>. QED
    BY <1>77, <2>2, <2>3 DEF DelegateForC, SetEntry, AddressState, ConfirmEntry
<1>78. ASSUME NEW x \in Addresses, RecommendFor(x) PROVE SignInv'
  <2>. DEFINE d == data
              deed == SetData("recommend", x)
  <2>1. Full(d)
    BY DEF Full
  <2>2. CASE Confirm("confirm", fsm, deed, d)
    <3>1. deed # Nothing
      BY DEF SetData
    <3>4. fsm = "recommend_for"
      BY <1>78 DEF RecommendFor, SetEntry, AddressState
    <3>. HIDE DEF d, deed, SignInv
    <3>. QED
      BY <2>1, <2>2, <3>1, <3>4, ConfirmSigns
  <2>3. CASE Tell("recommend_for", Nothing) \/ Tell("info", Nothing)
    BY <1>78, <2>3 DEF RecommendFor, SetEntry, AddressState
  <2>. QED
    BY <1>78, <2>2, <2>3 DEF RecommendFor, SetEntry, AddressState, ConfirmEntry
<1>79. ASSUME NEW x \in Addresses, DonateAddress(x) PROVE SignInv'
  BY <1>79 DEF DonateAddress, KeepAddress, AddressState
<1>80. ASSUME NEW x \in Addresses, BIMAddress(x) PROVE SignInv'
  BY <1>80 DEF BIMAddress, KeepAddress, AddressState
<1>81. CASE WalletSetting
  BY <1>81 DEF WalletSetting
<1>82. CASE ManageAssets
  BY <1>82 DEF ManageAssets
<1>83. CASE AssetVisibility
  BY <1>83 DEF AssetVisibility, VisibilityList
<1>84. CASE SetVisibility
  BY <1>84 DEF SetVisibility, VisibilityList
<1>85. CASE DeleteAsset
  BY <1>85 DEF DeleteAsset
<1>86. CASE AddAsset
  BY <1>86 DEF AddAsset
<1>87. CASE AddAssetExpert
  BY <1>87 DEF AddAssetExpert
<1>88. CASE RemovePassword
  BY <1>88 DEF RemovePassword, AskPinFor, AskPin, PinPrompt
<1>89. CASE GetPrivateKey
  BY <1>89 DEF GetPrivateKey, AskPinFor, AskPin, PinPrompt
<1>90. CASE BuyAddress
  <2>. DEFINE d == [data EXCEPT !.after = "buy"]
              deed == Deed("buy", None, None, None, {})
  <2>1. Full(d)
    BY DEF Full
  <2>2. CASE Confirm("confirm", fsm, deed, d)
    <3>1. deed # Nothing
      OBVIOUS
    <3>4. fsm = "none"
      BY <1>90 DEF BuyAddress
    <3>. HIDE DEF d, deed, SignInv
    <3>. QED
      BY <2>1, <2>2, <3>1, <3>4, ConfirmSigns
  <2>3. CASE data' = d /\ UNCHANGED <<fsm, screen>>
    BY <1>90, <2>3 DEF BuyAddress, ConfirmOr
  <2>. QED
    BY <1>90, <2>2, <2>3 DEF BuyAddress, ConfirmOr
<1>91. CASE AddressBook
  BY <1>91 DEF AddressBook
<1>92. CASE AddressBookText
  BY <1>92 DEF AddressBookText
<1>93. CASE DataManagement
  BY <1>93 DEF DataManagement
<1>94. CASE SetDefault
  BY <1>94 DEF SetDefault
<1>95. CASE DefaultAddress
  BY <1>95 DEF DefaultAddress
<1>96. CASE SetLimit
  BY <1>96 DEF SetLimit
<1>97. CASE Assets_
  BY <1>97 DEF Assets_
<1>98. CASE AssetRequests
  BY <1>98 DEF AssetRequests, AskPinForAsset, Request, AskPin, PinPrompt
<1>99. CASE InOut
  BY <1>99 DEF InOut
<1>100. CASE USDT
  BY <1>100 DEF USDT
<1>101. CASE BTC
  BY <1>101 DEF BTC
<1>102. CASE USDTOut
  BY <1>102 DEF USDTOut
<1>103. CASE USDTSum
  <2>. DEFINE d == data
              deed == Deed(data.after, None, None, data.usdt, {})
  <2>1. Full(d)
    BY DEF Full
  <2>2. CASE Confirm("confirm", "none", deed, d)
    <3>1. ~mixed' => data.after = "usdt"
      BY <1>103 DEF USDTSum
    <3>3. ~mixed' => deed # Nothing
      BY <3>1
    <3>. HIDE DEF d, deed, SignInv
    <3>. QED
      BY <2>1, <2>2, <3>1, <3>3, ConfirmSigns
  <2>3. CASE \/ data' = data /\ fsm' = "none" /\ screen' = Info
             \/ Show("sending_usdt_sum", Nothing) /\ UNCHANGED <<fsm, data>>
    BY <1>103, <2>3 DEF USDTSum
  <2>. QED
    BY <1>103, <2>2, <2>3 DEF USDTSum
<1>104. CASE BTCIn
  BY <1>104 DEF BTCIn
<1>105. CASE BTCSum
  BY <1>105 DEF BTCSum
<1>106. CASE Stars
  BY <1>106 DEF Stars
<1>107. CASE StarsSum
  BY <1>107 DEF StarsSum
<1>108. ASSUME NEW a \in Assets, DelAsset(a) PROVE SignInv'
  <2>. DEFINE d == [data EXCEPT !.send = a, !.issuer = None]
              deed == Trust(d, {"delete"})
  <2>1. Full(d)
    BY DEF Full
  <2>2. CASE Confirm("confirm", fsm, deed, d)
    <3>1. deed # Nothing
      BY DEF Trust
    <3>4. fsm = "none"
      BY <1>108 DEF DelAsset
    <3>. HIDE DEF d, deed, SignInv
    <3>. QED
      BY <2>1, <2>2, <3>1, <3>4, ConfirmSigns
  <2>3. CASE \/ data' = d /\ UNCHANGED <<fsm, screen>>
             \/ data' = d /\ screen' = Info /\ UNCHANGED fsm
    BY <1>108, <2>3 DEF DelAsset, ConfirmOr
  <2>. QED
    BY <1>108, <2>2, <2>3 DEF DelAsset, ConfirmOr
<1>109. ASSUME NEW a \in Assets, CqAddAsset(a) PROVE SignInv'
  BY <1>109 DEF CqAddAsset, AddAssetEnd, Confirm, Trust
<1>110. ASSUME NEW a \in Assets, SendingCode(a) PROVE SignInv'
  BY <1>110 DEF SendingCode
<1>111. ASSUME NEW a \in Assets, StartAsset(a) PROVE SignInv'
  <2>. DEFINE d == [NoData EXCEPT !.send = a]
              deed == Trust(d, {})
  <2>1. Full(d)
    BY DEF Full
  <2>2. CASE Confirm("confirm", "none", deed, d)
    <3>1. deed # Nothing
      BY DEF Trust
    <3>. HIDE DEF d, deed, SignInv
    <3>. QED
      BY <2>1, <2>2, <3>1, ConfirmSigns
  <2>3. CASE data' = NoData /\ screen' = Info /\ fsm' = "none"
    BY <1>111, <2>3 DEF StartAsset
  <2>. QED
    BY <1>111, <2>2, <2>3 DEF StartAsset, AddAssetEnd
<1>112. ASSUME NEW a \in Assets, AssetView(a) PROVE SignInv'
  BY <1>112 DEF AssetView
<1>113. ASSUME NEW x \in Addresses, SendingIssuer(x) PROVE SignInv'
  BY <1>113 DEF SendingIssuer, AddAssetEnd, Confirm, Trust
<1>114. ASSUME NEW x \in Addresses, USDTAddress(x) PROVE SignInv'
  <2>1. CASE /\ data' = [data EXCEPT !.usdt = x, !.after = "usdt"]
             /\ Show("sending_usdt_sum", Nothing) /\ fsm' = "sending_usdt_sum"
    <3>1. /\ data'.after = "usdt" /\ screen'.kind = "sending_usdt_sum"
          /\ fsm' = "sending_usdt_sum"
      BY <2>1
    <3>. QED
      BY <3>1
  <2>2. CASE Show("sending_usdt_address", Nothing) /\ UNCHANGED <<fsm, data>>
    BY <1>114, <2>2 DEF USDTAddress
  <2>. QED
    BY <1>114, <2>1, <2>2 DEF USDTAddress
<1>115. ASSUME NEW x \in Addresses, ManageData(x) PROVE SignInv'
  <2>. DEFINE d == data
              deed == Deed("remote", None, None, x, {})
  <2>1. Full(d)
    BY DEF Full
  <2>2. CASE Confirm("confirm", fsm, deed, d)
    <3>1. deed # Nothing
      OBVIOUS
    <3>4. fsm = "none"
      BY <1>115 DEF ManageData
    <3>. HIDE DEF d, deed, SignInv
    <3>. QED
      BY <2>1, <2>2, <3>1, <3>4, ConfirmSigns
  <2>3. CASE data' = d /\ UNCHANGED <<fsm, screen>>
    BY <1>115, <2>3 DEF ManageData, ConfirmOr
  <2>. QED
    BY <1>115, <2>2, <2>3 DEF ManageData, ConfirmOr
<1>116. ASSUME NEW way \in {"deposit", "withdraw"}, AssetTransfer(way) PROVE SignInv'
  BY <1>116 DEF AssetTransfer, AskPinForAsset, Request, AskPin, PinPrompt
<1>117. CASE UNCHANGED vars
  BY <1>117 DEF vars
<1>118. CASE SendNext
  BY <1>6, <1>7, <1>8, <1>9, <1>10, <1>11, <1>12, <1>13, <1>14, <1>15, <1>16, <1>17, <1>18,
     <1>19, <1>20, <1>118 DEF SendNext
<1>119. CASE SwapNext
  BY <1>21, <1>22, <1>23, <1>24, <1>25, <1>26, <1>27, <1>28, <1>29, <1>30, <1>31, <1>32, <1>33,
     <1>34, <1>119 DEF SwapNext
<1>120. CASE TradeNext
  BY <1>35, <1>36, <1>37, <1>38, <1>39, <1>40, <1>41, <1>42, <1>43, <1>44, <1>45, <1>46, <1>47,
     <1>48, <1>49, <1>120 DEF TradeNext
<1>121. CASE ToolsNext
  BY <1>50, <1>51, <1>52, <1>53, <1>54, <1>55, <1>56, <1>57, <1>58, <1>59, <1>60, <1>61, <1>62,
     <1>63, <1>64, <1>65, <1>66, <1>67, <1>68, <1>69, <1>70, <1>71, <1>72, <1>73, <1>74, <1>75,
     <1>76, <1>77, <1>78, <1>79, <1>80, <1>121 DEF ToolsNext
<1>122. CASE WalletNext
  BY <1>81, <1>82, <1>83, <1>84, <1>85, <1>86, <1>87, <1>88, <1>89, <1>90, <1>91, <1>92, <1>93,
     <1>94, <1>95, <1>96, <1>97, <1>98, <1>99, <1>100, <1>101, <1>102, <1>103, <1>104, <1>105,
     <1>106, <1>107, <1>108, <1>109, <1>110, <1>111, <1>112, <1>113, <1>114, <1>115, <1>116,
     <1>122 DEF WalletNext
<1>. QED
  BY <1>1, <1>2, <1>3, <1>4, <1>5, <1>117, <1>118, <1>119, <1>120, <1>121, <1>122 DEF Next

-----------------------------------------------------------------------------
\* The messages and the states of an order.
TradeStates == {"selling_sum", "selling_receive_sum", "editing_amount", "editing_price"}

InTrade ==
  \/ screen.kind \in {"menu", "market", "sell", "buy", "orders", "order"}
  \/ fsm \in TradeStates

\* The data name the order that the user chose, and so does the transaction made of them.
OrderInv == ~mixed =>
  /\ InTrade => data.offer = chosen.offer /\ data.delete = chosen.delete
  /\ screen.kind \in {"menu", "market"} => data.offer = None /\ data.delete = FALSE
  /\ Confirming /\ screen.deed.op = "trade" =>
       /\ screen.kind = "confirm"
       /\ ToSign.obj = chosen.offer
       /\ "delete" \in ToSign.flags <=> chosen.delete

\* A transaction other than an order keeps OrderInv, and so does one of the chosen order.
LEMMA ConfirmOrders ==
  ASSUME NEW d, Full(d), NEW state, NEW deed, Confirm("confirm", state, deed, d),
         ~mixed' => deed # Nothing, state \notin TradeStates,
         ~mixed' /\ deed.op = "trade" =>
           deed.obj = chosen'.offer /\ ("delete" \in deed.flags <=> chosen'.delete)
  PROVE  OrderInv'
<1>1. /\ fsm' = state /\ screen'.kind = "confirm" /\ screen'.deed = deed
      /\ data'.pending = deed
  BY ConfirmDoes
<1>2. ~mixed' => ToSign' = deed
  BY <1>1 DEF ToSign
<1>. QED
  BY <1>1, <1>2 DEF OrderInv, InTrade, TradeStates

LEMMA XdrOrderOrders ==
  ASSUME NEW d, Full(d), NEW state, XdrOrder(d, state), state \notin TradeStates,
         ~mixed' => d.offer = chosen'.offer /\ d.delete = chosen'.delete
  PROVE  OrderInv'
<1>1. CASE Confirm("confirm", state, OrderDeed(d), [d EXCEPT !.msg = Nothing])
  <2>. DEFINE e == [d EXCEPT !.msg = Nothing]
  <2>1. Full(e)
    BY DEF Full
  <2>2. /\ OrderDeed(d).obj = d.offer /\ OrderDeed(d) # Nothing
        /\ OrderDeed(d).flags = IF d.delete THEN {"delete"} ELSE {}
    BY DEF OrderDeed, Deed, Nothing
  <2>3. "delete" \in OrderDeed(d).flags <=> d.delete
    BY <2>2
  <2>4. Confirm("confirm", state, OrderDeed(d), e)
    BY <1>1
  <2>. HIDE DEF e
  <2>. QED
    BY <2>1, <2>2, <2>3, <2>4, ConfirmOrders
<1>2. CASE screen' = Info /\ fsm' = state
  BY <1>2 DEF OrderInv, InTrade, TradeStates, Info, Screen, Confirming, Confirms
<1>. QED
  BY <1>1, <1>2 DEF XdrOrder

LEMMA Send04Orders ==
  ASSUME NEW d, Full(d), NEW state, Send04(d, state), state \notin TradeStates
  PROVE  OrderInv'
<1>1. \/ fsm' = "confirming" /\ screen'.kind = "send_confirm" /\ screen'.deed.op = "pay"
      \/ fsm' = state /\ screen'.kind = "send_error"
  BY Send04Does, PaymentIs DEF Screen
<1>. QED
  BY <1>1 DEF OrderInv, InTrade, TradeStates, Confirming, Confirms

\* Every step keeps OrderInv.
LEMMA OrderStep == ShapeInv /\ QuestionInv /\ RecipientInv /\ PayInv /\ SignInv /\ OrderInv /\ [Next]_vars => OrderInv'
<1>. SUFFICES ASSUME ShapeInv, QuestionInv, RecipientInv, PayInv, SignInv, OrderInv, [Next]_vars
             PROVE  OrderInv'
  OBVIOUS
<1>. USE DEF OrderInv, InTrade, TradeStates, Confirming, Confirms, ToSign, BackButton,
     QuestionInv, Lists, TextStates, PinStates, Deed, Nothing, ShapeInv, Keys, Clear, NoData,
     Tell, Show, Screen, Ask, NewHistory, NoChoice, Pressed, Menu, Info, ShowKept
<1>1. CASE Return
  BY <1>1 DEF Return
<1>2. CASE About
  BY <1>2 DEF About
<1>3. CASE Yes
  BY <1>3 DEF Yes, Request, AskPin, After, PinPrompt
<1>4. CASE Sign
  BY <1>4 DEF Sign
<1>5. CASE DeleteReturn
  BY <1>5 DEF DeleteReturn, Return
<1>6. CASE Send
  BY <1>6 DEF Send, SendStart
<1>7. CASE SendCancelOffers
  BY <1>7 DEF SendCancelOffers
<1>8. CASE SendSum
  BY <1>8 DEF SendSum, Send04, Payment, Confirm
<1>9. CASE Memo
  BY <1>9 DEF Memo
<1>10. CASE SendMemo
  BY <1>10 DEF SendMemo, Send04, Payment, Confirm
<1>11. CASE Send15
  BY <1>11 DEF Send15, CreateAccount
<1>12. CASE SendBackToAddress
  BY <1>12 DEF SendBackToAddress, Back
<1>13. CASE SendBackToToken
  BY <1>13 DEF SendBackToToken, Back, ChooseToken
<1>14. CASE SendBackToAmount
  BY <1>14 DEF SendBackToAmount, Back, ForgetSignature
<1>15. CASE SendBackToConfirmation
  BY <1>15 DEF SendBackToConfirmation, Back, Send04, Payment, Confirm
<1>16. ASSUME NEW x \in Addresses, SendFor(x) PROVE OrderInv'
  BY <1>16 DEF SendFor, SendForIn, Recipient, ChooseToken, CreateAccount
<1>17. ASSUME NEW x \in Addresses, Photo(x) PROVE OrderInv'
  <2>1. CASE SendForIn([data EXCEPT !.qr = x], x)
    <3>. DEFINE d == [data EXCEPT !.qr = x]
    <3>1. Full(d)
      BY DEF Full
    <3>. HIDE DEF d
    <3>2. \/ fsm' = "choosing_token" /\ screen'.kind = "send_token"
          \/ fsm' = "none" /\ screen'.kind = "activate" /\ screen'.deed.op = "activate"
          \/ fsm' = "none" /\ screen'.kind = "info"
          \/ fsm' = fsm /\ screen'.kind = "sending_for"
      BY <2>1, <3>1, SendForInDoes DEF d
    <3>3. fsm \notin TradeStates
      BY <1>17 DEF Photo, BeforeSend, TradeStates
    <3>. QED
      BY <3>2, <3>3 DEF TradeStates
  <2>2. ASSUME NEW a \in Assets, NEW memo \in {None, x}, SendNow(data, fsm, a, x, memo)
        PROVE  OrderInv'
    <3>. DEFINE d == [data EXCEPT !.send = a, !.to = x, !.memo = memo]
    <3>1. Full(d)
      BY DEF Full
    <3>2. Send04(d, fsm)
      BY <2>2 DEF SendNow
    <3>. HIDE DEF d
    <3>3. fsm \notin TradeStates
      BY <1>17 DEF Photo, BeforeSend, TradeStates
    <3>. QED
      BY <3>1, <3>2, <3>3, Send04Orders
  <2>. QED
    BY <1>17, <2>1, <2>2 DEF Photo
<1>18. ASSUME NEW x \in Addresses, AddressText(x) PROVE OrderInv'
  BY <1>18 DEF AddressText, ChooseToken
<1>19. ASSUME NEW a \in Assets, NEW x \in Addresses, Eurmtl(a, x) PROVE OrderInv'
  <2>1. ASSUME NEW memo \in {None, x},
               SendNow([NoData EXCEPT !.federal = memo # None], "none", a, x, memo)
        PROVE  OrderInv'
    <3>. DEFINE d == Asked(a, x, memo)
    <3>1. Full(d)
      BY AskedIs
    <3>2. Send04(d, "none")
      BY <2>1 DEF SendNow, Asked
    <3>. HIDE DEF d
    <3>. QED
      BY <3>1, <3>2, Send04Orders DEF TradeStates
  <2>2. CASE data' = NoData /\ fsm' = "none" /\ screen' = Info
    BY <2>2 DEF TradeStates
  <2>. QED
    BY <1>19, <2>1, <2>2 DEF Eurmtl
<1>20. ASSUME NEW a \in Assets, SendToken(a) PROVE OrderInv'
  BY <1>20 DEF SendToken
<1>21. CASE SwapStart
  BY <1>21 DEF SwapStart
<1>22. CASE SwapSlippage
  BY <1>22 DEF SwapSlippage
<1>23. CASE SwapCancelOffers
  BY <1>23 DEF SwapCancelOffers
<1>24. CASE SwapStrictReceive
  BY <1>24 DEF SwapStrictReceive, ReceivePrompt
<1>25. CASE SwapSum
  BY <1>25 DEF SwapSum, Confirm, Swap
<1>26. CASE SwapReceiveSum
  BY <1>26 DEF SwapReceiveSum, Confirm, Swap, ReceivePrompt
<1>27. CASE SwapBackToSource
  BY <1>27 DEF SwapBackToSource, SwapBack
<1>28. CASE SwapBackToDestination
  BY <1>28 DEF SwapBackToDestination, SwapBack, SwapFromPrompt
<1>29. CASE SwapBackFromReceive
  BY <1>29 DEF SwapBackFromReceive, SwapBack, SumPrompt
<1>30. CASE SwapBackFromSendConfirmation
  BY <1>30 DEF SwapBackFromSendConfirmation, SwapBack, SumPrompt, ForgetSignature
<1>31. CASE SwapBackFromReceiveConfirmation
  BY <1>31 DEF SwapBackFromReceiveConfirmation, SwapBack, ReceivePrompt, ForgetSignature
<1>32. ASSUME NEW a \in Assets, SwapFrom(a) PROVE OrderInv'
  BY <1>32 DEF SwapFrom, SwapFromPrompt
<1>33. ASSUME NEW a \in Assets, SwapFor(a) PROVE OrderInv'
  BY <1>33 DEF SwapFor
<1>34. ASSUME NEW a \in Assets, NEW b \in Assets, SwapText(a, b) PROVE OrderInv'
  <2>. DEFINE d == Pair(a, b)
  <2>1. Full(d)
    BY PairIs
  <2>2. ASSUME NEW strict \in BOOLEAN, Confirm("confirm", "none", Swap(d, strict), d)
        PROVE  OrderInv'
    <3>. DEFINE deed == Swap(d, strict)
    <3>1. deed # Nothing /\ deed.op = "swap"
      BY DEF Swap
    <3>2. Confirm("confirm", "none", deed, d)
      BY <2>2
    <3>. HIDE DEF d, deed, OrderInv
    <3>. QED
      BY <2>1, <2>2, <3>1, <3>2, ConfirmOrders DEF TradeStates
  <2>3. CASE data' = NoData /\ screen' = Info /\ fsm' = "none"
    BY <1>34, <2>3 DEF SwapText
  <2>. QED
    BY <1>34, <2>2, <2>3 DEF SwapText, Pair
<1>35. CASE Market
  BY <1>35 DEF Market
<1>36. CASE NewOrder
  BY <1>36 DEF NewOrder
<1>37. CASE ShowOrders
  BY <1>37 DEF ShowOrders
<1>38. CASE SaleSum
  BY <1>38 DEF SaleSum
<1>39. CASE SaleCost
  <2>1. CASE XdrOrder([data EXCEPT !.msg = Nothing], "none")
    <3>. DEFINE d == [data EXCEPT !.msg = Nothing]
    <3>1. Full(d) /\ d.offer = data.offer /\ d.delete = data.delete
      BY DEF Full
    <3>2. XdrOrder(d, "none")
      BY <2>1
    <3>. HIDE DEF d
    <3>3. fsm = "selling_receive_sum" /\ chosen' = chosen /\ mixed' = mixed
      BY <1>39 DEF SaleCost
    <3>4. ~mixed' => data.offer = chosen'.offer /\ data.delete = chosen'.delete
      BY <3>3 DEF TradeStates
    <3>. QED
      BY <3>1, <3>2, <3>4, XdrOrderOrders DEF TradeStates
  <2>2. CASE Show("selling_receive_sum", data.msg) /\ UNCHANGED <<fsm, data>>
    BY <1>39, <2>2 DEF SaleCost, TradeStates
  <2>. QED
    BY <1>39, <2>1, <2>2 DEF SaleCost
<1>40. CASE EditSaleSum
  <2>1. CASE XdrOrder([data EXCEPT !.msg = Nothing], "none")
    <3>. DEFINE d == [data EXCEPT !.msg = Nothing]
    <3>1. Full(d) /\ d.offer = data.offer /\ d.delete = data.delete
      BY DEF Full
    <3>2. XdrOrder(d, "none")
      BY <2>1
    <3>. HIDE DEF d
    <3>3. fsm = "editing_amount" /\ chosen' = chosen /\ mixed' = mixed
      BY <1>40 DEF EditSaleSum
    <3>4. ~mixed' => data.offer = chosen'.offer /\ data.delete = chosen'.delete
      BY <3>3 DEF TradeStates
    <3>. QED
      BY <3>1, <3>2, <3>4, XdrOrderOrders DEF TradeStates
  <2>2. CASE Show("editing_amount", data.msg) /\ UNCHANGED <<fsm, data>>
    BY <1>40, <2>2 DEF EditSaleSum, TradeStates
  <2>. QED
    BY <1>40, <2>1, <2>2 DEF EditSaleSum
<1>41. CASE EditSaleCost
  <2>1. CASE XdrOrder([data EXCEPT !.msg = Nothing], "none")
    <3>. DEFINE d == [data EXCEPT !.msg = Nothing]
    <3>1. Full(d) /\ d.offer = data.offer /\ d.delete = data.delete
      BY DEF Full
    <3>2. XdrOrder(d, "none")
      BY <2>1
    <3>. HIDE DEF d
    <3>3. fsm = "editing_price" /\ chosen' = chosen /\ mixed' = mixed
      BY <1>41 DEF EditSaleCost
    <3>4. ~mixed' => data.offer = chosen'.offer /\ data.delete = chosen'.delete
      BY <3>3 DEF TradeStates
    <3>. QED
      BY <3>1, <3>2, <3>4, XdrOrderOrders DEF TradeStates
  <2>2. CASE Show("editing_price", data.msg) /\ UNCHANGED <<fsm, data>>
    BY <1>41, <2>2 DEF EditSaleCost, TradeStates
  <2>. QED
    BY <1>41, <2>1, <2>2 DEF EditSaleCost
<1>42. ASSUME NEW o \in Orders, EditOrder(o) PROVE OrderInv'
  BY <1>42 DEF EditOrder
<1>43. ASSUME NEW o \in Orders, TradeCancel(o) PROVE OrderInv'
  <2>1. ASSUME NEW a \in Assets, NEW b \in Assets
        PROVE  Confirm("confirm", "none", Ending(a, b, o), Ended(a, b))
                 => OrderInv'
    <3>. DEFINE d == Ended(a, b)
                deed == Ending(a, b, o)
    <3>1. Full(d)
      BY EndedIs
    <3>3. deed # Nothing /\ deed.obj = o /\ deed.flags = {"delete"}
      BY EndingDeed
    <3>4. chosen'.offer = o /\ chosen'.delete = TRUE
      BY <1>43 DEF TradeCancel
    <3>. HIDE DEF d, deed
    <3>. SUFFICES ASSUME Confirm("confirm", "none", deed, d) PROVE OrderInv'
      BY DEF d, deed
    <3>. QED
      BY <3>1, <3>3, <3>4, ConfirmOrders DEF TradeStates
  <2>2. CASE data' = NoData /\ screen' = Info /\ fsm' = "none"
    BY <2>2
  <2>. QED
    BY <1>43, <2>1, <2>2 DEF TradeCancel, Ended, Ending
<1>44. ASSUME NEW a \in Assets, TradeSell(a) PROVE OrderInv'
  BY <1>44 DEF TradeSell
<1>45. ASSUME NEW a \in Assets, TradeBuy(a) PROVE OrderInv'
  BY <1>45 DEF TradeBuy
<1>46. ASSUME NEW a \in Assets, NEW b \in Assets, TradeText(a, b) PROVE OrderInv'
  <2>. DEFINE d == Pair(a, b)
              deed == OrderDeed(d)
  <2>1. Full(d)
    BY PairIs
  <2>2. CASE Confirm("confirm", "none", deed, d)
    <3>1. deed # Nothing /\ deed.obj = None /\ deed.flags = {}
      BY PairDeed
    <3>3. chosen'.offer = None /\ chosen'.delete = FALSE
      BY <1>46 DEF TradeText
    <3>. HIDE DEF d, deed, OrderInv
    <3>. QED
      BY <2>1, <2>2, <3>1, <3>3, ConfirmOrders DEF TradeStates
  <2>3. CASE data' = NoData /\ screen' = Info /\ fsm' = "none"
    BY <1>46, <2>3 DEF TradeText
  <2>. QED
    BY <1>46, <2>2, <2>3 DEF TradeText, Pair
<1>47. ASSUME NEW a \in Assets, NEW b \in Assets, EditOrderAmount(a, b) PROVE OrderInv'
  BY <1>47 DEF EditOrderAmount, Edit, OfOrder
<1>48. ASSUME NEW a \in Assets, NEW b \in Assets, EditOrderPrice(a, b) PROVE OrderInv'
  BY <1>48 DEF EditOrderPrice, Edit, OfOrder
<1>49. ASSUME NEW a \in Assets, NEW b \in Assets, DeleteOrder(a, b) PROVE OrderInv'
  <2>. DEFINE d == [OfOrder(data, a, b) EXCEPT !.delete = TRUE]
  <2>1. Full(d) /\ d.offer = data.offer /\ d.delete = TRUE
    BY DEF Full, OfOrder
  <2>2. /\ XdrOrder(d, fsm) /\ screen.kind = "order" /\ mixed' = mixed
        /\ chosen'.offer = chosen.offer /\ chosen'.delete = TRUE
    BY <1>49 DEF DeleteOrder
  <2>3. fsm = "none"
    BY <2>2
  <2>4. ~mixed => data.offer = chosen.offer
    BY <2>2
  <2>. HIDE DEF d
  <2>. QED
    BY <2>1, <2>2, <2>3, <2>4, XdrOrderOrders DEF TradeStates
<1>50. CASE MTLTools
  BY <1>50 DEF MTLTools
<1>51. CASE MTLAPTools
  BY <1>51 DEF MTLAPTools
<1>52. CASE ToolsDelegate
  BY <1>52 DEF ToolsDelegate, OpenTool, Tool
<1>53. CASE ToolsDonate
  BY <1>53 DEF ToolsDonate, OpenTool, Tool
<1>54. CASE ToolsBIM
  BY <1>54 DEF ToolsBIM, OpenTool, Tool
<1>55. CASE ToolsDelegateA
  BY <1>55 DEF ToolsDelegateA, OpenTool, Tool
<1>56. CASE ToolsDelegateC
  BY <1>56 DEF ToolsDelegateC, OpenTool, Tool
<1>57. CASE AddDelegate
  BY <1>57 DEF AddDelegate, AskAddress, OnTool, AddressState
<1>58. CASE AddDelegateA
  BY <1>58 DEF AddDelegateA, AskAddress, OnTool, AddressState
<1>59. CASE AddDelegateC
  BY <1>59 DEF AddDelegateC, AskAddress, OnTool, AddressState
<1>60. CASE AddDonate
  BY <1>60 DEF AddDonate, AskAddress, OnTool, AddressState
<1>61. CASE AddBIM
  BY <1>61 DEF AddBIM, AskAddress, OnTool, AddressState
<1>62. CASE ToolsRecommend
  BY <1>62 DEF ToolsRecommend
<1>63. CASE DelDelegate
  BY <1>63 DEF DelDelegate, DeleteEntry, OnTool, ConfirmEntry, Confirm, DeleteData
<1>64. CASE DelDelegateA
  BY <1>64 DEF DelDelegateA, DeleteEntry, OnTool, ConfirmEntry, Confirm, DeleteData
<1>65. CASE DelDelegateC
  BY <1>65 DEF DelDelegateC, DeleteEntry, OnTool, ConfirmEntry, Confirm, DeleteData
<1>66. CASE DeleteDonate
  BY <1>66 DEF DeleteDonate, DeleteEntry, OnTool, ConfirmEntry, Confirm, DeleteData
<1>67. CASE DeleteBIM
  BY <1>67 DEF DeleteBIM, DeleteEntry, OnTool, ConfirmEntry, Confirm, DeleteData
<1>68. CASE DonateName
  BY <1>68 DEF DonateName
<1>69. CASE DonatePercent
  BY <1>69 DEF DonatePercent, ConfirmEntry, Confirm, SetData
<1>70. CASE BIMName
  BY <1>70 DEF BIMName, ConfirmEntry, Confirm, SetData
<1>71. CASE Donate
  BY <1>71 DEF Donate, AskDonation
<1>72. CASE CmdDonate
  BY <1>72 DEF CmdDonate, AskDonation
<1>73. CASE DonateSum
  BY <1>73 DEF DonateSum, After
<1>74. CASE DonateButton
  BY <1>74 DEF DonateButton
<1>75. ASSUME NEW x \in Addresses, DelegateFor(x) PROVE OrderInv'
  BY <1>75 DEF DelegateFor, SetEntry, AddressState, ConfirmEntry, Confirm, SetData
<1>76. ASSUME NEW x \in Addresses, DelegateForA(x) PROVE OrderInv'
  BY <1>76 DEF DelegateForA, SetEntry, AddressState, ConfirmEntry, Confirm, SetData
<1>77. ASSUME NEW x \in Addresses, DelegateForC(x) PROVE OrderInv'
  BY <1>77 DEF DelegateForC, SetEntry, AddressState, ConfirmEntry, Confirm, SetData
<1>78. ASSUME NEW x \in Addresses, RecommendFor(x) PROVE OrderInv'
  BY <1>78 DEF RecommendFor, SetEntry, AddressState, ConfirmEntry, Confirm, SetData
<1>79. ASSUME NEW x \in Addresses, DonateAddress(x) PROVE OrderInv'
  BY <1>79 DEF DonateAddress, KeepAddress, AddressState
<1>80. ASSUME NEW x \in Addresses, BIMAddress(x) PROVE OrderInv'
  BY <1>80 DEF BIMAddress, KeepAddress, AddressState
<1>81. CASE WalletSetting
  BY <1>81 DEF WalletSetting
<1>82. CASE ManageAssets
  BY <1>82 DEF ManageAssets
<1>83. CASE AssetVisibility
  BY <1>83 DEF AssetVisibility, VisibilityList
<1>84. CASE SetVisibility
  BY <1>84 DEF SetVisibility, VisibilityList
<1>85. CASE DeleteAsset
  BY <1>85 DEF DeleteAsset
<1>86. CASE AddAsset
  BY <1>86 DEF AddAsset
<1>87. CASE AddAssetExpert
  BY <1>87 DEF AddAssetExpert
<1>88. CASE RemovePassword
  BY <1>88 DEF RemovePassword, AskPinFor, AskPin, PinPrompt
<1>89. CASE GetPrivateKey
  BY <1>89 DEF GetPrivateKey, AskPinFor, AskPin, PinPrompt
<1>90. CASE BuyAddress
  BY <1>90 DEF BuyAddress, ConfirmOr, Confirm
<1>91. CASE AddressBook
  BY <1>91 DEF AddressBook
<1>92. CASE AddressBookText
  BY <1>92 DEF AddressBookText
<1>93. CASE DataManagement
  BY <1>93 DEF DataManagement
<1>94. CASE SetDefault
  BY <1>94 DEF SetDefault
<1>95. CASE DefaultAddress
  BY <1>95 DEF DefaultAddress
<1>96. CASE SetLimit
  BY <1>96 DEF SetLimit
<1>97. CASE Assets_
  BY <1>97 DEF Assets_
<1>98. CASE AssetRequests
  BY <1>98 DEF AssetRequests, AskPinForAsset, Request, AskPin, PinPrompt
<1>99. CASE InOut
  BY <1>99 DEF InOut
<1>100. CASE USDT
  BY <1>100 DEF USDT
<1>101. CASE BTC
  BY <1>101 DEF BTC
<1>102. CASE USDTOut
  BY <1>102 DEF USDTOut
<1>103. CASE USDTSum
  <2>. DEFINE d == data
              deed == Deed(data.after, None, None, data.usdt, {})
  <2>1. Full(d)
    BY DEF Full
  <2>2. CASE Confirm("confirm", "none", deed, d)
    <3>1. ~mixed' => data.after = "usdt"
      BY <1>103 DEF USDTSum, SignInv
    <3>3. deed.op = data.after /\ (~mixed' => deed # Nothing)
      BY <3>1
    <3>. HIDE DEF d, deed, OrderInv
    <3>. QED
      BY <2>1, <2>2, <3>1, <3>3, ConfirmOrders DEF TradeStates
  <2>3. CASE \/ data' = data /\ fsm' = "none" /\ screen' = Info
             \/ Show("sending_usdt_sum", Nothing) /\ UNCHANGED <<fsm, data>>
    BY <1>103, <2>3 DEF USDTSum
  <2>. QED
    BY <1>103, <2>2, <2>3 DEF USDTSum
<1>104. CASE BTCIn
  BY <1>104 DEF BTCIn
<1>105. CASE BTCSum
  BY <1>105 DEF BTCSum
<1>106. CASE Stars
  BY <1>106 DEF Stars
<1>107. CASE StarsSum
  BY <1>107 DEF StarsSum
<1>108. ASSUME NEW a \in Assets, DelAsset(a) PROVE OrderInv'
  BY <1>108 DEF DelAsset, ConfirmOr, Confirm, Trust
<1>109. ASSUME NEW a \in Assets, CqAddAsset(a) PROVE OrderInv'
  BY <1>109 DEF CqAddAsset, AddAssetEnd, Confirm, Trust
<1>110. ASSUME NEW a \in Assets, SendingCode(a) PROVE OrderInv'
  BY <1>110 DEF SendingCode
<1>111. ASSUME NEW a \in Assets, StartAsset(a) PROVE OrderInv'
  <2>. DEFINE d == [NoData EXCEPT !.send = a]
              deed == Trust(d, {})
  <2>1. Full(d)
    BY DEF Full
  <2>2. CASE Confirm("confirm", "none", deed, d)
    <3>1. deed # Nothing /\ deed.op = "trust"
      BY DEF Trust
    <3>. HIDE DEF d, deed, OrderInv
    <3>. QED
      BY <2>1, <2>2, <3>1, ConfirmOrders DEF TradeStates
  <2>3. CASE data' = NoData /\ screen' = Info /\ fsm' = "none"
    BY <1>111, <2>3 DEF StartAsset
  <2>. QED
    BY <1>111, <2>2, <2>3 DEF StartAsset, AddAssetEnd
<1>112. ASSUME NEW a \in Assets, AssetView(a) PROVE OrderInv'
  BY <1>112 DEF AssetView
<1>113. ASSUME NEW x \in Addresses, SendingIssuer(x) PROVE OrderInv'
  BY <1>113 DEF SendingIssuer, AddAssetEnd, Confirm, Trust
<1>114. ASSUME NEW x \in Addresses, USDTAddress(x) PROVE OrderInv'
  BY <1>114 DEF USDTAddress
<1>115. ASSUME NEW x \in Addresses, ManageData(x) PROVE OrderInv'
  BY <1>115 DEF ManageData, ConfirmOr, Confirm
<1>116. ASSUME NEW way \in {"deposit", "withdraw"}, AssetTransfer(way) PROVE OrderInv'
  BY <1>116 DEF AssetTransfer, AskPinForAsset, Request, AskPin, PinPrompt
<1>117. CASE UNCHANGED vars
  BY <1>117 DEF vars
<1>118. CASE SendNext
  BY <1>6, <1>7, <1>8, <1>9, <1>10, <1>11, <1>12, <1>13, <1>14, <1>15, <1>16, <1>17, <1>18,
     <1>19, <1>20, <1>118 DEF SendNext
<1>119. CASE SwapNext
  BY <1>21, <1>22, <1>23, <1>24, <1>25, <1>26, <1>27, <1>28, <1>29, <1>30, <1>31, <1>32, <1>33,
     <1>34, <1>119 DEF SwapNext
<1>120. CASE TradeNext
  BY <1>35, <1>36, <1>37, <1>38, <1>39, <1>40, <1>41, <1>42, <1>43, <1>44, <1>45, <1>46, <1>47,
     <1>48, <1>49, <1>120 DEF TradeNext
<1>121. CASE ToolsNext
  BY <1>50, <1>51, <1>52, <1>53, <1>54, <1>55, <1>56, <1>57, <1>58, <1>59, <1>60, <1>61, <1>62,
     <1>63, <1>64, <1>65, <1>66, <1>67, <1>68, <1>69, <1>70, <1>71, <1>72, <1>73, <1>74, <1>75,
     <1>76, <1>77, <1>78, <1>79, <1>80, <1>121 DEF ToolsNext
<1>122. CASE WalletNext
  BY <1>81, <1>82, <1>83, <1>84, <1>85, <1>86, <1>87, <1>88, <1>89, <1>90, <1>91, <1>92, <1>93,
     <1>94, <1>95, <1>96, <1>97, <1>98, <1>99, <1>100, <1>101, <1>102, <1>103, <1>104, <1>105,
     <1>106, <1>107, <1>108, <1>109, <1>110, <1>111, <1>112, <1>113, <1>114, <1>115, <1>116,
     <1>122 DEF WalletNext
<1>. QED
  BY <1>1, <1>2, <1>3, <1>4, <1>5, <1>117, <1>118, <1>119, <1>120, <1>121, <1>122 DEF Next

-----------------------------------------------------------------------------
\* All of them together are inductive.
ConversationInv ==
  ShapeInv /\ QuestionInv /\ RecipientInv /\ PayInv /\ PromptInv /\ SignInv /\ OrderInv

LEMMA ConversationInit == Init => ConversationInv
<1>. SUFFICES ASSUME Init PROVE ConversationInv
  OBVIOUS
<1>. USE DEF Init, NoData, NoChoice, Menu, Screen
<1>1. ShapeInv /\ QuestionInv /\ RecipientInv
  BY DEF ShapeInv, Keys, QuestionInv, TextStates, PinStates, Lists, RecipientInv, InSend, BackButton
<1>2. PayInv /\ PromptInv
  BY DEF PayInv, InSend, BackButton, PromptInv, AmountStates, KeepMsg, MayKeepMsg, MayKeepBack
<1>3. SignInv /\ OrderInv
  BY DEF SignInv, Confirming, Confirms, ToSign, OrderInv, InTrade, TradeStates
<1>. QED
  BY <1>1, <1>2, <1>3 DEF ConversationInv

LEMMA ConversationStep == ConversationInv /\ [Next]_vars => ConversationInv'
<1>. HIDE DEF vars
<1>. QED
  BY ShapeStep, QuestionStep, RecipientStep, PayStep, PromptStep, SignStep, OrderStep
  DEF ConversationInv

LEMMA ConversationHolds == Spec => []ConversationInv
BY ConversationInit, ConversationStep, PTL DEF Spec

\* A text goes to the handler of the state that the last message asks for, but for a QR
\* code that could not be used and the donation tool: no other handler shows a prompt in the
\* state of another one.
THEOREM QuestionFitsHolds == Spec => []QuestionFits
<1>1. ConversationInv => QuestionFits
  BY DEF ConversationInv, QuestionInv, QuestionFits
<1>. QED
  BY <1>1, ConversationHolds, PTL

\* A payment that cmd_send_04() shows goes to the address given last, or to that of a QR
\* code; its memo and the account that was looked up belong to that address, unless a
\* photo or an address came in the middle of another conversation.
THEOREM RecipientAsGivenHolds == Spec => []RecipientAsGiven
<1>1. ConversationInv => RecipientAsGiven
  <2>. SUFFICES ASSUME ConversationInv, screen.kind = "send_confirm"
               PROVE  /\ screen.deed.obj \in {given, data.qr}
                      /\ ~mixed => /\ screen.deed.flags \subseteq {"cancel", screen.deed.obj}
                                  /\ data.stars \in {None, screen.deed.obj}
    BY DEF RecipientAsGiven
  <2>1. InSend
    BY DEF InSend, BackButton
  <2>2. screen.deed.obj = data.to /\ data.to \in {given, data.qr}
    BY <2>1 DEF ConversationInv, RecipientInv
  <2>3. ~mixed => /\ screen.deed.flags \subseteq {"cancel", screen.deed.obj}
                 /\ data.stars \in {None, data.to}
    BY <2>1 DEF ConversationInv, PayInv
  <2>. QED
    BY <2>2, <2>3
<1>. QED
  BY <1>1, ConversationHolds, PTL

\* The prompts that "Back" and a bad sum show again, msg and flow_back_amount_msg, name
\* the assets and the order that the answer is used for (without such a photo).
THEOREM PromptIsCurrentHolds == Spec => []PromptIsCurrent
<1>1. ConversationInv => PromptIsCurrent
  BY DEF ConversationInv, PromptInv, PromptIsCurrent, Fits
<1>. QED
  BY <1>1, ConversationHolds, PTL

\* cmd_yes_send() hands to the PIN what the message with "Yes" tells, or nothing (without
\* such a photo).
THEOREM ConfirmedIsSignedHolds == Spec => []ConfirmedIsSigned
<1>1. ConversationInv => ConfirmedIsSigned
  BY DEF ConversationInv, SignInv, ConfirmedIsSigned
<1>. QED
  BY <1>1, ConversationHolds, PTL

\* sign_xdr() does what the PIN was asked for: fsm_func and fsm_after_send do not outlive
\* the conversation that set them (without such a photo).
THEOREM PinDoesAsToldHolds == Spec => []PinDoesAsTold
<1>1. ConversationInv => PinDoesAsTold
  BY DEF ConversationInv, SignInv, PinDoesAsTold
<1>. QED
  BY <1>1, ConversationHolds, PTL

\* cmd_xdr_order() changes or deletes the order that the user chose, and no other:
\* edit_offer_id and delete_order do not outlive the conversation that set them
\* (without such a photo).
THEOREM OrderAsChosenHolds == Spec => []OrderAsChosen
<1>1. ConversationInv => OrderAsChosen
  BY DEF ConversationInv, OrderInv, OrderAsChosen
<1>. QED
  BY <1>1, ConversationHolds, PTL

=============================================================================
