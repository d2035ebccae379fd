------------------------- MODULE WalletConversation -------------------------
(***************************************************************************)
(* The settings of the wallet: trust lines, the private key, the password, *)
(* the purchase of a free address, the address book, and the transactions  *)
(* of the data page; the assets of anchors (SEP-10, SEP-24); and "In/Out": *)
(* USDT, sats and stars, up to the payment.                                *)
(***************************************************************************)
EXTENDS ConversationData

WalletSetting == Pressed({"menu"}) /\ Tell("settings", Nothing)

\* A confirmation, or an answer that changes nothing.
ConfirmOr(kind, deed, d) ==
  /\ Confirm(kind, fsm, deed, d) \/ (data' = d /\ UNCHANGED <<fsm, screen>>)
  /\ UNCHANGED <<given, chosen, mixed>>

-----------------------------------------------------------------------------
(* Trust lines *)

ManageAssets == Pressed({"settings"}) /\ Tell("assets", Nothing)

\* The list is shown again after each button; the visibility is a column of the wallet.
VisibilityList == Tell("visibility", Nothing)

AssetVisibility == Pressed({"assets"}) /\ VisibilityList

SetVisibility == Pressed({"visibility"}) /\ VisibilityList

\* The lists; a free wallet with too many assets, or one that has them all, gets an answer.
DeleteAsset == Pressed({"assets"}) /\ Tell("close", Nothing)

AddAsset == Pressed({"assets"}) /\ (Tell("open", Nothing) \/ Tell("info", Nothing))

Trust(d, flags) == Deed("trust", d.send, None, d.issuer, flags)

\* An asset with offers is not closed.
DelAsset(a) ==
  /\ Pressed({"close"})
  /\ LET d == [data EXCEPT !.send = a, !.issuer = None]
     IN  \/ ConfirmOr("confirm", Trust(d, {"delete"}), d)
         \/ data' = d /\ screen' = Info /\ UNCHANGED <<fsm, given, chosen, mixed>>

\* cmd_add_asset_end()
AddAssetEnd(d, state) == Confirm("confirm", state, Trust(d, {}), d)

CqAddAsset(a) ==
  /\ Pressed({"open"})
  /\ AddAssetEnd([data EXCEPT !.send = a, !.issuer = None], fsm)
  /\ UNCHANGED <<given, chosen, mixed>>

AddAssetExpert == Pressed({"assets"}) /\ (Ask("sending_code", Nothing) \/ Tell("info", Nothing))

SendingCode(a) ==
  /\ fsm = "sending_code"
  /\ data' = [data EXCEPT !.send = a]
  /\ Show("sending_issuer", Nothing) /\ fsm' = "sending_issuer"
  /\ UNCHANGED <<given, chosen, mixed>>

\* The state stays: another text is another issuer of the same code.
SendingIssuer(x) ==
  /\ fsm = "sending_issuer"
  /\ AddAssetEnd([data EXCEPT !.issuer = x], fsm)
  /\ given' = x /\ UNCHANGED <<chosen, mixed>>

\* /start asset_: the asset of a link, whose issuer is a user or is looked up.
StartAsset(a) ==
  /\ fsm \notin BeforeTools
  /\ NewHistory
  /\ \/ AddAssetEnd([NoData EXCEPT !.send = a], "none")
     \/ data' = NoData /\ screen' = Info /\ fsm' = "none"

-----------------------------------------------------------------------------
(* The PIN for what is no transaction *)

\* The function goes to the data, and the PIN is asked for.
AskPinFor(func) ==
  /\ data' = AskPin([data EXCEPT !.func = func])
  /\ fsm' = "sign" /\ Show("pin", Deed(func, None, None, None, {}))
  /\ UNCHANGED <<given, chosen, mixed>>

RemovePassword == Pressed({"settings"}) /\ AskPinFor("unset")

GetPrivateKey == Pressed({"settings"}) /\ AskPinFor("key")

\* cmd_buy_private_key(): what follows the payment is stored before the balance is read;
\* without enough money there is only a pop-up.
BuyAddress ==
  /\ Pressed({"settings"})
  /\ ConfirmOr("confirm", Deed("buy", None, None, None, {}), [data EXCEPT !.after = "buy"])

-----------------------------------------------------------------------------
(* The address book and the data page *)

AddressBook == Pressed({"settings"}) /\ Ask("sending_new", Nothing)

\* The book is shown again, with an entry more or less.
AddressBookText == fsm = "sending_new" /\ Tell("sending_new", Nothing)

DataManagement == Pressed({"settings"}) /\ Tell("data", Nothing)

\* The transaction that the page has prepared; its button is put below this message.
ManageData(t) ==
  /\ Pressed({"data"})
  /\ ConfirmOr("confirm", Deed("remote", None, None, t, {}), data)

\* The address for payments to @name, and the limit of payments: columns of the user.
SetDefault == Pressed({"settings"}) /\ Ask("send_default_address", Nothing)

DefaultAddress == fsm = "send_default_address" /\ Tell("send_default_address", Nothing)

SetLimit == Pressed({"settings", "limits"}) /\ Tell("limits", Nothing)

-----------------------------------------------------------------------------
(* The assets of anchors *)

Assets_ ==
  /\ fsm \notin BeforeTools
  /\ Clear("none")
  /\ screen' = Info \/ Show("sep_assets", Nothing)

AssetView(a) ==
  /\ Pressed({"sep_assets"})
  /\ Tell("asset", Deed("sep", a, None, None, {}))

\* The SEP-10 challenge is built after the PIN: request_signature() has no transaction.
AskPinForAsset(d, func, deed) ==
  /\ data' = [Request(d, Nothing) EXCEPT !.func = func, !.msg = PinPrompt]
  /\ fsm' = "sign" /\ Show("pin", deed)
  /\ UNCHANGED <<given, chosen, mixed>>

AssetRequests ==
  /\ Pressed({"asset"})
  /\ LET deed == Deed("requests", screen.deed.send, None, None, {})
     IN  AskPinForAsset([data EXCEPT !.requests = deed], "requests", deed)

AssetTransfer(way) ==
  /\ Pressed({"asset"})
  /\ LET deed == Deed("transfer", screen.deed.send, None, None, {way})
     IN  AskPinForAsset([data EXCEPT !.transfer = deed], "transfer", deed)

-----------------------------------------------------------------------------
(* "In/Out" *)

InOut == Pressed({"menu"}) /\ Tell("inout", Nothing)

USDT == Pressed({"inout"}) /\ Tell("usdt", Nothing)

BTC == Pressed({"inout"}) /\ Tell("btc", Nothing)

\* The terms are kept; without a trust line an answer.
USDTOut ==
  /\ Pressed({"usdt"})
  /\ \/ /\ data' = [data EXCEPT !.msg = Deed("usdt", None, None, None, {})]
        /\ Show("sending_usdt_address", Nothing) /\ fsm' = "sending_usdt_address"
     \/ screen' = Info /\ UNCHANGED <<fsm, data>>
  /\ UNCHANGED <<given, chosen, mixed>>

USDTAddress(x) ==
  /\ fsm = "sending_usdt_address"
  /\ \/ /\ data' = [data EXCEPT !.usdt = x, !.after = "usdt"]
        /\ Show("sending_usdt_sum", Nothing) /\ fsm' = "sending_usdt_sum"
     \/ Show("sending_usdt_address", Nothing) /\ UNCHANGED <<fsm, data>>
  /\ given' = x /\ UNCHANGED <<chosen, mixed>>

\* cmd_send_usdt(): the request has what follows from the data.
USDTSum ==
  /\ fsm = "sending_usdt_sum"
  /\ \/ Confirm("confirm", "none", Deed(data.after, None, None, data.usdt, {}), data)
     \/ data' = data /\ fsm' = "none" /\ screen' = Info
     \/ Show("sending_usdt_sum", Nothing) /\ UNCHANGED <<fsm, data>>
  /\ UNCHANGED <<given, chosen, mixed>>

\* A running order is shown instead of the question.
BTCIn ==
  /\ Pressed({"btc"})
  /\ \/ /\ data' = [data EXCEPT !.msg = Deed("btc", None, None, None, {})]
        /\ Show("sending_btc_sum_in", Nothing) /\ fsm' = "sending_btc_sum_in"
     \/ Show("btc_check", Nothing) /\ UNCHANGED <<fsm, data>>
  /\ UNCHANGED <<given, chosen, mixed>>

BTCSum ==
  /\ fsm = "sending_btc_sum_in"
  /\ \/ Show("btc_check", Nothing) /\ fsm' = "none"
     \/ Show("sending_btc_sum_in", Nothing) /\ UNCHANGED fsm
  /\ UNCHANGED <<data, given, chosen, mixed>>

Stars == Pressed({"inout"}) /\ Ask("sending_stars_sum_in", Nothing)

\* An invoice; a bad sum has no answer.
StarsSum ==
  /\ fsm = "sending_stars_sum_in"
  /\ fsm' = "none" /\ screen' = Info
  /\ UNCHANGED <<data, given, chosen, mixed>>

WalletNext ==
  \/ WalletSetting \/ ManageAssets \/ AssetVisibility \/ SetVisibility
  \/ DeleteAsset \/ AddAsset \/ AddAssetExpert
  \/ RemovePassword \/ GetPrivateKey \/ BuyAddress \/ AddressBook \/ AddressBookText
  \/ DataManagement \/ SetDefault \/ DefaultAddress \/ SetLimit \/ Assets_
  \/ AssetRequests \/ InOut \/ USDT \/ BTC \/ USDTOut \/ USDTSum \/ BTCIn \/ BTCSum
  \/ Stars \/ StarsSum
  \/ \E a \in Assets : \/ DelAsset(a) \/ CqAddAsset(a) \/ SendingCode(a) \/ StartAsset(a)
                       \/ AssetView(a)
  \/ \E x \in Addresses : SendingIssuer(x) \/ USDTAddress(x) \/ ManageData(x)
  \/ \E way \in {"deposit", "withdraw"} : AssetTransfer(way)

=============================================================================
