------------------------- MODULE TradeConversation -------------------------
(***************************************************************************)
(* "Market": a new order (the token to sell, the token to buy, the two     *)
(* amounts), and the orders of the user, which can be changed or deleted;  *)
(* /trade with all of it.                                                  *)
(***************************************************************************)
EXTENDS ConversationData

\* cmd_xdr_order(): the order that is changed, or none for a new one.
OrderDeed(d) ==
  Deed("trade", d.send, d.receive, d.offer, IF d.delete THEN {"delete"} ELSE {})

XdrOrder(d, state) ==
  \/ Confirm("confirm", state, OrderDeed(d), [d EXCEPT !.msg = Nothing])
  \/ data' = d /\ screen' = Info /\ fsm' = state

\* /trade: a new order, or the end of one; an error or the list.
TradeText(a, b) ==
  /\ a # b /\ fsm \notin BeforeTrade
  /\ NewHistory
  /\ LET d == [NoData EXCEPT !.send = a, !.receive = b]
     IN  \/ Confirm("confirm", "none", OrderDeed(d), d)
         \/ data' = NoData /\ screen' = Info /\ fsm' = "none"

TradeCancel(o) ==
  /\ fsm \notin BeforeTrade
  /\ given' = None /\ chosen' = [NoChoice EXCEPT !.offer = o, !.delete = TRUE] /\ mixed' = FALSE
  /\ \E a, b \in Assets :
       /\ a # b
       /\ LET d == [NoData EXCEPT !.send = a, !.receive = b, !.delete = TRUE]
          IN  \/ Confirm("confirm", "none", [OrderDeed(d) EXCEPT !.obj = o], d)
              \/ data' = NoData /\ screen' = Info /\ fsm' = "none"

Market == Pressed({"menu"}) /\ Tell("market", Nothing)

NewOrder ==
  /\ Pressed({"market"})
  /\ Show("sell", Nothing)
  /\ chosen' = [chosen EXCEPT !.offer = None, !.delete = FALSE]
  /\ UNCHANGED <<fsm, data, given, mixed>>

TradeSell(a) ==
  /\ Pressed({"sell"})
  /\ data' = [data EXCEPT !.send = a]
  /\ Show("buy", Deed("trade", a, None, None, {}))
  /\ UNCHANGED <<fsm, given, chosen, mixed>>

TradeBuy(b) ==
  /\ Pressed({"buy"}) /\ b # data.send
  /\ LET prompt == Deed("trade", data.send, b, None, {})
     IN  /\ data' = [data EXCEPT !.receive = b, !.msg = prompt]
         /\ Show("selling_sum", prompt)
  /\ fsm' = "selling_sum"
  /\ UNCHANGED <<given, chosen, mixed>>

\* A bad sum shows the prompt again.
SaleSum ==
  /\ fsm = "selling_sum"
  /\ \/ LET prompt == Deed("trade", data.send, data.receive, None, {})
        IN  /\ data' = [data EXCEPT !.msg = prompt]
            /\ Show("selling_receive_sum", prompt) /\ fsm' = "selling_receive_sum"
     \/ Show("selling_sum", data.msg) /\ UNCHANGED <<fsm, data>>
  /\ UNCHANGED <<given, chosen, mixed>>

SaleCost ==
  /\ fsm = "selling_receive_sum"
  /\ \/ XdrOrder([data EXCEPT !.msg = Nothing], "none")
     \/ Show("selling_receive_sum", data.msg) /\ UNCHANGED <<fsm, data>>
  /\ UNCHANGED <<given, chosen, mixed>>

-----------------------------------------------------------------------------
(* The orders of the user *)

ShowOrders == Pressed({"market"}) /\ Tell("orders", Nothing)

\* Mutant: the order of the first choice stays.
EditFirstOrder(o) ==
  /\ Pressed({"orders"})
  /\ data' = [data EXCEPT !.offer = IF @ = None THEN CHOOSE p \in Orders : TRUE ELSE @]
  /\ Show("order", Deed("trade", None, None, o, {}))
  /\ chosen' = [chosen EXCEPT !.offer = o]
  /\ UNCHANGED <<fsm, given, mixed>>

EditOrder(o) ==
  /\ Pressed({"orders"})
  /\ data' = [data EXCEPT !.offer = o]
  /\ Show("order", Deed("trade", None, None, o, {}))
  /\ chosen' = [chosen EXCEPT !.offer = o]
  /\ UNCHANGED <<fsm, given, mixed>>

\* What the offers in the data say of the chosen order.
OfOrder(d, a, b) == [d EXCEPT !.send = a, !.receive = b]

Edit(state, a, b) ==
  /\ Pressed({"order"}) /\ a # b
  /\ LET prompt == Deed("trade", a, b, data.offer, {})
     IN  data' = [OfOrder(data, a, b) EXCEPT !.msg = prompt] /\ Show(state, prompt)
  /\ fsm' = state
  /\ UNCHANGED <<given, chosen, mixed>>

EditOrderAmount(a, b) == Edit("editing_amount", a, b)

EditOrderPrice(a, b) == Edit("editing_price", a, b)

EditSaleSum ==
  /\ fsm = "editing_amount"
  /\ \/ XdrOrder([data EXCEPT !.msg = Nothing], "none")
     \/ Show("editing_amount", data.msg) /\ UNCHANGED <<fsm, data>>
  /\ UNCHANGED <<given, chosen, mixed>>

EditSaleCost ==
  /\ fsm = "editing_price"
  /\ \/ XdrOrder([data EXCEPT !.msg = Nothing], "none")
     \/ Show("editing_price", data.msg) /\ UNCHANGED <<fsm, data>>
  /\ UNCHANGED <<given, chosen, mixed>>

DeleteOrder(a, b) ==
  /\ Pressed({"order"}) /\ a # b
  /\ XdrOrder([OfOrder(data, a, b) EXCEPT !.delete = TRUE], fsm)
  /\ chosen' = [chosen EXCEPT !.delete = TRUE]
  /\ UNCHANGED <<given, mixed>>

TradeNext ==
  \/ Market \/ NewOrder \/ ShowOrders \/ SaleSum \/ SaleCost \/ EditSaleSum \/ EditSaleCost
  \/ \E o \in Orders : EditOrder(o) \/ TradeCancel(o)
  \/ \E a \in Assets : TradeSell(a) \/ TradeBuy(a)
  \/ \E a, b \in Assets : TradeText(a, b) \/ EditOrderAmount(a, b) \/ EditOrderPrice(a, b)
                          \/ DeleteOrder(a, b)

=============================================================================
