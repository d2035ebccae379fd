-------------------------- MODULE SwapConversation --------------------------
(***************************************************************************)
(* "Swap": the token to spend, the token to receive, an amount of either,  *)
(* and /swap with all of it.                                               *)
(***************************************************************************)
EXTENDS ConversationData

Swap(d, strict) ==
  Deed("swap", d.send, d.receive, None,
       (IF d.cancel THEN {"cancel"} ELSE {}) \cup (IF strict THEN {"strict"} ELSE {}))

\* cmd_swap_text(): one of each code, or an error.
SwapText(a, b) ==
  /\ a # b /\ fsm \notin BeforeSwap
  /\ NewHistory
  /\ LET d == [NoData EXCEPT !.send = a, !.receive = b]
     IN  \E strict \in BOOLEAN : \/ Confirm("confirm", "none", Swap(d, strict), d)
                                 \/ data' = NoData /\ screen' = Info /\ fsm' = "none"

SwapStart ==
  /\ Pressed({"menu"})
  /\ Show("swap_from", Nothing) /\ fsm' = "choosing_from"
  /\ UNCHANGED <<data, given, chosen, mixed>>

SwapFromPrompt(a) == Show("swap_for", Deed("swap", a, None, None, {}))

SwapFrom(a) ==
  /\ Pressed({"swap_from"})
  /\ data' = [data EXCEPT !.send = a]
  /\ SwapFromPrompt(a) /\ fsm' = "choosing_for"
  /\ UNCHANGED <<given, chosen, mixed>>

\* Mutant: the prompt of an earlier choice is kept.
SwapForKeeping(b) ==
  /\ Pressed({"swap_for"}) /\ b # data.send
  /\ LET prompt == Deed("swap", data.send, b, None, {})
     IN  data' = [data EXCEPT !.receive = b, !.msg = IF @ = Nothing THEN prompt ELSE @]
  /\ fsm' = "swap_sum" /\ Show("swap_sum", data'.msg)
  /\ UNCHANGED <<given, chosen, mixed>>

SwapFor(b) ==
  /\ Pressed({"swap_for"}) /\ b # data.send
  /\ LET prompt == Deed("swap", data.send, b, None, {})
     IN  data' = [data EXCEPT !.receive = b, !.msg = prompt]
  /\ fsm' = "swap_sum" /\ Show("swap_sum", data'.msg)
  /\ UNCHANGED <<given, chosen, mixed>>

\* The slippage is left out: the prompt comes again.
SwapSlippage ==
  /\ Pressed({"swap_sum"}) /\ fsm = "swap_sum"
  /\ Tell("swap_sum", data.msg)

SwapCancelOffers ==
  /\ Pressed({"swap_sum"}) /\ fsm = "swap_sum"
  /\ data' = [data EXCEPT !.cancel = ~@]
  /\ Show("swap_sum", data.msg)
  /\ UNCHANGED <<fsm, given, chosen, mixed>>

ReceivePrompt(d) == Deed("swap", None, d.receive, None, {"strict"})

SwapStrictReceive ==
  /\ Pressed({"swap_sum"}) /\ fsm = "swap_sum"
  /\ data' = [data EXCEPT !.back = data.msg]
  /\ Show("swap_receive_sum", ReceivePrompt(data)) /\ fsm' = "swap_receive_sum"
  /\ UNCHANGED <<given, chosen, mixed>>

\* A bad sum, no path, or a failure of the use case leaves the prompt.
SwapSum ==
  /\ fsm = "swap_sum"
  /\ \/ Confirm("swap_confirm", "confirming_send", Swap(data, FALSE),
                [data EXCEPT !.back = data.msg])
     \/ Show("swap_sum", data.msg) /\ UNCHANGED <<fsm, data>>
  /\ UNCHANGED <<given, chosen, mixed>>

SwapReceiveSum ==
  /\ fsm = "swap_receive_sum"
  /\ \/ Confirm("swap_confirm", "confirming_receive", Swap(data, TRUE),
                [data EXCEPT !.back = data.msg])
     \/ Show("swap_receive_sum", ReceivePrompt(data)) /\ UNCHANGED <<fsm, data>>
  /\ UNCHANGED <<given, chosen, mixed>>

-----------------------------------------------------------------------------
(* "Back" *)

SwapBack(kinds, state) == Pressed(kinds) /\ fsm = state /\ UNCHANGED <<given, chosen, mixed>>

SwapBackToSource ==
  /\ SwapBack({"swap_for"}, "choosing_for")
  /\ Show("swap_from", Nothing) /\ fsm' = "choosing_from" /\ UNCHANGED data

SwapBackToDestination ==
  /\ SwapBack({"swap_sum"}, "swap_sum")
  /\ SwapFromPrompt(data.send) /\ fsm' = "choosing_for" /\ UNCHANGED data

\* _render_swap_sum_prompt()
SumPrompt(d) == Show("swap_sum", IF d.back # Nothing THEN d.back ELSE d.msg) /\ fsm' = "swap_sum"

SwapBackFromReceive ==
  /\ SwapBack({"swap_receive_sum"}, "swap_receive_sum")
  /\ SumPrompt(data) /\ UNCHANGED data

SwapBackFromSendConfirmation ==
  /\ SwapBack({"swap_confirm"}, "confirming_send")
  /\ data' = ForgetSignature(data)
  /\ SumPrompt(data)

\* Mutant: the other prompt.
SwapBackToSum ==
  /\ SwapBack({"swap_confirm"}, "confirming_receive")
  /\ data' = ForgetSignature(data)
  /\ Show("swap_sum", data.back) /\ fsm' = "swap_receive_sum"

SwapBackFromReceiveConfirmation ==
  /\ SwapBack({"swap_confirm"}, "confirming_receive")
  /\ data' = ForgetSignature(data)
  /\ Show("swap_receive_sum", ReceivePrompt(data)) /\ fsm' = "swap_receive_sum"

SwapNext ==
  \/ SwapStart \/ SwapSlippage \/ SwapCancelOffers \/ SwapStrictReceive
  \/ SwapSum \/ SwapReceiveSum \/ SwapBackToSource \/ SwapBackToDestination
  \/ SwapBackFromReceive \/ SwapBackFromSendConfirmation \/ SwapBackFromReceiveConfirmation
  \/ \E a \in Assets : SwapFrom(a) \/ SwapFor(a) \/ \E b \in Assets : SwapText(a, b)

=============================================================================
