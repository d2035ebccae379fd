-------------------------- MODULE SendConversation --------------------------
(***************************************************************************)
(* "Send": an address, a token, an amount and a memo; /eurmtl; the         *)
(* activation of an account; and photos of QR codes, which come at any     *)
(* time and do not begin with clear_state().                               *)
(***************************************************************************)
EXTENDS ConversationData

Payment(d) ==
  Deed("pay", d.send, None, d.to,
       (IF d.cancel THEN {"cancel"} ELSE {}) \cup ({d.memo} \ {None}))

SendStart == Clear("sending_for") /\ screen' = Screen("sending_for", Nothing)

Send == Pressed({"menu"}) /\ SendStart

\* cmd_send_choose_token()
ChooseToken(d) ==
  /\ data' = [d EXCEPT !.stars = IF d.known = None THEN d.to ELSE d.known]
  /\ Show("send_token", Deed("pay", None, None, d.to, {}))
  /\ fsm' = "choosing_token"

\* cmd_create_account() stores no request: only the transaction.
CreateAccount(d) ==
  LET deed == Deed("activate", None, None, d.to, IF d.activate THEN {"15"} ELSE {})
  IN  \/ /\ data' = [d EXCEPT !.xdr = deed, !.send = None]
         /\ Show("activate", deed) /\ fsm' = "none"
      \/ data' = d /\ screen' = Info /\ fsm' = "none"

\* The address of a QR code in the data has precedence over the text.
Recipient(d, x) == IF d.qr # None THEN d.qr ELSE x

\* cmd_send_for(): an account with or without a memo of its own, one to be activated, or
\* none that can be read.
SendForIn(d, x) ==
  LET a == Recipient(d, x)
  IN  \/ ChooseToken([d EXCEPT !.to = a, !.known = a])
      \/ ChooseToken([d EXCEPT !.to = a, !.known = a, !.memo = a, !.federal = TRUE])
      \/ CreateAccount([d EXCEPT !.to = a])
      \/ data' = d /\ Show("sending_for", Nothing) /\ UNCHANGED fsm

SendFor(x) ==
  /\ fsm = "sending_for"
  /\ SendForIn(data, x)
  /\ given' = x /\ UNCHANGED <<chosen, mixed>>

SendToken(a) ==
  /\ Pressed({"send_token"})
  /\ LET prompt == Deed("pay", a, None, None, {})
     IN  /\ data' = [data EXCEPT !.send = a, !.msg = prompt]
         /\ Show("sending_sum", prompt)
  /\ fsm' = "sending_sum"
  /\ UNCHANGED <<given, chosen, mixed>>

SendCancelOffers ==
  /\ Pressed({"sending_sum", "send_error"}) /\ fsm = "sending_sum"
  /\ data' = [data EXCEPT !.cancel = ~@]
  /\ ShowKept("sending_sum", data.msg)
  /\ UNCHANGED <<fsm, given, chosen, mixed>>

\* cmd_send_04(): an error leaves the state.
Send04(d, state) ==
  \/ Confirm("send_confirm", "confirming", Payment(d), [d EXCEPT !.back = d.msg])
  \/ data' = d /\ fsm' = state /\ Show("send_error", Nothing)

SendSum ==
  /\ fsm = "sending_sum"
  /\ \/ Send04(data, fsm)
     \/ ShowKept("sending_sum", data.msg) /\ UNCHANGED <<fsm, data>>
  /\ UNCHANGED <<given, chosen, mixed>>

Memo ==
  /\ Pressed({"send_confirm"}) /\ ~data.federal
  /\ Ask("sending_memo", Nothing)

SendMemo ==
  /\ fsm = "sending_memo"
  /\ Send04([data EXCEPT !.memo = data.to], fsm)
  /\ UNCHANGED <<given, chosen, mixed>>

\* The payment asked for by a command, a link or a QR code; a memo of /eurmtl stays, one
\* of a QR code may be replaced.
SendNow(d, state, a, x, memo) == Send04([d EXCEPT !.send = a, !.to = x, !.memo = memo], state)

Eurmtl(a, x) ==
  /\ fsm \notin BeforeSend
  /\ \/ \E memo \in {None, x} :
          SendNow([NoData EXCEPT !.federal = memo # None], "none", a, x, memo)
     \/ data' = NoData /\ fsm' = "none" /\ screen' = Info
  /\ given' = x /\ chosen' = NoChoice /\ mixed' = FALSE

-----------------------------------------------------------------------------
(* "Back" *)

BackButton == {"send_token", "sending_sum", "send_error", "send_confirm", "sending_memo"}

Back(state) == Pressed(BackButton) /\ fsm = state /\ UNCHANGED <<given, chosen, mixed>>

\* Mutant: only the signature is forgotten.
SendBackToAddressKeeping ==
  /\ Back("choosing_token")
  /\ data' = ForgetSignature(data)
  /\ Show("sending_for", Nothing) /\ fsm' = "sending_for"

SendBackToAddress ==
  /\ Back("choosing_token")
  /\ data' = [NoData EXCEPT !.offer = data.offer, !.delete = data.delete,
                              !.receive = data.receive, !.activate = data.activate,
                              !.address = data.address, !.usdt = data.usdt,
                              !.func = data.func, !.after = data.after,
                              !.requests = data.requests, !.transfer = data.transfer]
  /\ Show("sending_for", Nothing) /\ fsm' = "sending_for"

SendBackToToken ==
  /\ Back("sending_sum")
  /\ ChooseToken(data)

\* Without a prompt to go back to no message can be sent, and the confirmation stays.
SendBackToAmount ==
  /\ Back("confirming")
  /\ data' = ForgetSignature(data) /\ fsm' = "sending_sum"
  /\ ShowKept("sending_sum", data.back)

SendBackToConfirmation ==
  /\ Back("sending_memo")
  /\ Send04(data, fsm)

-----------------------------------------------------------------------------
Send15 ==
  /\ Pressed({"activate"})
  /\ CreateAccount([data EXCEPT !.activate = TRUE])
  /\ UNCHANGED <<given, chosen, mixed>>

\* handle_docs_photo(): an address, or a payment; an address is welcome at the beginning of
\* "Send".  The bound: one photo in the middle of each conversation.
Photo(x) ==
  /\ fsm \notin BeforeSend \cup {"sending_sum", "sending_memo"} /\ ~mixed
  /\ \/ /\ SendForIn([data EXCEPT !.qr = x], x)
        /\ mixed' = ([data EXCEPT !.qr = None] # NoData)
     \/ /\ \E a \in Assets, memo \in {None, x} : SendNow(data, fsm, a, x, memo)
        /\ mixed' = (fsm # "none" \/ data # NoData)
  /\ given' = x /\ UNCHANGED chosen

\* cmd_last_route(): an address, or a message of another user, that no state takes.
AddressText(x) ==
  /\ fsm \notin TextStates \cup PinStates /\ ~mixed
  /\ \/ ChooseToken([data EXCEPT !.to = x])
     \/ ChooseToken([data EXCEPT !.to = x, !.memo = x, !.federal = TRUE])
  /\ given' = x /\ mixed' = (data # NoData) /\ UNCHANGED chosen

SendNext ==
  \/ Send \/ SendCancelOffers \/ SendSum \/ Memo \/ SendMemo \/ Send15
  \/ SendBackToAddress \/ SendBackToToken \/ SendBackToAmount \/ SendBackToConfirmation
  \/ \E x \in Addresses : \/ SendFor(x) \/ Photo(x) \/ AddressText(x)
                          \/ \E a \in Assets : Eurmtl(a, x)
  \/ \E a \in Assets : SendToken(a)

=============================================================================
