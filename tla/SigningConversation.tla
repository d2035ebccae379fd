-------------------------- MODULE SigningConversation --------------------------
(***************************************************************************)
(* How a user whose key is on the server signs: payments that a            *)
(* conversation has prepared, transactions pasted into the chat, and       *)
(* requests of WalletConnect.  All of them go through the same FSM data    *)
(* and the same FSM state of the user, and the handlers of several updates *)
(* run at a time: what is signed is what the data say when sign_xdr()      *)
(* reads them.                                                             *)
(***************************************************************************)
EXTENDS FiniteSets, Naturals

CONSTANTS
  Payments,   \* transactions of conversations: confirmed, signed and submitted
  Pasted,     \* transactions that the user pastes: signed and shown
  Requests,   \* requests of a dApp, each with its transaction
  Submits,    \* those of them with the method stellar_signAndSubmitXDR
  Password,   \* does the wallet have a password (pin_type 2) instead of a PIN?
  Presses,    \* bound: confirmations with the PIN or the password
  Sends,      \* bound: presses of "Send", "Send to ..." and "Resend"
  NoTx,       \* no transaction
  MaxCrossed, \* bound: transactions that met another one
  MaxFaults   \* bound on refusals and lost answers of the network

ASSUME ConversationAssumption ==
  /\ Submits \subseteq Requests
  /\ Payments \cap (Pasted \cup Requests) = {} /\ Pasted \cap Requests = {}
  /\ NoTx \notin Payments \cup Pasted \cup Requests
  /\ Password \in BOOLEAN /\ MaxCrossed \in Nat /\ MaxFaults \in Nat

VARIABLES
  fsm,       \* FSM state
  data,      \* FSM data
  screen,    \* the last message: its buttons and its transaction
  cpc,       \* the await of each cmd_check_xdr(), and of the dApp's request
  ppc, loc,  \* the await of each confirmation, and the data that sign_xdr() read
  seen,      \* the transaction on the screen of each confirmation
  spc, sent, \* the await of each press of a button, and its transaction
  submitted, \* accepted by the network
  answer,    \* the transaction that each dApp received
  calls,     \* calls of fsm_after_send() for each payment
  signed,    \* history: transactions signed with the user's key
  approved,  \* history: transactions on the screen when the user confirmed
  wished,    \* history: transactions the user asked to be sent
  crossed,   \* history: transactions of which one came into the other's data, or was read
             \* with the other's FSM state
  overlap,   \* history: transactions during whose confirmation another handler could
             \* reset the FSM state, or did
  raced,     \* history: payments of which two confirmations read "sign_and_send" before
             \* either reset it
  failed,    \* history: transactions that met a fault
  faults     \* history: faults so far

talkVars  == <<fsm, data, screen>>
pressVars == <<ppc, loc, seen>>
sendVars  == <<spc, sent>>
netVars   == <<submitted, failed, faults>>
vars == <<talkVars, cpc, pressVars, sendVars, netVars, answer, calls, signed, approved,
          wished, crossed, overlap, raced>>

Txs == Payments \cup Pasted \cup Requests
Checks == Pasted \cup Requests
TxOrNone == Txs \cup {NoTx}

\* pending: pending_signature_request; after: fsm_after_send; request: wallet_connect
\* and internal_request_id; pin: is the right PIN or password there?
Data == [xdr : TxOrNone, pending : Payments \cup {NoTx}, after : Payments \cup {NoTx},
         request : Requests \cup {NoTx}, pin : BOOLEAN]

NoData == [xdr |-> NoTx, pending |-> NoTx, after |-> NoTx, request |-> NoTx, pin |-> FALSE]

\* The states that tell what a PIN is for.
Tells == {"sign", "sign_and_send"}

\* The locals of sign_xdr(): mode is the FSM state.
Locals == [xdr : TxOrNone, after : Payments \cup {NoTx}, pin : BOOLEAN,
           mode : Tells \cup {"none"}]

NoLocals == [xdr |-> NoTx, after |-> NoTx, pin |-> FALSE, mode |-> "none"]

\* "talk" stands for the states of every conversation that prepares a payment.
States == {"none", "talk", "confirming", "sending_xdr", "sign", "sign_and_send", "ask_password"}

Screens == [kind : {"menu", "info", "confirm", "pin", "send", "resend"}, tx : TxOrNone,
            request : Requests \cup {NoTx}]

Screen(kind, t) == [kind |-> kind, tx |-> t, request |-> NoTx]

Menu == Screen("menu", NoTx)

\* A message with no button but "Return".
Info == Screen("info", NoTx)

Pressing == {p \in Presses : ppc[p] \notin {"new", "done"}}
Sending  == {s \in Sends : spc[s] \notin {"new", "done"}}
Answering == {s \in Sends : spc[s] = "answer"}

Init ==
  /\ fsm = "none" /\ data = NoData /\ screen = Menu
  /\ cpc = [c \in Checks |-> "new"]
  /\ ppc = [p \in Presses |-> "new"] /\ loc = [p \in Presses |-> NoLocals]
  /\ seen = [p \in Presses |-> NoTx]
  /\ spc = [s \in Sends |-> "new"] /\ sent = [s \in Sends |-> NoTx]
  /\ submitted = {} /\ answer = [r \in Requests |-> NoTx]
  /\ calls = [t \in Payments |-> 0]
  /\ signed = {} /\ approved = {} /\ wished = {}
  /\ crossed = {} /\ overlap = {} /\ raced = {} /\ failed = {} /\ faults = 0

Fault(t) == faults < MaxFaults /\ faults' = faults + 1 /\ failed' = failed \cup {t}

\* History: the transactions under way, by the screen, the data and the handlers.  What
\* is still to be read after a clear_state() has no PIN any more.
Underway(pressing) ==
  (IF screen \in {Menu, Info} THEN {} ELSE {screen.tx, data.xdr})
    \cup {r \in Requests : data.request = r /\ cpc[r] \in {"check", "ask", "wait"}}
    \cup {c \in Checks : cpc[c] = "ask"}
    \cup {seen[p] : p \in {q \in pressing : ppc[q] = "read" => data.pin}}
    \cup ({loc[p].xdr : p \in {q \in pressing : loc[q].pin}} \ {NoTx})
    \cup {sent[s] : s \in Sending}

\* When all transactions have crossed there is nothing left to say.
MayCross == Cardinality(crossed' \ {NoTx}) <= MaxCrossed

\* History: t is written into the data of others.
Enters(t, others) ==
  /\ crossed' = IF others \ {t} # {} THEN crossed \cup others \cup {t} ELSE crossed
  /\ MayCross

-----------------------------------------------------------------------------
(* Conversations *)

\* Any command, and the button "Return": clear_state().
Return ==
  /\ data' = NoData /\ screen' = Menu
  /\ fsm' = "none"
  /\ UNCHANGED <<cpc, pressVars, sendVars, netVars, answer, calls, signed, approved, wished,
                 crossed, overlap, raced>>

\* A conversation begins with clear_state() and asks for what it needs ...
Talk ==
  /\ data' = NoData /\ screen' = Info
  /\ fsm' = "talk"
  /\ UNCHANGED <<cpc, pressVars, sendVars, netVars, answer, calls, signed, approved, wished,
                 crossed, overlap, raced>>

\* ... and stores the request of a signature, with the button "Yes" to confirm it.
Prepare(t) ==
  /\ fsm = "talk" /\ t \notin approved \cup wished
  /\ data' = [data EXCEPT !.xdr = t, !.pending = t]
  /\ fsm' = "confirming"
  /\ screen' = Screen("confirm", t)
  /\ UNCHANGED <<cpc, pressVars, sendVars, netVars, answer, calls, signed, approved, wished,
                 crossed, overlap, raced>>

\* cmd_ask_pin(): the state of a wallet with a password does not tell what for.
AskPin(state, t) ==
  /\ fsm' = IF Password THEN "ask_password" ELSE state
  /\ screen' = Screen("pin", t)

\* cmd_yes_send(): the request becomes the data to sign.
Yes ==
  /\ screen.kind = "confirm" /\ data.pending # NoTx
  /\ LET t == data.pending
     IN  /\ data' = [data EXCEPT !.xdr = t, !.after = t, !.pending = NoTx, !.pin = FALSE]
         /\ AskPin("sign_and_send", t)
         /\ wished' = wished \cup {t}
  /\ UNCHANGED <<cpc, pressVars, sendVars, netVars, answer, calls, signed, approved, crossed,
                 overlap, raced>>

\* The button "Sign" of the menu.
PasteHere ==
  /\ screen = Menu
  /\ screen' = Info /\ fsm' = "sending_xdr"
  /\ UNCHANGED <<data, cpc, pressVars, sendVars, netVars, answer, calls, signed,
                 approved, wished, crossed, overlap, raced>>

To(c, stage) == cpc' = [cpc EXCEPT ![c] = stage]

Paste(t) ==
  /\ fsm = "sending_xdr" /\ cpc[t] = "new"
  /\ To(t, "check")
  /\ UNCHANGED <<talkVars, pressVars, sendVars, netVars, answer, calls, signed, approved,
                 wished, crossed, overlap, raced>>

\* request_wc_signature() marks the data before the transaction is checked.
Arrive(r) ==
  /\ cpc[r] = "new"
  /\ To(r, "check")
  /\ data' = [data EXCEPT !.request = r]
  /\ Enters(r, Underway(Pressing))
  /\ UNCHANGED <<fsm, screen, pressVars, sendVars, netVars, answer, calls, signed, approved,
                 wished, overlap, raced>>

\* cmd_check_xdr() stores the transaction ...
Check(c) ==
  /\ cpc[c] = "check"
  /\ To(c, "ask")
  /\ data' = [data EXCEPT !.xdr = c]
  /\ Enters(c, Underway(Pressing))
  /\ UNCHANGED <<fsm, screen, pressVars, sendVars, netVars, answer, calls, signed, approved,
                 wished, overlap, raced>>

\* Mutant: the transaction is taken for one to be submitted.
AskToSend(c) ==
  /\ cpc[c] = "ask"
  /\ To(c, "wait")
  /\ AskPin("sign_and_send", data.xdr)
  /\ Enters(c, Underway(Pressing) \cup {data.xdr})
  /\ UNCHANGED <<data, pressVars, sendVars, netVars, answer, calls, signed, approved, wished,
                 overlap, raced>>

\* ... and asks for the PIN after it has rendered it.
Ask(c) ==
  /\ cpc[c] = "ask"
  /\ To(c, "wait")
  /\ AskPin("sign", data.xdr)
  /\ Enters(c, Underway(Pressing) \cup {data.xdr})
  /\ UNCHANGED <<data, pressVars, sendVars, netVars, answer, calls, signed, approved, wished,
                 overlap, raced>>

\* A transaction that cannot be read.
CheckFails(c) ==
  /\ cpc[c] = "check"
  /\ Fault(c)
  /\ To(c, "wait")
  /\ screen' = Info
  /\ UNCHANGED <<fsm, data, pressVars, sendVars, submitted, answer, calls, signed, approved,
                 wished, crossed, overlap, raced>>

\* The dApp has waited for five minutes.
TimeOut(r) ==
  /\ cpc[r] = "wait"
  /\ To(r, "late")
  /\ UNCHANGED <<talkVars, pressVars, sendVars, netVars, answer, calls, signed, approved,
                 wished, crossed, overlap, raced>>

-----------------------------------------------------------------------------
(* A confirmation: cq_pin() or cmd_password(), and sign_xdr() *)

Goto(p, stage) == ppc' = [ppc EXCEPT ![p] = stage]

\* cq_pin() tests the PIN; cmd_password() does not test the password, and takes it for one
\* that was asked for in order to send.
Enter(p, right) ==
  /\ ppc[p] = "new" /\ screen.kind = "pin"
  /\ right \/ Password
  /\ fsm \in (IF Password THEN {"ask_password"} ELSE Tells)
  /\ Goto(p, "read")
  /\ seen' = [seen EXCEPT ![p] = screen.tx]
  /\ data' = [data EXCEPT !.pin = right]
  /\ fsm' = IF Password THEN "sign_and_send" ELSE fsm
  /\ approved' = approved \cup {screen.tx}
  /\ overlap' = IF Pressing # {} \/ Answering # {}
                THEN overlap \cup {screen.tx} \cup {seen[q] : q \in Pressing}
                ELSE overlap
  /\ UNCHANGED <<screen, cpc, loc, sendVars, netVars, answer, calls, signed, wished, crossed,
                 raced>>

\* Mutant: the key is at hand since the test of the PIN.
ReadTested(p) ==
  /\ ppc[p] = "read"
  /\ Goto(p, "mode")
  /\ loc' = [loc EXCEPT ![p] =
       [xdr |-> data.xdr, after |-> data.after, pin |-> TRUE, mode |-> "none"]]
  /\ UNCHANGED <<talkVars, cpc, seen, sendVars, netVars, answer, calls, signed, approved,
                 wished, crossed, overlap, raced>>

\* After the test of the PIN sign_xdr() reads the data again ...
ReadData(p) ==
  /\ ppc[p] = "read"
  /\ Goto(p, "mode")
  /\ loc' = [loc EXCEPT ![p] =
       [xdr |-> data.xdr, after |-> data.after, pin |-> data.pin, mode |-> "none"]]
  /\ UNCHANGED <<talkVars, cpc, seen, sendVars, netVars, answer, calls, signed, approved,
                 wished, crossed, overlap, raced>>

\* ... then the state ...
ReadState(p) ==
  /\ ppc[p] = "mode"
  /\ Goto(p, "reset")
  /\ loc' = [loc EXCEPT ![p].mode = IF fsm \in Tells THEN fsm ELSE "none"]
  /\ LET l == loc[p]
         changed == data.xdr # l.xdr \/ data.after # l.after
         together == \E q \in Presses : /\ ppc[q] = "reset" /\ loc[q].mode = "sign_and_send"
                                       /\ loc[q].after = l.after
     IN  /\ crossed' = IF changed /\ fsm \in Tells
                       THEN crossed \cup ({l.xdr, l.after, data.xdr} \ {NoTx}) ELSE crossed
         /\ overlap' = IF changed THEN overlap \cup {seen[p]} ELSE overlap
         /\ raced' = IF together /\ fsm = "sign_and_send"
                     THEN raced \cup ({l.after} \ {NoTx}) ELSE raced
  /\ MayCross
  /\ UNCHANGED <<talkVars, cpc, seen, sendVars, netVars, answer, calls, signed, approved,
                 wished>>

\* Mutant: the state stays as it is until the transaction is signed.
ResetLater(p) ==
  /\ ppc[p] = "reset"
  /\ Goto(p, "sign")
  /\ UNCHANGED <<talkVars, cpc, loc, seen, sendVars, netVars, answer, calls, signed, approved,
                 wished, crossed, overlap, raced>>

\* ... and resets it: whoever reads the state from now on does not send anything.
Reset(p) ==
  /\ ppc[p] = "reset"
  /\ Goto(p, "sign")
  /\ fsm' = "none"
  /\ UNCHANGED <<data, screen, cpc, loc, seen, sendVars, netVars, answer, calls, signed,
                 approved, wished, crossed, overlap, raced>>

\* user_sign() needs a transaction and the PIN; what comes next follows from the state.
Sign(p) ==
  /\ ppc[p] = "sign"
  /\ LET l == loc[p]
     IN  \/ /\ l.pin /\ l.xdr # NoTx
            /\ fsm' = "none"
            /\ data' = [data EXCEPT !.xdr = l.xdr]
            /\ signed' = signed \cup {l.xdr}
            /\ Enters(l.xdr, Underway(Pressing \ {p}))
            /\ Goto(p, CASE l.mode = "sign_and_send" -> "submit"
                         [] l.mode = "sign" -> "show"
                         [] OTHER -> "end")
            /\ screen' = IF l.mode = "sign_and_send" THEN Info ELSE screen
         \/ /\ ~l.pin \/ l.xdr = NoTx
            /\ screen' = Info
            /\ Goto(p, "end")
            /\ UNCHANGED <<fsm, data, signed, crossed, raced>>
  /\ UNCHANGED <<cpc, loc, seen, sendVars, netVars, answer, calls, approved, wished, overlap,
                 raced>>

\* The network accepts t, refuses it, or its answer does not arrive.
Accept(t) == t \in signed /\ submitted' = submitted \cup {t} /\ screen' = Info
Refuse(t) == Fault(t) /\ UNCHANGED submitted
Lose(t)   == Fault(t) /\ submitted' \in {submitted, submitted \cup {t}}

\* fsm_after_send() follows what the network accepts; after a refusal there is a button
\* to send again, after a timeout there is none.
Submit(p) ==
  /\ ppc[p] = "submit"
  /\ LET t == loc[p].xdr
     IN  \/ /\ Accept(t)
            /\ Goto(p, IF loc[p].after # NoTx THEN "call" ELSE "end")
            /\ UNCHANGED <<failed, faults>>
         \/ /\ Refuse(t) /\ screen' = Screen("resend", t)
            /\ Goto(p, "end")
         \/ /\ Lose(t) /\ screen' = Info
            /\ Goto(p, "end")
  /\ UNCHANGED <<fsm, data, cpc, loc, seen, sendVars, answer, calls, signed, approved, wished,
                 crossed, overlap, raced>>

Call(p) ==
  /\ ppc[p] = "call"
  /\ calls' = [calls EXCEPT ![loc[p].after] = @ + 1]
  /\ Goto(p, "end")
  /\ UNCHANGED <<talkVars, cpc, loc, seen, sendVars, netVars, answer, signed, approved, wished,
                 crossed, overlap, raced>>

\* cmd_show_sign(): a dApp's transaction cannot be sent to the network from here.
Show(p) ==
  /\ ppc[p] = "show"
  /\ screen' = [Screen("send", loc[p].xdr) EXCEPT !.request = data.request]
  /\ Goto(p, "end")
  /\ UNCHANGED <<fsm, data, cpc, loc, seen, sendVars, netVars, answer, calls, signed, approved,
                 wished, crossed, overlap, raced>>

\* The end of sign_xdr() forgets the PIN.
End(p) ==
  /\ ppc[p] = "end"
  /\ data' = [data EXCEPT !.pin = FALSE]
  /\ Goto(p, "done")
  /\ loc' = [loc EXCEPT ![p] = NoLocals]
  /\ seen' = [seen EXCEPT ![p] = NoTx]
  /\ UNCHANGED <<fsm, screen, cpc, sendVars, netVars, answer, calls, signed, approved, wished,
                 crossed, overlap, raced>>

-----------------------------------------------------------------------------
(* The buttons under a signed or a refused transaction *)

\* The network will refuse an envelope that is not signed when the button is pressed.
Envelope == IF data.xdr \in signed THEN "submit" ELSE "refuse"

Press(s, stage) ==
  /\ spc[s] = "new"
  /\ spc' = [spc EXCEPT ![s] = stage]
  /\ sent' = [sent EXCEPT ![s] = data.xdr]
  /\ wished' = wished \cup {screen.tx}
  /\ overlap' = IF stage = "answer" THEN overlap \cup {seen[p] : p \in Pressing} ELSE overlap
  /\ UNCHANGED <<talkVars, cpc, pressVars, netVars, answer, calls, signed, approved, crossed,
                 raced>>

SendTr(s) == screen.kind = "send" /\ screen.request = NoTx /\ Press(s, Envelope)

ReSend(s) == screen.kind = "resend" /\ Press(s, Envelope)

\* "Send to wallet_connect"
SendTools(s) == screen.kind = "send" /\ screen.request # NoTx /\ Press(s, "answer")

Pressed(s) ==
  /\ spc' = [spc EXCEPT ![s] = "done"]
  /\ sent' = [sent EXCEPT ![s] = NoTx]

\* The data may have been cleared since; neither button calls fsm_after_send().
SubmitSent(s) ==
  /\ LET t == sent[s]
     IN  \/ spc[s] = "submit" /\ Accept(t) /\ UNCHANGED <<failed, faults>>
         \/ spc[s] = "submit" /\ Lose(t) /\ screen' = Screen("resend", t)
         \/ spc[s] = "refuse" /\ screen' = Screen("resend", t) /\ UNCHANGED netVars
  /\ Pressed(s)
  /\ UNCHANGED <<fsm, data, cpc, pressVars, answer, calls, signed, approved, wished, crossed,
                 overlap, raced>>

\* Mutant: the transaction goes to every request of the user that waits.
AnswerAll(s) ==
  /\ spc[s] = "answer"
  /\ LET waiting == {r \in Requests : cpc[r] = "wait"}
     IN  /\ cpc' = [c \in Checks |-> IF c \in waiting THEN "answered" ELSE cpc[c]]
         /\ answer' = [r \in Requests |-> IF r \in waiting THEN data.xdr ELSE answer[r]]
  /\ fsm' = "none" /\ screen' = Info
  /\ Pressed(s)
  /\ UNCHANGED <<data, pressVars, netVars, calls, signed, approved, wished, crossed, overlap,
                 raced>>

\* do_wc_sign_and_respond() reads the data again: the transaction goes to the request
\* that they name, if it still waits.
Answer(s) ==
  /\ spc[s] = "answer"
  /\ LET r == data.request
         waits == r # NoTx /\ cpc[r] = "wait"
         x == data.xdr
     IN  /\ cpc' = IF waits THEN [cpc EXCEPT ![r] = "answered"] ELSE cpc
         /\ \/ /\ r \in Submits => x \in signed
               /\ submitted' = IF r \in Submits THEN submitted \cup {x} ELSE submitted
               /\ answer' = IF waits THEN [answer EXCEPT ![r] = x] ELSE answer
               /\ UNCHANGED <<failed, faults>>
            \/ r \in Submits /\ x \in signed /\ Lose(x) /\ UNCHANGED answer
            \/ r \in Submits /\ x \notin signed /\ UNCHANGED <<netVars, answer>>
  /\ fsm' = "none" /\ screen' = Info
  /\ Pressed(s)
  /\ UNCHANGED <<data, pressVars, calls, signed, approved, wished, crossed, overlap, raced>>

-----------------------------------------------------------------------------
Next ==
  \/ Return \/ Talk \/ Yes \/ PasteHere
  \/ \E t \in Payments : Prepare(t)
  \/ \E t \in Pasted : Paste(t)
  \/ \E r \in Requests : Arrive(r) \/ TimeOut(r)
  \/ \E c \in Checks : Check(c) \/ Ask(c) \/ CheckFails(c)
  \/ \E p \in Presses : \/ \E right \in BOOLEAN : Enter(p, right)
                        \/ ReadData(p) \/ ReadState(p) \/ Reset(p) \/ Sign(p)
                        \/ Submit(p) \/ Call(p) \/ Show(p) \/ End(p)
  \/ \E s \in Sends : SendTr(s) \/ ReSend(s) \/ SendTools(s) \/ SubmitSent(s) \/ Answer(s)

Spec == Init /\ [][Next]_vars

-----------------------------------------------------------------------------
\* The user's key signs nothing but what was on the screen when the PIN was given:
\* a clear_state() or a new conversation during the test of the PIN does not put
\* another transaction under it, unless two were written into the same data.
SignedWasSeen == signed \ crossed \subseteq approved

\* What was to be signed only, for the user to look at or for a dApp, is submitted only
\* after the user asked for it.
SubmittedAsWished == submitted \ crossed \subseteq wished

\* A dApp receives the transaction that it asked for.
AnswersFit == \A r \in Requests \ crossed : answer[r] \in {r, NoTx}

\* fsm_after_send() runs twice for a payment only if two confirmations read the FSM state
\* before either reset it, or one read it with the data of another payment; and it follows an
\* accepted one, unless another handler that resets the FSM state ran beside the confirmation
\* or the network failed (a payment that is sent again has no follow-up).
CalledOnce ==
  \A t \in Payments :
    /\ calls[t] > 1 => t \in raced \cup crossed
    /\ t \in submitted \ (crossed \cup overlap \cup failed) =>
         calls[t] > 0 \/ \E p \in Pressing : loc[p].xdr = t

=============================================================================
