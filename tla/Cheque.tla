-------------------------------- MODULE Cheque --------------------------------
(***************************************************************************)
(* One cheque, from the conversation that pays for it to the shares that   *)
(* are claimed and the rest that is refunded.  A payment into the escrow   *)
(* account is signed in the creator's conversation; the row of the cheque  *)
(* is written afterwards from the FSM data of that moment.  Claims and     *)
(* cancellations wait in cheque_queue for one worker, which commits to the *)
(* database before it pays.                                                *)
(*                                                                         *)
(* The creator's wallet has its key on the server: for a Web App wallet    *)
(* cheque_after_send() is never reached (see WebAppSigning).  The master   *)
(* key may sign for the escrow account.  Amounts are counted in shares     *)
(* (cheque_amount).                                                        *)
(***************************************************************************)
EXTENDS Naturals, Sequences, FiniteSets

CONSTANTS
  Users,        \* who may claim
  Creator,      \* the user who made the cheque
  Newcomers,    \* users without a default wallet
  OneKey,       \* is the escrow account the default wallet of user 0?
  Presses,      \* bound: confirmations of the payment, each made at most once
  NoTx,         \* no transaction
  ClaimTx,      \* the payment of a claim, as it stands in the FSM data of the claimant
  MaxCount,     \* bound on cheque_count
  MaxClicks,    \* bound on presses of "Cash" and "Cancel"
  MaxFaults     \* bound on exceptions, lost answers and restarts

ASSUME ChequeAssumption ==
  /\ Creator \in Users /\ Newcomers \subseteq Users
  /\ IsFiniteSet(Users) /\ IsFiniteSet(Presses)
  /\ OneKey \in BOOLEAN
  /\ MaxCount \in Nat \ {0} /\ MaxClicks \in Nat /\ MaxFaults \in Nat

VARIABLES
  begun,    \* has the uuid been drawn?
  draft,    \* send_count in the FSM data; 0: no data
  xdr,      \* the payment in the FSM data
  sealed,   \* is the payment in the FSM data signed?
  armed,    \* FSM state sign_and_send, with fsm_after_send
  ppc, ptx, \* the await of each confirmation, and the payment it signs
  pcount,   \* the send_count that its cheque_after_send() read
  offered,  \* was the creator shown the button "ReSend"?
  again,    \* the payment that cmd_resend() has read
  ledger,   \* payments accepted by the escrow account
  rows,     \* rows with the uuid
  count,    \* cheque_count of the first of them
  status,   \* and its cheque_status
  history,  \* users with a receipt in CHEQUE_HISTORY
  shown,    \* users who were shown the button "Cash the cheque"
  queue,    \* cheque_queue
  wpc, job, \* the await of the worker, and its item
  clicks,   \* presses so far
  funded,   \* history: shares paid into the escrow account
  paid,     \* history: shares paid to each user
  refunded, \* history: shares paid back
  late,     \* history: claims that the worker accepted after the cancellation
  changed,  \* history: send_count changed under a running confirmation
  wiped,    \* history: clear_state() ran under a running confirmation
  swapped,  \* history: a confirmation signed the payment of a claim
  resent,   \* history: payments that the button "ReSend" put into the escrow account
  failed,   \* history: items that failed after their commit
  lost,     \* history: a confirmation failed after it was submitted
  faults    \* history: faults so far

fsmVars    == <<begun, draft, xdr, sealed, armed>>
pressVars  == <<ppc, ptx, pcount>>
rowVars    == <<rows, count>>
clickVars  == <<shown, queue, clicks>>
workerVars == <<wpc, job>>
payVars    == <<paid, refunded>>
resendVars == <<offered, again, resent>>
raceVars   == <<changed, wiped, swapped>>
faultVars  == <<failed, lost, faults>>
vars == <<fsmVars, pressVars, ledger, funded, rowVars, status, history, clickVars,
          workerVars, payVars, late, resendVars, raceVars, faultVars>>

\* A payment for a number of shares; after: its sequence number.
Txs == [count : 1..MaxCount, after : Nat]

\* ChequeQuery
Items == [user : Users, cancel : BOOLEAN]

NoItem == [user |-> Creator, cancel |-> FALSE]

\* sign: sign_xdr() has read the FSM data; submit: the transaction is signed; read,
\* lookup, create: the awaits of cheque_after_send().
Running == {"sign", "submit", "read", "lookup", "create"}

\* record: the checks of a claim have passed; cancel: those of a cancellation.
Working == {"record", "build", "pay", "cancel", "refund"}

Init ==
  /\ begun = FALSE /\ draft = 0 /\ xdr = NoTx /\ sealed = FALSE /\ armed = FALSE
  /\ ppc = [p \in Presses |-> "new"] /\ ptx = [p \in Presses |-> NoTx]
  /\ pcount = [p \in Presses |-> 0]
  /\ offered = FALSE /\ again = NoTx /\ resent = {}
  /\ ledger = {} /\ funded = 0
  /\ rows = 0 /\ count = 0 /\ status = "CHEQUE" /\ history = {}
  /\ shown = {} /\ queue = <<>> /\ clicks = 0
  /\ wpc = "idle" /\ job = NoItem
  /\ paid = [u \in Users |-> 0] /\ refunded = 0
  /\ late = {} /\ changed = FALSE /\ wiped = FALSE /\ swapped = FALSE
  /\ failed = {} /\ lost = FALSE /\ faults = 0

InProgress == {p \in Presses : ppc[p] \in Running}

Goto(p, stage) == ppc' = [ppc EXCEPT ![p] = stage] /\ UNCHANGED <<ptx, pcount>>

\* The coroutine ends, and its locals with it.
Finish(p) ==
  /\ ppc' = [ppc EXCEPT ![p] = "done"]
  /\ ptx' = [ptx EXCEPT ![p] = NoTx]
  /\ pcount' = [pcount EXCEPT ![p] = 0]

Fault == faults < MaxFaults /\ faults' = faults + 1

-----------------------------------------------------------------------------
(* The conversation of the creator *)

\* cmd_cheque_show() builds the payment for the count in the FSM data, on the
\* sequence number that the account has now.
Show(n) ==
  /\ draft' = n
  /\ xdr' = [count |-> n, after |-> Cardinality(ledger)]
  /\ sealed' = FALSE /\ armed' = FALSE

\* The first sum, and every later count (a new sum comes with a new uuid).
EnterCount(n) ==
  /\ ~begun \/ draft # 0
  /\ begun' = TRUE
  /\ Show(n)
  /\ changed' = (changed \/ (InProgress # {} /\ n # draft))
  /\ UNCHANGED <<pressVars, ledger, funded, rowVars, status, history, clickVars,
                 workerVars, payVars, late, resendVars, wiped, swapped, faultVars>>

\* cmd_cheque_execute() and the confirmation: the user is asked for the PIN.
Confirm ==
  /\ draft # 0 /\ ~armed
  /\ armed' = TRUE
  /\ UNCHANGED <<begun, draft, xdr, sealed, pressVars, ledger, funded, rowVars, status,
                 history, clickVars, workerVars, payVars, late, resendVars, raceVars, faultVars>>

\* clear_state() in the conversation of u: the data of the cheque are gone.
Forget(u) ==
  IF u = Creator
  THEN draft' = 0 /\ xdr' = NoTx /\ sealed' = FALSE /\ armed' = FALSE
         /\ wiped' = (wiped \/ InProgress # {})
  ELSE UNCHANGED <<draft, xdr, sealed, armed, wiped>>

\* Any other command of u begins with clear_state().
Clear(u) ==
  /\ u \in shown \/ (u = Creator /\ draft # 0)
  /\ Forget(u)
  /\ shown' = shown \ {u}
  /\ UNCHANGED <<begun, pressVars, ledger, funded, rowVars, status, history, queue, clicks,
                 workerVars, payVars, late, resendVars, changed, swapped, faultVars>>

\* sign_xdr() reads the FSM data and the FSM state ...
Press(p) ==
  /\ ppc[p] = "new"
  /\ armed
  /\ ppc' = [ppc EXCEPT ![p] = "sign"]
  /\ ptx' = [ptx EXCEPT ![p] = xdr]
  /\ swapped' = (swapped \/ xdr = ClaimTx)
  /\ UNCHANGED <<fsmVars, pcount, ledger, funded, rowVars, status, history, clickVars,
                 workerVars, payVars, late, resendVars, changed, wiped, faultVars>>

\* ... resets the state, and writes the signed payment back.
Sign(p) ==
  /\ ppc[p] = "sign"
  /\ armed' = FALSE
  /\ xdr' = ptx[p] /\ sealed' = TRUE
  /\ Goto(p, "submit")
  /\ UNCHANGED <<begun, draft, ledger, funded, rowVars, status, history, clickVars,
                 workerVars, payVars, late, resendVars, raceVars, faultVars>>

\* A payment with the next sequence number is applied; one that was applied before,
\* as that of a claim, is confirmed again.
Applies(t) ==
  \/ t \in ledger \cup {ClaimTx} /\ UNCHANGED <<ledger, funded>>
  \/ /\ t \in Txs \ ledger /\ t.after = Cardinality(ledger)
     /\ ledger' = ledger \cup {t}
     /\ funded' = funded + t.count

\* Mutant: the cheque is written whatever the answer.
SubmitUnchecked(p) ==
  /\ ppc[p] = "submit"
  /\ Goto(p, "read")
  /\ UNCHANGED <<fsmVars, ledger, funded, rowVars, status, history,
                 clickVars, workerVars, payVars, late, resendVars, raceVars, faultVars>>

\* Mutant: fsm_after_send() is not called.
SubmitOnly(p) ==
  /\ ppc[p] = "submit"
  /\ Applies(ptx[p])
  /\ Finish(p)
  /\ UNCHANGED <<fsmVars, rowVars, status, history, clickVars, workerVars, payVars, late,
                 resendVars, raceVars, faultVars>>

\* The network confirms, refuses, or applies the payment and the answer is lost.  A
\* refusal comes with the button "ReSend", a timeout without it.
Submit(p) ==
  /\ ppc[p] = "submit"
  /\ \/ Applies(ptx[p]) /\ Goto(p, "read") /\ UNCHANGED <<offered, lost, faults>>
     \/ Finish(p) /\ offered' = TRUE /\ UNCHANGED <<ledger, funded, lost, faults>>
     \/ /\ Applies(ptx[p]) /\ Finish(p) /\ Fault
        /\ lost' = TRUE /\ offered' \in {offered, TRUE}
  /\ UNCHANGED <<fsmVars, rowVars, status, history, clickVars, workerVars, payVars, late,
                 again, resent, raceVars, failed>>

\* cmd_resend() reads the payment of the moment; a press may reach the bot after its
\* message was replaced.  One that is missing or not signed is refused and offered again.
ReSend ==
  /\ offered /\ again = NoTx
  /\ sealed /\ xdr \in Txs
  /\ again' = xdr
  /\ UNCHANGED <<fsmVars, pressVars, ledger, funded, rowVars, status, history, clickVars,
                 workerVars, payVars, late, offered, resent, raceVars, faultVars>>

\* It submits the payment and does not call fsm_after_send(); after an error the button
\* is there again.
ReSubmit ==
  /\ again # NoTx
  /\ again' = NoTx
  /\ Applies(again) \/ UNCHANGED <<ledger, funded>>
  /\ resent' = resent \cup (ledger' \ ledger)
  /\ UNCHANGED <<fsmVars, pressVars, rowVars, status, history, clickVars, workerVars,
                 payVars, late, offered, raceVars, faultVars>>

\* cheque_after_send() reads the FSM data.  Without them it writes a cheque with
\* an empty uuid, which is none of this cheque.
ReadData(p) ==
  /\ ppc[p] = "read"
  /\ \/ draft = 0 /\ Finish(p)
     \/ /\ draft # 0
        /\ ppc' = [ppc EXCEPT ![p] = "lookup"]
        /\ pcount' = [pcount EXCEPT ![p] = draft]
        /\ UNCHANGED ptx
  /\ UNCHANGED <<fsmVars, ledger, funded, rowVars, status, history, clickVars,
                 workerVars, payVars, late, resendVars, raceVars, faultVars>>

\* get_by_uuid() raises if there are two rows.
Lookup(p) ==
  /\ ppc[p] = "lookup"
  /\ IF rows = 0 THEN Goto(p, "create") ELSE Finish(p)
  /\ UNCHANGED <<fsmVars, ledger, funded, rowVars, status, history,
                 clickVars, workerVars, payVars, late, resendVars, raceVars, faultVars>>

Create(p) ==
  /\ ppc[p] = "create"
  /\ Finish(p)
  /\ rows' = rows + 1
  /\ count' = IF rows = 0 THEN pcount[p] ELSE count
  /\ UNCHANGED <<fsmVars, ledger, funded, status, history, clickVars,
                 workerVars, payVars, late, resendVars, raceVars, faultVars>>

PressFails(p) ==
  /\ ppc[p] \in {"read", "lookup", "create"}
  /\ Finish(p)
  /\ Fault
  /\ lost' = TRUE
  /\ UNCHANGED <<fsmVars, ledger, funded, rowVars, status, history,
                 clickVars, workerVars, payVars, late, resendVars, raceVars, failed>>

-----------------------------------------------------------------------------
(* The buttons *)

Remaining == count - Cardinality(history)

\* /start cheque_<uuid> begins with clear_state(), and shows the button while the
\* cheque can be cashed.
Open(u) ==
  /\ rows = 1 /\ status = "CHEQUE"
  /\ u \notin history
  /\ Cardinality(history) < count
  /\ Forget(u)
  /\ shown' = shown \cup {u}
  /\ UNCHANGED <<begun, pressVars, ledger, funded, rowVars, status, history, queue, clicks,
                 workerVars, payVars, late, resendVars, changed, swapped, faultVars>>

Put(item) ==
  /\ clicks < MaxClicks
  /\ clicks' = clicks + 1
  /\ queue' = Append(queue, item)
  /\ UNCHANGED <<fsmVars, pressVars, ledger, funded, rowVars, status, history, shown,
                 workerVars, payVars, late, resendVars, raceVars, faultVars>>

\* cmd_cheque_yes() checks nothing.
Cash(u) ==
  /\ u \in shown
  /\ Put([user |-> u, cancel |-> FALSE])

CancelCheque ==
  /\ rows = 1 /\ status = "CHEQUE"
  /\ count > Cardinality(history)
  /\ Put([user |-> Creator, cancel |-> TRUE])

-----------------------------------------------------------------------------
(* cheque_worker(): one item at a time *)

Proceed(stage) == wpc' = stage /\ UNCHANGED job

Rest == wpc' = "idle" /\ job' = NoItem

\* Mutant: the receipts of the user are not counted.
ClaimableAgain(u) == rows = 1 /\ Cardinality(history) < count

\* ClaimCheque does not look at the status.
Claimable(u) ==
  /\ rows = 1
  /\ Cardinality(history) < count
  /\ u \notin history

Cancelable == rows = 1 /\ status = "CHEQUE" /\ Remaining > 0

\* An item that fails its checks is answered with an error.
Take ==
  /\ wpc = "idle" /\ queue # <<>>
  /\ queue' = Tail(queue)
  /\ LET item == Head(queue)
     IN  \/ /\ item.cancel /\ Cancelable
            /\ wpc' = "cancel" /\ job' = item /\ UNCHANGED late
         \/ /\ ~item.cancel /\ Claimable(item.user)
            /\ wpc' = "record" /\ job' = item
            /\ late' = IF status = "CANCELED" THEN late \cup {item.user} ELSE late
         \/ /\ IF item.cancel THEN ~Cancelable ELSE ~Claimable(item.user)
            /\ UNCHANGED <<workerVars, late>>
  /\ UNCHANGED <<fsmVars, pressVars, ledger, funded, rowVars, status, history, shown,
                 clicks, payVars, resendVars, raceVars, faultVars>>

\* add_history() commits, and with it the new wallet of a newcomer.
Record ==
  /\ wpc = "record"
  /\ history' = history \cup {job.user}
  /\ Proceed("build")
  /\ UNCHANGED <<fsmVars, pressVars, ledger, funded, rowVars, status, clickVars, payVars,
                 late, resendVars, raceVars, faultVars>>

\* The payment that the worker has built goes to the FSM data of the claimant,
\* whatever conversation is going on there.
Stored(u) == xdr' = IF u = Creator THEN ClaimTx ELSE xdr

\* The key of a new wallet is stored as it was generated, and decrypt() finds
\* nothing in it: the use case returns an error.
Build ==
  /\ wpc = "build"
  /\ IF job.user \in Newcomers
     THEN Rest /\ UNCHANGED xdr
     ELSE Proceed("pay") /\ Stored(job.user)
  /\ UNCHANGED <<begun, draft, sealed, armed, pressVars, ledger, funded, rowVars, status,
                 history, clickVars, payVars, late, resendVars, raceVars, faultVars>>

\* The worker pays the creator's claim of another cheque.
ClaimElsewhere ==
  /\ wpc = "idle" /\ draft # 0
  /\ Stored(Creator)
  /\ UNCHANGED <<begun, draft, sealed, armed, pressVars, ledger, funded, rowVars, status,
                 history, clickVars, workerVars, payVars, late, resendVars, raceVars, faultVars>>

\* The transaction of a user with a wallet comes from the escrow account; the
\* master key signs it if the two are the same.
Signed(u) == OneKey /\ u \notin Newcomers

\* Mutant: a claim that the network refuses is closed like one that was paid.
PayOrNot ==
  /\ wpc = "pay"
  /\ Rest
  /\ UNCHANGED <<fsmVars, pressVars, ledger, funded, rowVars, status, history, clickVars,
                 payVars, late, resendVars, raceVars, faultVars>>

Pay ==
  /\ wpc = "pay"
  /\ paid' = IF Signed(job.user) THEN [paid EXCEPT ![job.user] = @ + 1] ELSE paid
  /\ Rest
  /\ UNCHANGED <<fsmVars, pressVars, ledger, funded, rowVars, status, history, clickVars,
                 refunded, late, resendVars, raceVars, faultVars>>

\* cancel() commits before the refund is built, and raises if there are two rows.
CancelRow ==
  /\ wpc = "cancel"
  /\ IF rows = 1
     THEN status' = "CANCELED" /\ Proceed("refund")
     ELSE UNCHANGED status /\ Rest
  /\ UNCHANGED <<fsmVars, pressVars, ledger, funded, rowVars, history, clickVars, payVars,
                 late, resendVars, raceVars, faultVars>>

\* Mutant: the whole cheque is refunded.
RefundAll ==
  /\ wpc = "refund"
  /\ refunded' = refunded + count
  /\ Rest
  /\ UNCHANGED <<fsmVars, pressVars, ledger, funded, rowVars, status, history, clickVars,
                 paid, late, resendVars, raceVars, faultVars>>

Refund ==
  /\ wpc = "refund"
  /\ refunded' = refunded + Remaining
  /\ Rest
  /\ UNCHANGED <<fsmVars, pressVars, ledger, funded, rowVars, status, history, clickVars,
                 paid, late, resendVars, raceVars, faultVars>>

\* An exception is logged and the item is gone; the network may have applied the
\* transaction all the same.
WorkerFails ==
  /\ wpc \in Working
  /\ Fault
  /\ Rest
  /\ failed' = IF wpc \in {"record", "cancel"} THEN failed ELSE failed \cup {job}
  /\ \/ UNCHANGED payVars
     \/ /\ wpc = "pay" /\ Signed(job.user)
        /\ paid' = [paid EXCEPT ![job.user] = @ + 1]
        /\ UNCHANGED refunded
     \/ /\ wpc = "refund"
        /\ refunded' = refunded + Remaining
        /\ UNCHANGED paid
  /\ UNCHANGED <<fsmVars, pressVars, ledger, funded, rowVars, status, history, clickVars,
                 late, resendVars, raceVars, lost>>

\* A restart: the queue and the coroutines are gone, the FSM data and the database
\* stay.
Restart ==
  /\ Fault
  /\ queue' = <<>>
  /\ Rest
  /\ failed' = IF wpc \in {"build", "pay", "refund"} THEN failed \cup {job} ELSE failed
  /\ ppc' = [p \in Presses |-> IF ppc[p] \in Running THEN "done" ELSE ppc[p]]
  /\ ptx' = [p \in Presses |-> NoTx] /\ pcount' = [p \in Presses |-> 0]
  /\ lost' = (lost \/ InProgress # {}) /\ again' = NoTx
  /\ UNCHANGED <<fsmVars, ledger, funded, rowVars, status, history, shown, clicks, payVars,
                 late, offered, resent, raceVars>>

-----------------------------------------------------------------------------
WorkerStep == Take \/ Record \/ Build \/ Pay \/ CancelRow \/ Refund

Next ==
  \/ (\E n \in 1..MaxCount : EnterCount(n)) \/ Confirm
  \/ \E p \in Presses : \/ Press(p) \/ Sign(p) \/ Submit(p) \/ ReadData(p)
                        \/ Lookup(p) \/ Create(p) \/ PressFails(p)
  \/ ReSend \/ ReSubmit
  \/ (\E u \in Users : Open(u) \/ Cash(u) \/ Clear(u)) \/ CancelCheque
  \/ WorkerStep \/ ClaimElsewhere \/ WorkerFails \/ Restart

Spec == Init /\ [][Next]_vars

-----------------------------------------------------------------------------
\* However often a user presses "Cash", and whatever fails, at most one share of
\* the cheque is paid to that user.
OneShareEach == \A u \in Users : paid[u] <= 1

\* Shares and refund together never exceed the cheque, except for claims that the
\* worker took after the cancellation.
NeverOverdrawn ==
  Cardinality({u \in Users \ late : paid[u] > 0}) + refunded <= count

\* The cheque promises no more than was paid into the escrow account, unless the
\* count was changed while the payment was being sent, or the worker put the payment
\* of a claim in its place.
ChequeIsFunded == rows > 0 => count <= funded \/ changed \/ swapped

\* Money in the escrow account has its cheque when no confirmation is running, unless
\* one of them failed, clear_state() took the data of the cheque, or the money went there
\* by the button "ReSend".
PaidHasCheque == ledger \ resent # {} /\ InProgress = {} => rows > 0 \/ wiped \/ lost

\* A receipt without a payment, and a cancellation without a refund, come from a
\* failure after the commit or from a transaction that the bot cannot sign.
CommitsAreHonoured ==
  /\ \A u \in history :
       paid[u] = 0 /\ Signed(u) =>
         \/ [user |-> u, cancel |-> FALSE] \in failed
         \/ job.user = u /\ wpc \in {"build", "pay"}
  /\ status = "CANCELED" /\ refunded = 0 =>
       [user |-> Creator, cancel |-> TRUE] \in failed \/ wpc = "refund"

\* "Cheque not found. It may have been cashed or cancelled": nobody is paid from a
\* cheque that was cancelled before the worker took the claim.
CanceledNotPaid == \A u \in late : paid[u] = 0

=============================================================================
