------------------------------ MODULE Deposits ------------------------------
(***************************************************************************)
(* The exchange of USDT against USDM for one user.  A deposit arrives on a *)
(* TRON account of the user, "Check" pays the same sum in USDM, and a      *)
(* sweep moves what the account holds to the bot.  A withdrawal is a       *)
(* payment in USDM, which more than one confirmation or the button         *)
(* "ReSend" may submit, and then the bot sends USDT to the user's address; *)
(* if that fails, another "Check" tries again.  All of it meets at         *)
(* new_wallet_lock, the row of the user, and the FSM data.                 *)
(***************************************************************************)
EXTENDS Integers, FiniteSets, TLC

CONSTANTS
  Handlers,     \* coroutines: a button, the end of sign_xdr(), a command or usdt_worker()
  None,
  Sums,         \* amounts of a deposit or a withdrawal
  Minimum,      \* min_usdt_sum
  Limit,        \* max_usdt_sum
  MaxMoved,     \* bound: sum of all deposits and number of withdrawals together
  MaxCauses,    \* bound: kinds of exception from the properties in one behaviour
  MaxFaults     \* bound: failures outside of the bot

ASSUME DepositsAssumption ==
  /\ None \notin Handlers /\ Sums \subseteq Nat \ {0} /\ 0 \notin {Minimum, Limit}
  /\ {Minimum, Limit, MaxMoved, MaxCauses, MaxFaults} \subseteq Nat

VARIABLES
  chain,     \* USDT on the account
  row,       \* usdt_amount in the database
  lock,      \* the owner of new_wallet_lock
  at,        \* where each handler is
  read,      \* the row it has read
  full,      \* the balance it has read; in a payout: the sum
  recent,    \* check_time is less than ten seconds ago
  out,       \* out_pay_usdt
  sum,       \* usdt_sum; 0 without a withdrawal
  tx,        \* the payment in the FSM data
  ready,     \* FSM state sign_and_send, with fsm_after_send: it is to be confirmed
  own,       \* the payment that a handler submits
  offered,   \* was the user shown the button "ReSend"?
  ledger,    \* the USDM payments that the network accepted
  deposited, \* history: sum of the deposits
  credited,  \* history: sum of what was paid for them
  paid,      \* history: their number, by sum
  sent,      \* history: the USDT payouts, by sum
  missed,    \* history: "USDT account balance unchanged" was said while the account held a
             \* deposit that nobody has paid for
  causes,    \* history: why more or less may be paid than was received
  faults

wallet == <<chain, row, read, deposited, credited, missed>>
payment == <<tx, ready, own, offered, ledger, paid>>
money == <<out, sum, payment, sent>>
vars == <<wallet, money, lock, at, full, recent, causes, faults>>

SweepStages == {"sweep_look", "sweep_send", "sweep_update"}

\* pay_sign: sign_xdr() has read the FSM data and state; pay_submit: it has reset the state
\* and signed.
ConfirmStages == {"pay_sign", "pay_submit"}

PayoutStages == ConfirmStages \cup {"pay_after", "pay_mark", "pay_wait", "pay_send"}

Stages ==
  {"idle", "resend", "check_mark", "check_wait", "check_look", "check_record", "check_pay"}
  \cup SweepStages \cup PayoutStages

Causes == {"sweeps", "cleared", "crossed", "twice", "doubt", "lost", "resent"}

\* A payment; after: its sequence number.
Payments == [sum : Sums, after : Nat]

Init ==
  /\ chain = 0 /\ row = 0 /\ lock = None /\ recent = FALSE
  /\ at = [h \in Handlers |-> "idle"]
  /\ read = [h \in Handlers |-> 0] /\ full = [h \in Handlers |-> 0]
  /\ out = FALSE /\ sum = 0
  /\ tx = None /\ ready = FALSE /\ own = [h \in Handlers |-> None] /\ offered = FALSE
  /\ ledger = {}
  /\ deposited = 0 /\ credited = 0 /\ missed = FALSE
  /\ paid = [s \in Sums |-> 0] /\ sent = [s \in Sums |-> 0]
  /\ causes = {} /\ faults = 0

-----------------------------------------------------------------------------
Go(h, from, to) == at[h] = from /\ at' = [at EXCEPT ![h] = to]

\* What the handler has read is forgotten when it ends.
Forget(h) == read' = [read EXCEPT ![h] = 0] /\ full' = [full EXCEPT ![h] = 0]

Acquire(h) == lock = None /\ lock' = h

Release == lock' = None

\* A failure outside of the bot, or a restart of it.
Fault == faults < MaxFaults /\ faults' = faults + 1

Because(c, holds) ==
  /\ causes' = IF holds THEN causes \cup {c} ELSE causes
  /\ Cardinality(causes') <= MaxCauses

Deposit(n) ==
  /\ deposited + n + Cardinality(ledger) <= MaxMoved
  /\ chain' = chain + n /\ deposited' = deposited + n
  /\ UNCHANGED <<row, read, credited, missed, money, lock, at, full, recent, causes, faults>>

\* Ten seconds pass.
TimePasses ==
  /\ recent /\ recent' = FALSE
  /\ UNCHANGED <<wallet, money, lock, at, full, causes, faults>>

\* clear_state()
Clear ==
  /\ recent' = FALSE /\ out' = FALSE /\ sum' = 0 /\ tx' = None /\ ready' = FALSE
  /\ Because("cleared", out \/ \E h \in Handlers : at[h] \in PayoutStages)
  /\ UNCHANGED <<wallet, lock, at, full, own, offered, ledger, paid, sent, faults>>

-----------------------------------------------------------------------------
(* USDT_CHECK *)

\* A button within ten seconds gets an answer only; the data are read, and then written.
StartCheck(h) ==
  /\ ~recent /\ Go(h, "idle", "check_mark")
  /\ UNCHANGED <<wallet, money, lock, full, recent, causes, faults>>

\* Without a trust line to USDM the handler ends.
MarkCheck(h) ==
  /\ Go(h, "check_mark", "check_wait") \/ Go(h, "check_mark", "idle")
  /\ recent' = TRUE
  /\ UNCHANGED <<wallet, money, lock, full, causes, faults>>

LockCheck(h) ==
  /\ Go(h, "check_wait", "check_look")
  /\ Acquire(h)
  /\ read' = [read EXCEPT ![h] = row]
  /\ UNCHANGED <<chain, row, deposited, credited, missed, money, full, recent, causes, faults>>

\* Less than the minimum; more than the limit, or than the bot has, or not confirmed, or
\* an exception; or all is good.  The bound: nothing more is found once more was paid than
\* deposited.
Look(h) ==
  LET income == chain - read[h]
  IN  /\ at[h] = "check_look"
      /\ \/ /\ income < Minimum
            /\ missed' = (missed \/ deposited - credited \in Minimum..chain)
            /\ Go(h, "check_look", "idle") /\ Release /\ Forget(h)
         \/ Go(h, "check_look", "idle") /\ Release /\ Forget(h) /\ UNCHANGED missed
         \/ /\ Minimum <= income /\ income <= Limit + Minimum /\ credited <= MaxMoved
            /\ Go(h, "check_look", "check_record")
            /\ full' = [full EXCEPT ![h] = chain]
            /\ UNCHANGED <<lock, read, missed>>
      /\ UNCHANGED <<chain, row, deposited, credited, money, recent, causes, faults>>

\* Mutant: the deposit is recorded after the payment, if that succeeds.
RecordNothing(h) ==
  /\ Go(h, "check_record", "check_pay")
  /\ UNCHANGED <<wallet, money, lock, full, recent, causes, faults>>

\* update_usdt_balance() adds the whole balance to the row.
Record(h) ==
  /\ Go(h, "check_record", "check_pay")
  /\ row' = row + full[h]
  /\ UNCHANGED <<chain, read, deposited, credited, missed, money, lock, full, recent, causes,
                 faults>>

\* The payment, which may fail.
PayIn(h) ==
  /\ Go(h, "check_pay", "idle")
  /\ \/ credited' = credited + full[h] - read[h] /\ UNCHANGED faults
     \/ Fault /\ UNCHANGED credited
  /\ Release /\ Forget(h)
  /\ UNCHANGED <<chain, row, deposited, missed, money, recent, causes>>

-----------------------------------------------------------------------------
(* process_usdt_wallet(), for /usdt, /usdt1 and usdt_worker() *)

StartSweep(h) ==
  /\ row > 0 /\ Go(h, "idle", "sweep_look")
  /\ read' = [read EXCEPT ![h] = row]
  /\ Because("sweeps", \E g \in Handlers : at[g] \in SweepStages)
  /\ UNCHANGED <<chain, row, deposited, credited, missed, money, lock, full, recent, faults>>

\* TRX and energy are provided, and the balance is read; without either the sweep ends.
LookForSweep(h) ==
  /\ \/ chain > 0 /\ Go(h, "sweep_look", "sweep_send") /\ full' = [full EXCEPT ![h] = chain]
        /\ UNCHANGED read
     \/ Go(h, "sweep_look", "idle") /\ Forget(h)
  /\ UNCHANGED <<chain, row, deposited, credited, missed, money, lock, recent, causes, faults>>

\* The transfer succeeds, fails, or succeeds without an answer.
SendSweep(h) ==
  /\ \/ /\ chain >= full[h] /\ chain' = chain - full[h]
        /\ Go(h, "sweep_send", "sweep_update") /\ UNCHANGED <<read, full, faults>>
     \/ /\ chain >= full[h] /\ Fault /\ chain' = chain - full[h]
        /\ Go(h, "sweep_send", "idle") /\ Forget(h)
     \/ /\ Go(h, "sweep_send", "idle") /\ Forget(h)
        /\ UNCHANGED <<chain, faults>>
  /\ UNCHANGED <<row, deposited, credited, missed, money, lock, recent, causes>>

\* The row is read again, and what was read at first is subtracted.
UpdateSweep(h) ==
  /\ lock = None /\ Go(h, "sweep_update", "idle")
  /\ row' = row - read[h] /\ Forget(h)
  /\ UNCHANGED <<chain, deposited, credited, missed, money, lock, recent, causes, faults>>

-----------------------------------------------------------------------------
(* USDT_OUT *)

\* The conversation, which begins with clear_state(), up to the confirmation; the payment
\* takes the sequence number that the account has now.
Prepare(s) ==
  /\ deposited + Cardinality(ledger) < MaxMoved
  /\ recent' = FALSE /\ out' = FALSE /\ sum' = s
  /\ tx' = [sum |-> s, after |-> Cardinality(ledger)] /\ ready' = TRUE
  /\ causes' = causes \cup {c \in {"cleared"} : out}
                      \cup {c \in {"crossed"} : \E h \in Handlers : at[h] \in PayoutStages}
  /\ Cardinality(causes') <= MaxCauses
  /\ UNCHANGED <<wallet, lock, at, full, own, offered, ledger, paid, sent, faults>>

\* sign_xdr() reads the FSM data and the state, which a second confirmation may read too ...
Confirm(h) ==
  /\ ready /\ Go(h, "idle", "pay_sign")
  /\ own' = [own EXCEPT ![h] = tx]
  /\ Because("twice", \E g \in Handlers : at[g] = "pay_sign")
  /\ UNCHANGED <<wallet, lock, full, recent, out, sum, tx, ready, offered, ledger, paid, sent,
                 faults>>

\* ... resets the state, and writes the signed payment back.
Sign(h) ==
  /\ Go(h, "pay_sign", "pay_submit")
  /\ ready' = FALSE /\ tx' = own[h]
  /\ UNCHANGED <<wallet, lock, full, recent, out, sum, own, offered, ledger, paid, sent, causes,
                 faults>>

\* A payment with the next sequence number is applied; one that was applied before is
\* confirmed again.
Applies(t) ==
  \/ t \in ledger /\ UNCHANGED <<ledger, paid>>
  \/ /\ t \notin ledger /\ t.after = Cardinality(ledger)
     /\ ledger' = ledger \cup {t}
     /\ paid' = [paid EXCEPT ![t.sum] = @ + 1]

\* The payment is accepted, and cmd_after_send_usdt() follows; or refused, with the button
\* "ReSend"; or accepted without an answer.
Submit(h) ==
  /\ own' = [own EXCEPT ![h] = None]
  /\ \/ /\ Go(h, "pay_submit", "pay_after") /\ Applies(own[h])
        /\ UNCHANGED <<offered, causes, faults>>
     \/ /\ Go(h, "pay_submit", "idle") /\ offered' = TRUE
        /\ UNCHANGED <<ledger, paid, causes, faults>>
     \/ /\ Go(h, "pay_submit", "idle") /\ Applies(own[h])
        /\ Fault /\ Because("lost", TRUE) /\ offered' \in {offered, TRUE}
  /\ UNCHANGED <<wallet, lock, full, recent, out, sum, tx, ready, sent>>

\* cmd_resend() reads the payment of the moment; a press may reach the bot after its message
\* was replaced, and one that is not signed is refused.
ReSend(h) ==
  /\ offered /\ tx \in Payments /\ ~ready
  /\ Go(h, "idle", "resend")
  /\ own' = [own EXCEPT ![h] = tx]
  /\ UNCHANGED <<wallet, lock, full, recent, out, sum, tx, ready, offered, ledger, paid, sent,
                 causes, faults>>

\* It submits the payment, and does not call fsm_after_send().
ReSubmit(h) ==
  /\ Go(h, "resend", "idle")
  /\ own' = [own EXCEPT ![h] = None]
  /\ Applies(own[h]) \/ UNCHANGED <<ledger, paid>>
  /\ Because("resent", ledger' # ledger)
  /\ UNCHANGED <<wallet, lock, full, recent, out, sum, tx, ready, offered, sent, faults>>

\* cmd_after_send_usdt() sets the flag, and did so before if it was called twice.
AfterSend(h) ==
  /\ Go(h, "pay_after", "pay_mark")
  /\ out' = TRUE
  /\ UNCHANGED <<wallet, lock, full, recent, sum, payment, sent, causes, faults>>

\* USDT_OUT_CHECK
StartOutCheck(h) ==
  /\ ~recent /\ Go(h, "idle", "pay_mark")
  /\ UNCHANGED <<wallet, money, lock, full, recent, causes, faults>>

\* cmd_after_send_usdt_task()
MarkPayout(h) ==
  /\ Go(h, "pay_mark", "pay_wait")
  /\ recent' = TRUE
  /\ UNCHANGED <<wallet, money, lock, full, causes, faults>>

\* Mutant: the flag is not looked at again.
LockPayoutAlways(h) ==
  /\ Go(h, "pay_wait", "pay_send") /\ Acquire(h)
  /\ full' = [full EXCEPT ![h] = sum]
  /\ UNCHANGED <<wallet, money, recent, causes, faults>>

\* With the lock the data are read; without a payout there is nothing to do.
LockPayout(h) ==
  /\ \/ out /\ Go(h, "pay_wait", "pay_send") /\ Acquire(h) /\ full' = [full EXCEPT ![h] = sum]
     \/ ~out /\ lock = None /\ Go(h, "pay_wait", "idle") /\ UNCHANGED <<lock, full>>
  /\ UNCHANGED <<wallet, money, recent, causes, faults>>

\* Mutant: a payout that fails is forgotten.
SendPayoutOnce(h) ==
  /\ Go(h, "pay_send", "idle") /\ Release /\ Forget(h)
  /\ out' = FALSE
  /\ \/ sent' = [s \in Sums |-> sent[s] + IF s = full[h] THEN 1 ELSE 0]
        /\ UNCHANGED <<causes, faults>>
     \/ Fault /\ UNCHANGED <<sent, causes>>
  /\ UNCHANGED <<chain, row, deposited, credited, missed, sum, payment, recent>>

\* send_usdt_async() succeeds, fails, or sends without an answer; when clear_state() took
\* the sum and the address it raises an exception.
SendPayout(h) ==
  /\ Go(h, "pay_send", "idle") /\ Release /\ Forget(h)
  /\ \/ /\ full[h] # 0 /\ out' = FALSE
        /\ sent' = [s \in Sums |-> sent[s] + IF s = full[h] THEN 1 ELSE 0]
        /\ UNCHANGED <<causes, faults>>
     \/ full[h] = 0 /\ UNCHANGED <<out, sent, causes, faults>>
     \/ Fault /\ UNCHANGED <<out, sent, causes>>
     \/ /\ full[h] # 0 /\ Fault /\ Because("doubt", TRUE)
        /\ sent' = [s \in Sums |-> sent[s] + IF s = full[h] THEN 1 ELSE 0]
        /\ UNCHANGED out
  /\ UNCHANGED <<chain, row, deposited, credited, missed, sum, payment, recent>>

\* The process ends: the lock and the handlers are gone, the data and the rows stay.
Restart ==
  /\ \E h \in Handlers : at[h] # "idle"
  /\ Fault
  /\ lock' = None /\ at' = [h \in Handlers |-> "idle"]
  /\ read' = [h \in Handlers |-> 0] /\ full' = [h \in Handlers |-> 0]
  /\ Because("lost", \E h \in Handlers : at[h] = "pay_after")
  /\ own' = [h \in Handlers |-> None]
  /\ UNCHANGED <<chain, row, deposited, credited, missed, out, sum, tx, ready, offered, ledger,
                 paid, sent, recent>>

Next ==
  \/ TimePasses \/ Clear \/ Restart
  \/ \E n \in Sums : Deposit(n) \/ Prepare(n)
  \/ \E h \in Handlers :
       \/ StartCheck(h) \/ MarkCheck(h) \/ LockCheck(h) \/ Look(h) \/ Record(h) \/ PayIn(h)
       \/ StartSweep(h) \/ LookForSweep(h) \/ SendSweep(h) \/ UpdateSweep(h)
       \/ Confirm(h) \/ Sign(h) \/ Submit(h) \/ ReSend(h) \/ ReSubmit(h) \/ AfterSend(h)
       \/ StartOutCheck(h) \/ MarkPayout(h) \/ LockPayout(h) \/ SendPayout(h)

Spec == Init /\ [][Next]_vars

-----------------------------------------------------------------------------
\* The user never gets more USDM than USDT was deposited, whatever the checks read before a
\* sweep and whatever fails, unless two sweeps overlap: both subtract what they have read.
NeverOverpaid == "sweeps" \in causes \/ credited <= deposited

\* USDT is sent for a payment of that sum, once, by whichever handler gets the lock first,
\* unless a payout was sent without an answer, another withdrawal was prepared during the
\* first, or a second confirmation read the FSM state before the first had reset it: each of
\* the two then sets the flag.
SentWasPaid ==
  causes \cap {"doubt", "crossed", "twice"} # {} \/ \A s \in Sums : sent[s] <= paid[s]

\* A payment of a sum is sent, or is on its way to the flag in the FSM data, or can be asked
\* for again with "Check", also after a failure and after a restart, unless clear_state() or
\* another withdrawal took the flag, the end of the submission was lost, or the payment was
\* sent with the button "ReSend".
Promised(s) == sum = s /\ (out \/ \E h \in Handlers : at[h] = "pay_after")

PaidIsSent ==
  \/ causes \cap {"cleared", "crossed", "lost", "resent"} # {}
  \/ \A s \in Sums : paid[s] <= sent[s] + IF Promised(s) THEN 1 ELSE 0

\* "USDT account balance unchanged" (inout.py:260) is said only when the account does not
\* hold a deposit of at least the minimum that nobody has paid for.
UnchangedIsTrue == ~missed

=============================================================================
