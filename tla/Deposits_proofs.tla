---------------------------- MODULE Deposits_proofs ----------------------------
(***************************************************************************)
(* What Deposits promises, for any number of handlers, sums, deposits,     *)
(* withdrawals and failures.                                               *)
(***************************************************************************)
EXTENDS Deposits, FiniteSetTheorems, TLAPS

TypeInv ==
  /\ chain \in Nat /\ deposited \in Nat /\ row \in Int /\ credited \in Int
  /\ lock \in Handlers \cup {None}
  /\ at \in [Handlers -> Stages]
  /\ read \in [Handlers -> Int] /\ full \in [Handlers -> Nat]
  /\ out \in BOOLEAN /\ ready \in BOOLEAN /\ sum \in Sums \cup {0}
  /\ tx \in Payments \cup {None} /\ own \in [Handlers -> Payments \cup {None}]
  /\ offered \in BOOLEAN /\ ledger \subseteq Payments /\ IsFiniteSet(ledger)
  /\ paid \in [Sums -> Nat] /\ sent \in [Sums -> Nat]

\* The stages under new_wallet_lock.
Locked == {"check_look", "check_record", "check_pay", "pay_send"}

LockInv == \A h \in Handlers : at[h] \in Locked => lock = h

-----------------------------------------------------------------------------
\* To have paid c is covered: by what was deposited, and what is on the account and was
\* paid for is in the row, also when the sweep that is under way ends.
Covered(c) ==
  /\ c <= deposited
  /\ c + chain <= deposited + row
  /\ \A h \in Handlers :
       /\ at[h] = "sweep_send" => c + chain <= deposited + row - read[h] + full[h]
       /\ at[h] = "sweep_update" => c + chain <= deposited + row - read[h]

\* One sweep at a time, and the row covers what was paid and what a check is about to pay.
MoneyInv ==
  "sweeps" \in causes \/
    /\ row >= 0 /\ \A h \in Handlers : read[h] >= 0
    /\ \A g, h \in Handlers : at[g] \in SweepStages /\ at[h] \in SweepStages => g = h
    /\ Covered(credited)
    /\ \A h \in Handlers :
         /\ at[h] \in SweepStages => read[h] <= row
         /\ at[h] \in {"check_look", "check_record"} => read[h] = row
         /\ at[h] = "check_record" => credited + full[h] - read[h] <= deposited
         /\ at[h] = "check_pay" => Covered(credited + full[h] - read[h])

-----------------------------------------------------------------------------
\* Whoever submits a payment has one, and what was applied has an older sequence number than
\* the account has now.
OwnInv ==
  /\ ready => tx \in Payments /\ tx.sum = sum
  /\ \A h \in Handlers : at[h] \in ConfirmStages \cup {"resend"} => own[h] \in Payments
  /\ \A t \in ledger : t.after < Cardinality(ledger)

-----------------------------------------------------------------------------
Confirms(h) == at[h] \in ConfirmStages

\* A submission, or the call that sets the flag: there is one, before the flag and before the
\* payout.
Follows(h) == at[h] \in ConfirmStages \cup {"pay_after"}

\* A sum was paid more often than it was sent.
Owed(s) == sent[s] < paid[s]

\* The payment in the FSM data, the submission of it, the call that sets the flag, the flag
\* and the payout that clears it follow each other, and each stands for a payment that was
\* not sent, as soon as there is one.
PayoutInv ==
  causes \cap {"doubt", "crossed", "twice"} # {} \/
    /\ \A s \in Sums : sent[s] <= paid[s]
    /\ ready => ~out
    /\ ready => sum # 0
    /\ ready => \A h \in Handlers : at[h] \notin {"pay_submit", "pay_after", "pay_send"}
    /\ ready /\ tx \in ledger => Owed(tx.sum)
    /\ \A h \in Handlers : Follows(h) => ~out
    /\ \A g, h \in Handlers : Follows(h) => at[g] # "pay_send"
    /\ \A g, h \in Handlers : Follows(g) /\ Follows(h) => g = h
    /\ \A h \in Handlers : Confirms(h) => sum \in {0, own[h].sum}
    /\ \A h \in Handlers : Confirms(h) /\ own[h] \in ledger => Owed(own[h].sum)
    /\ out /\ sum # 0 => Owed(sum)
    /\ \A h \in Handlers : at[h] = "pay_after" /\ sum # 0 => Owed(sum)
    /\ \A h \in Handlers :
         at[h] = "pay_send" /\ full[h] # 0 => full[h] \in Sums /\ Owed(full[h])

-----------------------------------------------------------------------------
\* A payment that was not sent has the flag, or the call that sets it, to stand for it, and
\* a payout sends the sum in the FSM data.  Two confirmations submit the same payment.
SentInv ==
  causes \cap {"cleared", "crossed", "lost", "resent"} # {} \/
    /\ ready => sum # 0 /\ ~out
    /\ ready => \A h \in Handlers : at[h] \notin {"pay_submit", "pay_after"}
    /\ ready => tx \notin ledger
    /\ \A h \in Handlers : Confirms(h) => own[h].sum = sum
    /\ \A h \in Handlers : Confirms(h) /\ ready => own[h] = tx
    /\ \A g, h \in Handlers : Confirms(g) /\ Confirms(h) => own[g] = own[h]
    /\ \A h \in Handlers : Confirms(h) /\ own[h] \notin ledger => ~out
    /\ \A g, h \in Handlers : Confirms(h) /\ own[h] \notin ledger => at[g] # "pay_after"
    /\ \A h \in Handlers : at[h] = "pay_send" => full[h] = sum
    /\ \A s \in Sums : paid[s] <= sent[s] + IF Promised(s) THEN 1 ELSE 0

-----------------------------------------------------------------------------
LEMMA AppliesAdds ==
  ASSUME TypeInv, NEW t \in Payments, Applies(t)
  PROVE  /\ ledger' \subseteq Payments /\ IsFiniteSet(ledger') /\ paid' \in [Sums -> Nat]
         /\ ledger' = ledger \cup {t}
         /\ \/ t \in ledger /\ paid' = paid /\ ledger' = ledger
            \/ /\ t \notin ledger /\ t.after = Cardinality(ledger)
               /\ Cardinality(ledger') = Cardinality(ledger) + 1
               /\ \A s \in Sums : paid'[s] = IF s = t.sum THEN paid[s] + 1 ELSE paid[s]
<1>. USE DEF TypeInv, Payments
<1>1. CASE t \in ledger
  BY <1>1 DEF Applies
<1>2. CASE t \notin ledger
  <2>1. /\ t.after = Cardinality(ledger) /\ ledger' = ledger \cup {t}
        /\ paid' = [paid EXCEPT ![t.sum] = paid[t.sum] + 1]
    BY <1>2 DEF Applies
  <2>2. IsFiniteSet(ledger') /\ Cardinality(ledger') = Cardinality(ledger) + 1
    BY <1>2, <2>1, FS_AddElement
  <2>3. t.sum \in Sums
    OBVIOUS
  <2>. QED
    BY <1>2, <2>1, <2>2, <2>3
<1>. QED
  BY <1>1, <1>2

\* Every step keeps the types.
LEMMA TypeStep == TypeInv /\ OwnInv /\ [Next]_vars => TypeInv'
<1>. SUFFICES ASSUME TypeInv, OwnInv, [Next]_vars PROVE TypeInv'
  OBVIOUS
<1>. USE DepositsAssumption
     DEF TypeInv, wallet, money, payment, Stages, SweepStages, ConfirmStages,
         PayoutStages
<1>1. CASE TimePasses
  BY <1>1 DEF TimePasses
<1>2. CASE Clear
  BY <1>2 DEF Clear, Because
<1>3. CASE Restart
  BY <1>3 DEF Restart, Fault, Because
<1>4. ASSUME NEW n \in Sums, Deposit(n) PROVE TypeInv'
  <2>1. n \in Nat /\ chain' = chain + n /\ deposited' = deposited + n
    BY <1>4 DEF Deposit
  <2>2. chain' \in Nat /\ deposited' \in Nat
    BY <2>1
  <2>. QED
    BY <1>4, <2>2 DEF Deposit
<1>5. ASSUME NEW n \in Sums, Prepare(n) PROVE TypeInv'
  <2>1. tx' \in Payments
    BY <1>5, FS_CardinalityType DEF Prepare, Payments
  <2>. QED
    BY <1>5, <2>1 DEF Prepare
<1>6. ASSUME NEW h \in Handlers, StartCheck(h) PROVE TypeInv'
  BY <1>6 DEF StartCheck, Go
<1>7. ASSUME NEW h \in Handlers, MarkCheck(h) PROVE TypeInv'
  BY <1>7 DEF MarkCheck, Go
<1>8. ASSUME NEW h \in Handlers, LockCheck(h) PROVE TypeInv'
  BY <1>8 DEF LockCheck, Go, Acquire
<1>9. ASSUME NEW h \in Handlers, Look(h) PROVE TypeInv'
  BY <1>9 DEF Look, Go, Release, Forget
<1>10. ASSUME NEW h \in Handlers, Record(h) PROVE TypeInv'
  BY <1>10 DEF Record, Go
<1>11. ASSUME NEW h \in Handlers, PayIn(h) PROVE TypeInv'
  BY <1>11 DEF PayIn, Go, Fault, Release, Forget
<1>12. ASSUME NEW h \in Handlers, StartSweep(h) PROVE TypeInv'
  BY <1>12 DEF StartSweep, Go, Because
<1>13. ASSUME NEW h \in Handlers, LookForSweep(h) PROVE TypeInv'
  BY <1>13 DEF LookForSweep, Go, Forget
<1>14. ASSUME NEW h \in Handlers, SendSweep(h) PROVE TypeInv'
  BY <1>14 DEF SendSweep, Go, Fault, Forget
<1>15. ASSUME NEW h \in Handlers, UpdateSweep(h) PROVE TypeInv'
  BY <1>15 DEF UpdateSweep, Go, Forget
<1>16. ASSUME NEW h \in Handlers, Confirm(h) PROVE TypeInv'
  BY <1>16 DEF Confirm, Go, Because
<1>17. ASSUME NEW h \in Handlers, Sign(h) PROVE TypeInv'
  BY <1>17 DEF Sign, Go
<1>18. ASSUME NEW h \in Handlers, Submit(h) PROVE TypeInv'
  <2>1. own[h] \in Payments
    BY <1>18 DEF Submit, Go, OwnInv
  <2>2. /\ ledger' \subseteq Payments /\ IsFiniteSet(ledger') /\ paid' \in [Sums -> Nat]
    BY <1>18, <2>1, AppliesAdds DEF Submit
  <2>. QED
    BY <1>18, <2>2 DEF Submit, Go
<1>19. ASSUME NEW h \in Handlers, ReSend(h) PROVE TypeInv'
  BY <1>19 DEF ReSend, Go
<1>20. ASSUME NEW h \in Handlers, ReSubmit(h) PROVE TypeInv'
  <2>1. own[h] \in Payments
    BY <1>20 DEF ReSubmit, Go, OwnInv
  <2>2. /\ ledger' \subseteq Payments /\ IsFiniteSet(ledger') /\ paid' \in [Sums -> Nat]
    BY <1>20, <2>1, AppliesAdds DEF ReSubmit
  <2>. QED
    BY <1>20, <2>2 DEF ReSubmit, Go
<1>21. ASSUME NEW h \in Handlers, AfterSend(h) PROVE TypeInv'
  BY <1>21 DEF AfterSend, Go
<1>22. ASSUME NEW h \in Handlers, StartOutCheck(h) PROVE TypeInv'
  BY <1>22 DEF StartOutCheck, Go
<1>23. ASSUME NEW h \in Handlers, MarkPayout(h) PROVE TypeInv'
  BY <1>23 DEF MarkPayout, Go
<1>24. ASSUME NEW h \in Handlers, LockPayout(h) PROVE TypeInv'
  BY <1>24 DEF LockPayout, Go, Acquire
<1>25. ASSUME NEW h \in Handlers, SendPayout(h) PROVE TypeInv'
  <2>1. \/ UNCHANGED sent
        \/ sent' = [s \in Sums |-> sent[s] + IF s = full[h] THEN 1 ELSE 0]
    BY <1>25 DEF SendPayout
  <2>2. sent' \in [Sums -> Nat]
    BY <2>1
  <2>3. /\ at' \in [Handlers -> Stages] /\ lock' = None
        /\ read' \in [Handlers -> Int] /\ full' \in [Handlers -> Nat]
    BY <1>25 DEF SendPayout, Go, Release, Forget
  <2>4. out' \in BOOLEAN
    BY <1>25 DEF SendPayout
  <2>. QED
    BY <1>25, <2>2, <2>3, <2>4 DEF SendPayout
<1>26. CASE UNCHANGED vars
  BY <1>26 DEF vars
<1>. QED
  BY <1>1, <1>2, <1>3, <1>4, <1>5, <1>6, <1>7, <1>8, <1>9, <1>10, <1>11, <1>12, <1>13, <1>14,
     <1>15, <1>16, <1>17, <1>18, <1>19, <1>20, <1>21, <1>22, <1>23, <1>24, <1>25, <1>26
     DEF Next

\* Every step keeps LockInv.
LEMMA LockStep == TypeInv /\ LockInv /\ [Next]_vars => LockInv'
<1>. SUFFICES ASSUME TypeInv, LockInv, [Next]_vars PROVE LockInv'
  OBVIOUS
<1>. USE DepositsAssumption
     DEF LockInv, Locked, wallet, money, payment, Stages, SweepStages, ConfirmStages,
         PayoutStages
<1>1. CASE TimePasses
  BY <1>1 DEF TypeInv, TimePasses
<1>2. CASE Clear
  BY <1>2 DEF TypeInv, Clear, Because
<1>3. CASE Restart
  BY <1>3 DEF TypeInv, Restart, Fault, Because
<1>4. ASSUME NEW n \in Sums, Deposit(n) PROVE LockInv'
  BY <1>4 DEF TypeInv, Deposit
<1>5. ASSUME NEW n \in Sums, Prepare(n) PROVE LockInv'
  BY <1>5 DEF TypeInv, Prepare
<1>6. ASSUME NEW h \in Handlers, StartCheck(h) PROVE LockInv'
  BY <1>6 DEF TypeInv, StartCheck, Go
<1>7. ASSUME NEW h \in Handlers, MarkCheck(h) PROVE LockInv'
  BY <1>7 DEF TypeInv, MarkCheck, Go
<1>8. ASSUME NEW h \in Handlers, LockCheck(h) PROVE LockInv'
  BY <1>8 DEF TypeInv, LockCheck, Go, Acquire
<1>9. ASSUME NEW h \in Handlers, Look(h) PROVE LockInv'
  BY <1>9 DEF TypeInv, Look, Go, Release, Forget
<1>10. ASSUME NEW h \in Handlers, Record(h) PROVE LockInv'
  BY <1>10 DEF TypeInv, Record, Go
<1>11. ASSUME NEW h \in Handlers, PayIn(h) PROVE LockInv'
  BY <1>11 DEF TypeInv, PayIn, Go, Fault, Release, Forget
<1>12. ASSUME NEW h \in Handlers, StartSweep(h) PROVE LockInv'
  BY <1>12 DEF TypeInv, StartSweep, Go, Because
<1>13. ASSUME NEW h \in Handlers, LookForSweep(h) PROVE LockInv'
  BY <1>13 DEF TypeInv, LookForSweep, Go, Forget
<1>14. ASSUME NEW h \in Handlers, SendSweep(h) PROVE LockInv'
  BY <1>14 DEF TypeInv, SendSweep, Go, Fault, Forget
<1>15. ASSUME NEW h \in Handlers, UpdateSweep(h) PROVE LockInv'
  BY <1>15 DEF TypeInv, UpdateSweep, Go, Forget
<1>16. ASSUME NEW h \in Handlers, Confirm(h) PROVE LockInv'
  BY <1>16 DEF TypeInv, Confirm, Go, Because
<1>17. ASSUME NEW h \in Handlers, Sign(h) PROVE LockInv'
  BY <1>17 DEF TypeInv, Sign, Go
<1>18. ASSUME NEW h \in Handlers, Submit(h) PROVE LockInv'
  BY <1>18 DEF TypeInv, Submit, Go, Because, Fault, Applies
<1>19. ASSUME NEW h \in Handlers, ReSend(h) PROVE LockInv'
  BY <1>19 DEF TypeInv, ReSend, Go
<1>20. ASSUME NEW h \in Handlers, ReSubmit(h) PROVE LockInv'
  BY <1>20 DEF TypeInv, ReSubmit, Go, Because, Applies
<1>21. ASSUME NEW h \in Handlers, AfterSend(h) PROVE LockInv'
  BY <1>21 DEF TypeInv, AfterSend, Go
<1>22. ASSUME NEW h \in Handlers, StartOutCheck(h) PROVE LockInv'
  BY <1>22 DEF TypeInv, StartOutCheck, Go
<1>23. ASSUME NEW h \in Handlers, MarkPayout(h) PROVE LockInv'
  BY <1>23 DEF TypeInv, MarkPayout, Go
<1>24. ASSUME NEW h \in Handlers, LockPayout(h) PROVE LockInv'
  BY <1>24 DEF TypeInv, LockPayout, Go, Acquire
<1>25. ASSUME NEW h \in Handlers, SendPayout(h) PROVE LockInv'
  BY <1>25 DEF TypeInv, SendPayout, Go, Release, Forget, Fault, Because
<1>26. CASE UNCHANGED vars
  BY <1>26 DEF TypeInv, vars
<1>. QED
  BY <1>1, <1>2, <1>3, <1>4, <1>5, <1>6, <1>7, <1>8, <1>9, <1>10, <1>11, <1>12, <1>13, <1>14,
     <1>15, <1>16, <1>17, <1>18, <1>19, <1>20, <1>21, <1>22, <1>23, <1>24, <1>25, <1>26
     DEF Next

\* Every step keeps OwnInv.
LEMMA OwnStep == TypeInv /\ OwnInv /\ [Next]_vars => OwnInv'
<1>. SUFFICES ASSUME TypeInv, OwnInv, [Next]_vars PROVE OwnInv'
  OBVIOUS
<1>. USE DepositsAssumption DEF OwnInv, wallet, money, payment, ConfirmStages
<1>1. CASE TimePasses
  BY <1>1 DEF TypeInv, TimePasses
<1>2. CASE Clear
  BY <1>2 DEF TypeInv, Clear, Because
<1>3. CASE Restart
  BY <1>3 DEF TypeInv, Restart, Fault, Because
<1>4. ASSUME NEW n \in Sums, Deposit(n) PROVE OwnInv'
  BY <1>4 DEF TypeInv, Deposit
<1>5. ASSUME NEW n \in Sums, Prepare(n) PROVE OwnInv'
  <2>1. /\ tx' = [sum |-> n, after |-> Cardinality(ledger)] /\ sum' = n
        /\ UNCHANGED <<at, own, ledger>>
    BY <1>5 DEF Prepare
  <2>2. Cardinality(ledger) \in Nat
    BY FS_CardinalityType DEF TypeInv
  <2>. QED
    BY <2>1, <2>2 DEF Payments
<1>6. ASSUME NEW h \in Handlers, StartCheck(h) PROVE OwnInv'
  BY <1>6 DEF TypeInv, StartCheck, Go
<1>7. ASSUME NEW h \in Handlers, MarkCheck(h) PROVE OwnInv'
  BY <1>7 DEF TypeInv, MarkCheck, Go
<1>8. ASSUME NEW h \in Handlers, LockCheck(h) PROVE OwnInv'
  BY <1>8 DEF TypeInv, LockCheck, Go, Acquire
<1>9. ASSUME NEW h \in Handlers, Look(h) PROVE OwnInv'
  BY <1>9 DEF TypeInv, Look, Go, Release, Forget
<1>10. ASSUME NEW h \in Handlers, Record(h) PROVE OwnInv'
  BY <1>10 DEF TypeInv, Record, Go
<1>11. ASSUME NEW h \in Handlers, PayIn(h) PROVE OwnInv'
  BY <1>11 DEF TypeInv, PayIn, Go, Fault, Release, Forget
<1>12. ASSUME NEW h \in Handlers, StartSweep(h) PROVE OwnInv'
  BY <1>12 DEF TypeInv, StartSweep, Go, Because
<1>13. ASSUME NEW h \in Handlers, LookForSweep(h) PROVE OwnInv'
  BY <1>13 DEF TypeInv, LookForSweep, Go, Forget
<1>14. ASSUME NEW h \in Handlers, SendSweep(h) PROVE OwnInv'
  BY <1>14 DEF TypeInv, SendSweep, Go, Fault, Forget
<1>15. ASSUME NEW h \in Handlers, UpdateSweep(h) PROVE OwnInv'
  BY <1>15 DEF TypeInv, UpdateSweep, Go, Forget
<1>16. ASSUME NEW h \in Handlers, Confirm(h) PROVE OwnInv'
  BY <1>16 DEF TypeInv, Confirm, Go, Because
<1>17. ASSUME NEW h \in Handlers, Sign(h) PROVE OwnInv'
  BY <1>17 DEF TypeInv, Sign, Go
<1>18. ASSUME NEW h \in Handlers, Submit(h) PROVE OwnInv'
  <2>1. own[h] \in Payments
    BY <1>18 DEF Submit, Go
  <2>2. Applies(own[h]) \/ UNCHANGED <<ledger, paid>>
    BY <1>18 DEF Submit
  <2>3. \A t \in ledger' : t.after < Cardinality(ledger')
    <3>1. Cardinality(ledger) \in Nat /\ \A t \in ledger : t.after \in Nat
      BY FS_CardinalityType DEF TypeInv, Payments
    <3>. QED
      BY <2>1, <2>2, <3>1, AppliesAdds
  <2>4. \A g \in Handlers :
          at'[g] \in {"idle", "pay_after"} \/ (at'[g] = at[g] /\ own'[g] = own[g])
    BY <1>18 DEF Submit, Go, TypeInv
  <2>5. UNCHANGED <<ready, tx, sum>>
    BY <1>18 DEF Submit
  <2>. QED
    BY <2>3, <2>4, <2>5
<1>19. ASSUME NEW h \in Handlers, ReSend(h) PROVE OwnInv'
  BY <1>19 DEF TypeInv, ReSend, Go
<1>20. ASSUME NEW h \in Handlers, ReSubmit(h) PROVE OwnInv'
  <2>1. own[h] \in Payments
    BY <1>20 DEF ReSubmit, Go
  <2>2. Applies(own[h]) \/ UNCHANGED <<ledger, paid>>
    BY <1>20 DEF ReSubmit
  <2>3. \A t \in ledger' : t.after < Cardinality(ledger')
    <3>1. Cardinality(ledger) \in Nat /\ \A t \in ledger : t.after \in Nat
      BY FS_CardinalityType DEF TypeInv, Payments
    <3>. QED
      BY <2>1, <2>2, <3>1, AppliesAdds
  <2>4. \A g \in Handlers :
          at'[g] \in {"idle", "pay_after"} \/ (at'[g] = at[g] /\ own'[g] = own[g])
    BY <1>20 DEF ReSubmit, Go, TypeInv
  <2>5. UNCHANGED <<ready, tx, sum>>
    BY <1>20 DEF ReSubmit
  <2>. QED
    BY <2>3, <2>4, <2>5
<1>21. ASSUME NEW h \in Handlers, AfterSend(h) PROVE OwnInv'
  BY <1>21 DEF TypeInv, AfterSend, Go
<1>22. ASSUME NEW h \in Handlers, StartOutCheck(h) PROVE OwnInv'
  BY <1>22 DEF TypeInv, StartOutCheck, Go
<1>23. ASSUME NEW h \in Handlers, MarkPayout(h) PROVE OwnInv'
  BY <1>23 DEF TypeInv, MarkPayout, Go
<1>24. ASSUME NEW h \in Handlers, LockPayout(h) PROVE OwnInv'
  BY <1>24 DEF TypeInv, LockPayout, Go, Acquire
<1>25. ASSUME NEW h \in Handlers, SendPayout(h) PROVE OwnInv'
  BY <1>25 DEF TypeInv, SendPayout, Go, Release, Forget, Fault, Because
<1>26. CASE UNCHANGED vars
  BY <1>26 DEF TypeInv, vars
<1>. QED
  BY <1>1, <1>2, <1>3, <1>4, <1>5, <1>6, <1>7, <1>8, <1>9, <1>10, <1>11, <1>12, <1>13, <1>14,
     <1>15, <1>16, <1>17, <1>18, <1>19, <1>20, <1>21, <1>22, <1>23, <1>24, <1>25, <1>26
     DEF Next

\* Every step keeps MoneyInv.
LEMMA MoneyStep == TypeInv /\ LockInv /\ MoneyInv /\ [Next]_vars => MoneyInv'
<1>. SUFFICES ASSUME TypeInv, LockInv, MoneyInv, [Next]_vars PROVE MoneyInv'
  OBVIOUS
<1>. USE DepositsAssumption
     DEF MoneyInv, Covered, wallet, money, payment, Stages, SweepStages, ConfirmStages,
         PayoutStages
<1>1. CASE TimePasses
  BY <1>1 DEF TypeInv, LockInv, Locked, TimePasses
<1>2. CASE Clear
  BY <1>2 DEF TypeInv, LockInv, Locked, Clear, Because
<1>3. CASE Restart
  BY <1>3 DEF TypeInv, LockInv, Locked, Restart, Fault, Because
<1>4. ASSUME NEW n \in Sums, Deposit(n) PROVE MoneyInv'
  BY <1>4 DEF TypeInv, LockInv, Locked, Deposit
<1>5. ASSUME NEW n \in Sums, Prepare(n) PROVE MoneyInv'
  BY <1>5 DEF TypeInv, LockInv, Locked, Prepare
<1>6. ASSUME NEW h \in Handlers, StartCheck(h) PROVE MoneyInv'
  BY <1>6 DEF TypeInv, LockInv, Locked, StartCheck, Go
<1>7. ASSUME NEW h \in Handlers, MarkCheck(h) PROVE MoneyInv'
  BY <1>7 DEF TypeInv, LockInv, Locked, MarkCheck, Go
<1>8. ASSUME NEW h \in Handlers, LockCheck(h) PROVE MoneyInv'
  BY <1>8 DEF TypeInv, LockInv, Locked, LockCheck, Go, Acquire
<1>9. ASSUME NEW h \in Handlers, Look(h) PROVE MoneyInv'
  BY <1>9 DEF TypeInv, LockInv, Locked, Look, Go, Release, Forget
<1>10. ASSUME NEW h \in Handlers, Record(h) PROVE MoneyInv'
  BY <1>10 DEF TypeInv, LockInv, Locked, Record, Go
<1>11. ASSUME NEW h \in Handlers, PayIn(h) PROVE MoneyInv'
  BY <1>11 DEF TypeInv, LockInv, Locked, PayIn, Go, Fault, Release, Forget
<1>12. ASSUME NEW h \in Handlers, StartSweep(h) PROVE MoneyInv'
  BY <1>12 DEF TypeInv, LockInv, Locked, StartSweep, Go, Because
<1>13. ASSUME NEW h \in Handlers, LookForSweep(h) PROVE MoneyInv'
  BY <1>13 DEF TypeInv, LockInv, Locked, LookForSweep, Go, Forget
<1>14. ASSUME NEW h \in Handlers, SendSweep(h) PROVE MoneyInv'
  BY <1>14 DEF TypeInv, LockInv, Locked, SendSweep, Go, Fault, Forget
<1>15. ASSUME NEW h \in Handlers, UpdateSweep(h) PROVE MoneyInv'
  BY <1>15 DEF TypeInv, LockInv, Locked, UpdateSweep, Go, Forget
<1>16. ASSUME NEW h \in Handlers, Confirm(h) PROVE MoneyInv'
  BY <1>16 DEF TypeInv, LockInv, Locked, Confirm, Go, Because
<1>17. ASSUME NEW h \in Handlers, Sign(h) PROVE MoneyInv'
  BY <1>17 DEF TypeInv, LockInv, Locked, Sign, Go
<1>18. ASSUME NEW h \in Handlers, Submit(h) PROVE MoneyInv'
  <2>1. UNCHANGED <<wallet, full>>
    BY <1>18 DEF Submit
  <2>2. at' = [at EXCEPT ![h] = "idle"] \/ at' = [at EXCEPT ![h] = "pay_after"]
    BY <1>18 DEF Submit, Go
  <2>3. "sweeps" \in causes' <=> "sweeps" \in causes
    BY <1>18 DEF Submit, Because
  <2>4. \A g \in Handlers : at'[g] = at[g] \/ at'[g] \in {"idle", "pay_after"}
    BY <2>2 DEF TypeInv
  <2>. QED
    BY <2>1, <2>3, <2>4
<1>19. ASSUME NEW h \in Handlers, ReSend(h) PROVE MoneyInv'
  BY <1>19 DEF TypeInv, LockInv, Locked, ReSend, Go
<1>20. ASSUME NEW h \in Handlers, ReSubmit(h) PROVE MoneyInv'
  <2>1. UNCHANGED <<wallet, full>>
    BY <1>20 DEF ReSubmit
  <2>2. at' = [at EXCEPT ![h] = "idle"]
    BY <1>20 DEF ReSubmit, Go
  <2>3. "sweeps" \in causes' <=> "sweeps" \in causes
    BY <1>20 DEF ReSubmit, Because
  <2>4. \A g \in Handlers : at'[g] = at[g] \/ at'[g] \in {"idle", "pay_after"}
    BY <2>2 DEF TypeInv
  <2>. QED
    BY <2>1, <2>3, <2>4
<1>21. ASSUME NEW h \in Handlers, AfterSend(h) PROVE MoneyInv'
  BY <1>21 DEF TypeInv, LockInv, Locked, AfterSend, Go
<1>22. ASSUME NEW h \in Handlers, StartOutCheck(h) PROVE MoneyInv'
  BY <1>22 DEF TypeInv, LockInv, Locked, StartOutCheck, Go
<1>23. ASSUME NEW h \in Handlers, MarkPayout(h) PROVE MoneyInv'
  BY <1>23 DEF TypeInv, LockInv, Locked, MarkPayout, Go
<1>24. ASSUME NEW h \in Handlers, LockPayout(h) PROVE MoneyInv'
  BY <1>24 DEF TypeInv, LockInv, Locked, LockPayout, Go, Acquire
<1>25. ASSUME NEW h \in Handlers, SendPayout(h) PROVE MoneyInv'
  BY <1>25 DEF TypeInv, LockInv, Locked, SendPayout, Go, Release, Forget, Fault, Because
<1>26. CASE UNCHANGED vars
  BY <1>26 DEF TypeInv, LockInv, Locked, vars
<1>. QED
  BY <1>1, <1>2, <1>3, <1>4, <1>5, <1>6, <1>7, <1>8, <1>9, <1>10, <1>11, <1>12, <1>13, <1>14,
     <1>15, <1>16, <1>17, <1>18, <1>19, <1>20, <1>21, <1>22, <1>23, <1>24, <1>25, <1>26
     DEF Next

\* Every step keeps PayoutInv.
LEMMA PayoutStep == TypeInv /\ LockInv /\ OwnInv /\ PayoutInv /\ [Next]_vars => PayoutInv'
<1>. SUFFICES ASSUME TypeInv, LockInv, OwnInv, PayoutInv, [Next]_vars PROVE PayoutInv'
  OBVIOUS
<1>. USE DepositsAssumption DEF PayoutInv, Confirms, Follows, Owed, wallet, money, payment,
         ConfirmStages, PayoutStages
<1>1. CASE TimePasses
  BY <1>1 DEF TypeInv, LockInv, Locked, TimePasses
<1>2. CASE Clear
  BY <1>2 DEF TypeInv, LockInv, Locked, Clear, Because
<1>3. CASE Restart
  BY <1>3 DEF TypeInv, LockInv, Locked, Restart, Fault, Because
<1>4. ASSUME NEW n \in Sums, Deposit(n) PROVE PayoutInv'
  BY <1>4 DEF TypeInv, LockInv, Locked, Deposit
<1>5. ASSUME NEW n \in Sums, Prepare(n) PROVE PayoutInv'
  <2>. SUFFICES ASSUME causes' \cap {"doubt", "crossed", "twice"} = {}
                PROVE  PayoutInv'
    OBVIOUS
  <2>1. /\ causes \cap {"doubt", "crossed", "twice"} = {}
        /\ \A h \in Handlers : at[h] \notin PayoutStages
    BY <1>5 DEF Prepare
  <2>2. tx' \notin ledger /\ ~out' /\ sum' = n /\ n # 0
    <3>1. Cardinality(ledger) \in Nat
      BY FS_CardinalityType DEF TypeInv
    <3>. QED
      BY <1>5, <3>1 DEF Prepare, OwnInv
  <2>3. UNCHANGED <<at, full, own, ledger, paid, sent>>
    BY <1>5 DEF Prepare
  <2>. QED
    BY <2>1, <2>2, <2>3
<1>6. ASSUME NEW h \in Handlers, StartCheck(h) PROVE PayoutInv'
  BY <1>6 DEF TypeInv, LockInv, Locked, StartCheck, Go
<1>7. ASSUME NEW h \in Handlers, MarkCheck(h) PROVE PayoutInv'
  BY <1>7 DEF TypeInv, LockInv, Locked, MarkCheck, Go
<1>8. ASSUME NEW h \in Handlers, LockCheck(h) PROVE PayoutInv'
  BY <1>8 DEF TypeInv, LockInv, Locked, LockCheck, Go, Acquire
<1>9. ASSUME NEW h \in Handlers, Look(h) PROVE PayoutInv'
  BY <1>9 DEF TypeInv, LockInv, Locked, Look, Go, Release, Forget
<1>10. ASSUME NEW h \in Handlers, Record(h) PROVE PayoutInv'
  BY <1>10 DEF TypeInv, LockInv, Locked, Record, Go
<1>11. ASSUME NEW h \in Handlers, PayIn(h) PROVE PayoutInv'
  BY <1>11 DEF TypeInv, LockInv, Locked, PayIn, Go, Fault, Release, Forget
<1>12. ASSUME NEW h \in Handlers, StartSweep(h) PROVE PayoutInv'
  BY <1>12 DEF TypeInv, LockInv, Locked, StartSweep, Go, Because
<1>13. ASSUME NEW h \in Handlers, LookForSweep(h) PROVE PayoutInv'
  BY <1>13 DEF TypeInv, LockInv, Locked, LookForSweep, Go, Forget
<1>14. ASSUME NEW h \in Handlers, SendSweep(h) PROVE PayoutInv'
  BY <1>14 DEF TypeInv, LockInv, Locked, SendSweep, Go, Fault, Forget
<1>15. ASSUME NEW h \in Handlers, UpdateSweep(h) PROVE PayoutInv'
  BY <1>15 DEF TypeInv, LockInv, Locked, UpdateSweep, Go, Forget
<1>16. ASSUME NEW h \in Handlers, Confirm(h) PROVE PayoutInv'
  <2>. SUFFICES ASSUME causes' \cap {"doubt", "crossed", "twice"} = {}
                PROVE  PayoutInv'
    OBVIOUS
  <2>1. /\ causes \cap {"doubt", "crossed", "twice"} = {}
        /\ \A g \in Handlers : at[g] # "pay_sign"
    BY <1>16 DEF Confirm, Because
  <2>2. ready /\ ~out /\ \A g \in Handlers : ~Follows(g) /\ at[g] # "pay_send"
    BY <1>16, <2>1 DEF Confirm
  <2>3. tx.sum = sum
    BY <2>2 DEF OwnInv
  <2>4. /\ at'[h] = "pay_sign" /\ own'[h] = tx
        /\ \A g \in Handlers \ {h} : at'[g] = at[g] /\ own'[g] = own[g]
    BY <1>16 DEF Confirm, Go, TypeInv
  <2>5. UNCHANGED <<out, sum, tx, ready, ledger, paid, sent, full>>
    BY <1>16 DEF Confirm
  <2>. QED
    BY <2>1, <2>2, <2>3, <2>4, <2>5
<1>17. ASSUME NEW h \in Handlers, Sign(h) PROVE PayoutInv'
  BY <1>17 DEF TypeInv, LockInv, Locked, Sign, Go
<1>18. ASSUME NEW h \in Handlers, Submit(h) PROVE PayoutInv'
  <2>. SUFFICES ASSUME causes' \cap {"doubt", "crossed", "twice"} = {}
                PROVE  PayoutInv'
    OBVIOUS
  <2>1. causes \cap {"doubt", "crossed", "twice"} = {}
    BY <1>18 DEF Submit, Because
  <2>2. at[h] = "pay_submit" /\ own[h] \in Payments
    BY <1>18 DEF Submit, Go, OwnInv
  <2>3. /\ ~ready /\ ~out /\ \A g \in Handlers : at[g] # "pay_send" /\ (Follows(g) => g = h)
        /\ sum \in {0, own[h].sum}
    BY <2>1, <2>2
  <2>4. /\ \A s \in Sums : sent[s] <= paid'[s]
        /\ Applies(own[h]) => sent[own[h].sum] < paid'[own[h].sum]
    <3>1. own[h].sum \in Sums
      BY <2>2 DEF Payments
    <3>2. \A s \in Sums : sent[s] \in Nat /\ paid[s] \in Nat
      BY DEF TypeInv
    <3>3. CASE Applies(own[h])
      <4>1. \/ own[h] \in ledger /\ paid' = paid
            \/ \A s \in Sums : paid'[s] = IF s = own[h].sum THEN paid[s] + 1 ELSE paid[s]
        BY <2>2, <3>3, AppliesAdds
      <4>2. /\ \A s \in Sums : sent[s] <= paid[s]
            /\ own[h] \in ledger => sent[own[h].sum] < paid[own[h].sum]
        BY <2>1, <2>2
      <4>. HIDE DEF PayoutInv
      <4>3. PICK q \in Sums : q = own[h].sum
        BY <3>1
      <4>4. sent[q] < paid'[q]
        <5>1. sent[q] \in Nat /\ paid[q] \in Nat /\ sent[q] <= paid[q]
          BY <3>2, <4>2
        <5>2. paid'[q] = paid[q] + 1 \/ (paid'[q] = paid[q] /\ sent[q] < paid[q])
          BY <4>1, <4>2, <4>3
        <5>. QED
          BY <5>1, <5>2
      <4>5. \A s \in Sums : sent[s] <= paid'[s]
        BY <3>2, <4>1, <4>2
      <4>. QED
        BY <4>3, <4>4, <4>5
    <3>4. CASE ~Applies(own[h])
      BY <1>18, <2>1, <3>4 DEF Submit
    <3>. QED
      BY <3>3, <3>4
  <2>5. /\ at'[h] = "idle" \/ (at'[h] = "pay_after" /\ Applies(own[h]))
        /\ \A g \in Handlers \ {h} : at'[g] = at[g]
    BY <1>18 DEF Submit, Go, TypeInv
  <2>6. UNCHANGED <<out, sum, ready, sent, full>>
    BY <1>18 DEF Submit
  <2>. QED
    BY <2>3, <2>4, <2>5, <2>6
<1>19. ASSUME NEW h \in Handlers, ReSend(h) PROVE PayoutInv'
  BY <1>19 DEF TypeInv, LockInv, Locked, ReSend, Go
<1>20. ASSUME NEW h \in Handlers, ReSubmit(h) PROVE PayoutInv'
  <2>. SUFFICES ASSUME causes' \cap {"doubt", "crossed", "twice"} = {}
                PROVE  PayoutInv'
    OBVIOUS
  <2>1. causes \cap {"doubt", "crossed", "twice"} = {}
    BY <1>20 DEF ReSubmit, Because
  <2>2. own[h] \in Payments /\ (Applies(own[h]) \/ UNCHANGED <<ledger, paid>>)
    BY <1>20 DEF ReSubmit, Go, OwnInv
  <2>3. /\ \A s \in Sums : paid[s] \in Nat /\ sent[s] \in Nat /\ sent[s] <= paid[s]
        /\ \A s \in Sums : paid'[s] = paid[s] \/ paid'[s] = paid[s] + 1
        /\ \A t \in ledger' \ ledger : paid'[t.sum] = paid[t.sum] + 1
    <3>1. \A s \in Sums : paid[s] \in Nat /\ sent[s] \in Nat /\ sent[s] <= paid[s]
      BY <2>1 DEF TypeInv
    <3>2. CASE UNCHANGED <<ledger, paid>>
      BY <3>1, <3>2
    <3>3. CASE Applies(own[h])
      <4>1. /\ ledger' = ledger \cup {own[h]}
            /\ \/ paid' = paid /\ ledger' = ledger
               \/ \A s \in Sums : paid'[s] = IF s = own[h].sum THEN paid[s] + 1 ELSE paid[s]
        BY <2>2, <3>3, AppliesAdds
      <4>2. own[h].sum \in Sums
        BY <2>2 DEF Payments
      <4>. QED
        BY <3>1, <4>1, <4>2
    <3>. QED
      BY <2>2, <3>1, <3>2, <3>3
  <2>4. /\ at'[h] = "idle"
        /\ \A g \in Handlers \ {h} : at'[g] = at[g] /\ own'[g] = own[g]
    BY <1>20 DEF ReSubmit, Go, TypeInv
  <2>5. UNCHANGED <<out, sum, tx, ready, sent, full>>
    BY <1>20 DEF ReSubmit
  <2>6. \A s \in Sums : Owed(s) => Owed(s)'
    BY <2>3, <2>5
  <2>7. \A t \in Payments : t.sum \in Sums
    BY DEF Payments
  <2>8. \A t \in Payments : (t \in ledger => Owed(t.sum)) /\ t \in ledger' => Owed(t.sum)'
    <3>. SUFFICES ASSUME NEW t \in Payments, t \in ledger => Owed(t.sum), t \in ledger'
                  PROVE  Owed(t.sum)'
      OBVIOUS
    <3>1. CASE t \in ledger
      BY <2>6, <2>7, <3>1
    <3>2. CASE t \notin ledger
      <4>1. PICK q \in Sums : q = t.sum
        BY <2>7
      <4>2. paid'[q] = paid[q] + 1 /\ sent'[q] = sent[q]
        BY <2>3, <2>5, <3>2, <4>1
      <4>3. sent'[q] < paid'[q]
        BY <2>3, <4>2
      <4>. QED
        BY <4>1, <4>3
    <3>. QED
      BY <3>1, <3>2
  <2>. HIDE DEF Owed
  <2>9. ready => tx \in Payments
    BY DEF OwnInv
  <2>10. \A g \in Handlers : Confirms(g) => own[g] \in Payments
    BY DEF OwnInv
  <2>11. sum \in Sums \cup {0}
    BY DEF TypeInv
  <2>. QED
    <3>1. \A s \in Sums : sent'[s] <= paid'[s]
      BY <2>3, <2>5
    <3>2. /\ ready' => ~out'
          /\ ready' => sum' # 0
          /\ ready' => \A g \in Handlers : at'[g] \notin {"pay_submit", "pay_after", "pay_send"}
      BY <2>1, <2>4, <2>5
    <3>3. (ready /\ tx \in ledger => Owed(tx.sum))'
      BY <2>1, <2>5, <2>8, <2>9
    <3>4. \A g \in Handlers : (Confirms(g) /\ own[g] \in ledger => Owed(own[g].sum))'
      BY <2>1, <2>4, <2>8, <2>10
    <3>5. \A g \in Handlers : Follows(g)' => Follows(g) /\ at'[g] = at[g] /\ own'[g] = own[g]
      BY <2>4
    <3>6. /\ \A g \in Handlers : Follows(g)' => ~out'
          /\ \A g, k \in Handlers : Follows(k)' => at'[g] # "pay_send"
          /\ \A g, k \in Handlers : Follows(g)' /\ Follows(k)' => g = k
          /\ \A g \in Handlers : Confirms(g)' => sum' \in {0, own'[g].sum}
      BY <2>1, <2>4, <2>5, <3>5
    <3>7. /\ (out /\ sum # 0 => Owed(sum))'
          /\ \A g \in Handlers : (at[g] = "pay_after" /\ sum # 0 => Owed(sum))'
      BY <2>1, <2>4, <2>5, <2>6, <2>11
    <3>8. \A g \in Handlers :
            (at[g] = "pay_send" /\ full[g] # 0 => full[g] \in Sums /\ Owed(full[g]))'
      BY <2>1, <2>4, <2>5, <2>6
    <3>. QED
      BY <3>1, <3>2, <3>3, <3>4, <3>6, <3>7, <3>8
<1>21. ASSUME NEW h \in Handlers, AfterSend(h) PROVE PayoutInv'
  BY <1>21 DEF TypeInv, LockInv, Locked, AfterSend, Go
<1>22. ASSUME NEW h \in Handlers, StartOutCheck(h) PROVE PayoutInv'
  BY <1>22 DEF TypeInv, LockInv, Locked, StartOutCheck, Go
<1>23. ASSUME NEW h \in Handlers, MarkPayout(h) PROVE PayoutInv'
  BY <1>23 DEF TypeInv, LockInv, Locked, MarkPayout, Go
<1>24. ASSUME NEW h \in Handlers, LockPayout(h) PROVE PayoutInv'
  BY <1>24 DEF TypeInv, LockInv, Locked, LockPayout, Go, Acquire
<1>25. ASSUME NEW h \in Handlers, SendPayout(h) PROVE PayoutInv'
  BY <1>25 DEF TypeInv, LockInv, Locked, SendPayout, Go, Release, Forget, Fault, Because
<1>26. CASE UNCHANGED vars
  BY <1>26 DEF TypeInv, LockInv, Locked, vars
<1>. QED
  BY <1>1, <1>2, <1>3, <1>4, <1>5, <1>6, <1>7, <1>8, <1>9, <1>10, <1>11, <1>12, <1>13, <1>14,
     <1>15, <1>16, <1>17, <1>18, <1>19, <1>20, <1>21, <1>22, <1>23, <1>24, <1>25, <1>26
     DEF Next
\* Every step keeps SentInv.
LEMMA SentStep == TypeInv /\ LockInv /\ OwnInv /\ SentInv /\ [Next]_vars => SentInv'
<1>. SUFFICES ASSUME TypeInv, LockInv, OwnInv, SentInv, [Next]_vars PROVE SentInv'
  OBVIOUS
<1>. USE DepositsAssumption
     DEF SentInv, Confirms, Promised, wallet, money, payment, ConfirmStages, PayoutStages
<1>1. CASE TimePasses
  BY <1>1 DEF TypeInv, TimePasses
<1>2. CASE Clear
  BY <1>2 DEF TypeInv, Clear, Because
<1>3. CASE Restart
  BY <1>3 DEF TypeInv, Restart, Fault, Because
<1>4. ASSUME NEW n \in Sums, Deposit(n) PROVE SentInv'
  BY <1>4 DEF TypeInv, Deposit
<1>5. ASSUME NEW n \in Sums, Prepare(n) PROVE SentInv'
  <2>. SUFFICES ASSUME causes' \cap {"cleared", "crossed", "lost", "resent"} = {}
                PROVE  SentInv'
    OBVIOUS
  <2>1. /\ causes \cap {"cleared", "crossed", "lost", "resent"} = {} /\ ~out
        /\ \A h \in Handlers : at[h] \notin PayoutStages
    BY <1>5 DEF Prepare
  <2>2. tx' \notin ledger /\ ~out' /\ sum' = n /\ n # 0
    <3>1. Cardinality(ledger) \in Nat
      BY FS_CardinalityType DEF TypeInv
    <3>. QED
      BY <1>5, <3>1 DEF Prepare, OwnInv
  <2>3. UNCHANGED <<at, full, own, ledger, paid, sent>>
    BY <1>5 DEF Prepare
  <2>4. \A s \in Sums : ~Promised(s)
    BY <2>1
  <2>5. \A s \in Sums : paid[s] <= sent[s]
    BY <2>1, <2>4 DEF TypeInv
  <2>6. \A s \in Sums : paid[s] \in Nat /\ sent[s] \in Nat
    BY DEF TypeInv
  <2>. QED
    BY <2>1, <2>2, <2>3, <2>5, <2>6
<1>6. ASSUME NEW h \in Handlers, StartCheck(h) PROVE SentInv'
  BY <1>6 DEF TypeInv, StartCheck, Go
<1>7. ASSUME NEW h \in Handlers, MarkCheck(h) PROVE SentInv'
  BY <1>7 DEF TypeInv, MarkCheck, Go
<1>8. ASSUME NEW h \in Handlers, LockCheck(h) PROVE SentInv'
  BY <1>8 DEF TypeInv, LockCheck, Go, Acquire
<1>9. ASSUME NEW h \in Handlers, Look(h) PROVE SentInv'
  BY <1>9 DEF TypeInv, Look, Go, Release, Forget
<1>10. ASSUME NEW h \in Handlers, Record(h) PROVE SentInv'
  BY <1>10 DEF TypeInv, Record, Go
<1>11. ASSUME NEW h \in Handlers, PayIn(h) PROVE SentInv'
  BY <1>11 DEF TypeInv, PayIn, Go, Fault, Release, Forget
<1>12. ASSUME NEW h \in Handlers, StartSweep(h) PROVE SentInv'
  BY <1>12 DEF TypeInv, StartSweep, Go, Because
<1>13. ASSUME NEW h \in Handlers, LookForSweep(h) PROVE SentInv'
  BY <1>13 DEF TypeInv, LookForSweep, Go, Forget
<1>14. ASSUME NEW h \in Handlers, SendSweep(h) PROVE SentInv'
  BY <1>14 DEF TypeInv, SendSweep, Go, Fault, Forget
<1>15. ASSUME NEW h \in Handlers, UpdateSweep(h) PROVE SentInv'
  BY <1>15 DEF TypeInv, UpdateSweep, Go, Forget
<1>16. ASSUME NEW h \in Handlers, Confirm(h) PROVE SentInv'
  <2>. SUFFICES ASSUME causes' \cap {"cleared", "crossed", "lost", "resent"} = {}
                PROVE  SentInv'
    OBVIOUS
  <2>1. causes \cap {"cleared", "crossed", "lost", "resent"} = {}
    BY <1>16 DEF Confirm, Because
  <2>2. /\ ready /\ ~out /\ tx \notin ledger /\ \A g \in Handlers : at[g] # "pay_after"
        /\ \A g \in Handlers : Confirms(g) => own[g] = tx
    BY <1>16, <2>1 DEF Confirm
  <2>3. tx.sum = sum
    BY <2>2 DEF OwnInv
  <2>4. /\ at'[h] = "pay_sign" /\ own'[h] = tx /\ at[h] = "idle"
        /\ \A g \in Handlers \ {h} : at'[g] = at[g] /\ own'[g] = own[g]
    BY <1>16 DEF Confirm, Go, TypeInv
  <2>5. UNCHANGED <<out, sum, tx, ready, ledger, paid, sent, full>>
    BY <1>16 DEF Confirm
  <2>6. \A s \in Sums : Promised(s) <=> Promised(s)'
    BY <2>4, <2>5
  <2>. HIDE DEF Promised
  <2>. QED
    BY <2>1, <2>2, <2>3, <2>4, <2>5, <2>6
<1>17. ASSUME NEW h \in Handlers, Sign(h) PROVE SentInv'
  BY <1>17 DEF TypeInv, Sign, Go
<1>18. ASSUME NEW h \in Handlers, Submit(h) PROVE SentInv'
  <2>. SUFFICES ASSUME causes' \cap {"cleared", "crossed", "lost", "resent"} = {}
                PROVE  SentInv'
    OBVIOUS
  <2>1. causes \cap {"cleared", "crossed", "lost", "resent"} = {}
    BY <1>18 DEF Submit, Because
  <2>2. at[h] = "pay_submit" /\ own[h] \in Payments /\ own[h].sum = sum /\ sum \in Sums
    BY <1>18, <2>1 DEF Submit, Go, OwnInv, Payments
  <2>3. ~ready /\ (own[h] \notin ledger => ~out /\ \A g \in Handlers : at[g] # "pay_after")
    BY <2>1, <2>2
  <2>4. UNCHANGED <<out, sum, tx, ready, sent, full>>
    BY <1>18 DEF Submit
  <2>5. \A g \in Handlers \ {h} : at'[g] = at[g] /\ own'[g] = own[g]
    BY <1>18 DEF Submit, Go, TypeInv
  <2>6. \A s \in Sums : paid[s] \in Nat /\ sent[s] \in Nat
    BY DEF TypeInv
  <2>7. CASE at'[h] = "pay_after"
    <3>1. Applies(own[h])
      BY <1>18, <2>7 DEF Submit, Go, TypeInv
    <3>2. \A g \in Handlers : Confirms(g) => own[g] \in ledger'
      BY <2>1, <2>2, <3>1, AppliesAdds
    <3>3. Promised(sum)' /\ \A s \in Sums \ {sum} : ~Promised(s)
      BY <2>4, <2>7
    <3>4. own[h] \notin ledger => ~Promised(sum)
      BY <2>3
    <3>5. \A s \in Sums : paid'[s] <= sent[s] + IF Promised(s)' THEN 1 ELSE 0
      <4>. HIDE DEF Promised
      <4>1. \A s \in Sums : paid[s] <= sent[s] + IF Promised(s) THEN 1 ELSE 0
        BY <2>1
      <4>2. CASE own[h] \in ledger
        <5>1. paid' = paid
          BY <2>2, <3>1, <4>2, AppliesAdds
        <5>. QED
          <6>. SUFFICES ASSUME NEW s \in Sums
                        PROVE  paid'[s] <= sent[s] + IF Promised(s)' THEN 1 ELSE 0
            OBVIOUS
          <6>1. s # sum => ~Promised(s)
            BY <3>3
          <6>2. paid'[s] = paid[s] /\ paid[s] <= sent[s] + IF Promised(s) THEN 1 ELSE 0
            BY <4>1, <5>1
          <6>. QED
            BY <2>4, <2>6, <3>3, <6>1, <6>2
      <4>3. CASE own[h] \notin ledger
        <5>1. \A s \in Sums : paid'[s] = IF s = sum THEN paid[s] + 1 ELSE paid[s]
          BY <2>2, <3>1, <4>3, AppliesAdds
        <5>. QED
          <6>. SUFFICES ASSUME NEW s \in Sums
                        PROVE  paid'[s] <= sent[s] + IF Promised(s)' THEN 1 ELSE 0
            OBVIOUS
          <6>1. ~Promised(s) /\ (s = sum => Promised(s)')
            BY <2>4, <3>3, <3>4, <4>3
          <6>2. paid[s] <= sent[s]
            BY <2>6, <4>1, <6>1
          <6>. QED
            BY <2>6, <5>1, <6>1, <6>2
      <4>. QED
        BY <4>2, <4>3
    <3>. HIDE DEF Promised
    <3>. QED
      BY <2>1, <2>3, <2>4, <2>5, <2>7, <3>2, <3>5
  <2>8. CASE at'[h] # "pay_after"
    <3>1. UNCHANGED <<ledger, paid>> /\ at'[h] = "idle"
      BY <1>18, <2>8 DEF Submit, Go, Because, TypeInv
    <3>2. \A s \in Sums : Promised(s) <=> Promised(s)'
      BY <2>2, <2>4, <2>5, <3>1
    <3>. HIDE DEF Promised
    <3>. QED
      BY <2>1, <2>3, <2>4, <2>5, <3>1, <3>2
  <2>. QED
    BY <2>7, <2>8
<1>19. ASSUME NEW h \in Handlers, ReSend(h) PROVE SentInv'
  BY <1>19 DEF TypeInv, ReSend, Go
<1>20. ASSUME NEW h \in Handlers, ReSubmit(h) PROVE SentInv'
  BY <1>20 DEF TypeInv, ReSubmit, Go, Because, Applies
<1>21. ASSUME NEW h \in Handlers, AfterSend(h) PROVE SentInv'
  BY <1>21 DEF TypeInv, AfterSend, Go
<1>22. ASSUME NEW h \in Handlers, StartOutCheck(h) PROVE SentInv'
  BY <1>22 DEF TypeInv, StartOutCheck, Go
<1>23. ASSUME NEW h \in Handlers, MarkPayout(h) PROVE SentInv'
  BY <1>23 DEF TypeInv, MarkPayout, Go
<1>24. ASSUME NEW h \in Handlers, LockPayout(h) PROVE SentInv'
  BY <1>24 DEF TypeInv, LockPayout, Go, Acquire
<1>25. ASSUME NEW h \in Handlers, SendPayout(h) PROVE SentInv'
  BY <1>25 DEF TypeInv, SendPayout, Go, Release, Forget, Fault, Because
<1>26. CASE UNCHANGED vars
  BY <1>26 DEF TypeInv, vars
<1>. QED
  BY <1>1, <1>2, <1>3, <1>4, <1>5, <1>6, <1>7, <1>8, <1>9, <1>10, <1>11, <1>12, <1>13, <1>14,
     <1>15, <1>16, <1>17, <1>18, <1>19, <1>20, <1>21, <1>22, <1>23, <1>24, <1>25, <1>26
     DEF Next

-----------------------------------------------------------------------------
LEMMA InitInv == Init => TypeInv /\ LockInv /\ OwnInv /\ MoneyInv /\ PayoutInv /\ SentInv
<1>. SUFFICES ASSUME Init PROVE TypeInv /\ LockInv /\ OwnInv /\ MoneyInv /\ PayoutInv /\ SentInv
  OBVIOUS
<1>1. TypeInv
  <2>1. /\ at \in [Handlers -> Stages]
        /\ read \in [Handlers -> Int] /\ full \in [Handlers -> Nat]
        /\ own \in [Handlers -> Payments \cup {None}] /\ tx \in Payments \cup {None}
    BY DEF Init, Stages
  <2>2. paid \in [Sums -> Nat] /\ sent \in [Sums -> Nat]
    BY DEF Init
  <2>3. chain \in Nat /\ deposited \in Nat /\ row \in Int /\ credited \in Int
    BY DEF Init
  <2>4. /\ lock \in Handlers \cup {None} /\ out \in BOOLEAN /\ ready \in BOOLEAN
        /\ offered \in BOOLEAN /\ sum \in Sums \cup {0}
    BY DEF Init
  <2>5. ledger \subseteq Payments /\ IsFiniteSet(ledger)
    BY FS_EmptySet DEF Init
  <2>. QED
    BY <2>1, <2>2, <2>3, <2>4, <2>5 DEF TypeInv
<1>2. LockInv
  BY DEF Init, LockInv, Locked
<1>3. MoneyInv
  BY DEF Init, MoneyInv, Covered, SweepStages
<1>4. PayoutInv
  BY DEF Init, PayoutInv, Confirms, Follows, ConfirmStages
<1>5. SentInv
  BY DEF Init, SentInv, Confirms, ConfirmStages
<1>6. OwnInv
  BY DEF Init, OwnInv, ConfirmStages
<1>. QED
  BY <1>1, <1>2, <1>3, <1>4, <1>5, <1>6

\* The types; mutual exclusion: whoever looks at the account, pays for a deposit or sends a
\* payout owns new_wallet_lock; and whoever submits a payment has one to submit.
THEOREM LockHolds == Spec => [](TypeInv /\ LockInv /\ OwnInv)
<1>1. TypeInv /\ LockInv /\ OwnInv /\ [Next]_vars => (TypeInv /\ LockInv /\ OwnInv)'
  BY TypeStep, LockStep, OwnStep
<1>. QED
  BY <1>1, InitInv, PTL DEF Spec

\* USDT_CHECK never pays more USDM than USDT was deposited, whatever checks, a sweep at a
\* time, failed payments and restarts interleave, for any sums and limits.
THEOREM NeverOverpaidHolds == Spec => []NeverOverpaid
<1>1. MoneyInv => NeverOverpaid
  BY DEF MoneyInv, Covered, NeverOverpaid
<1>2. TypeInv /\ LockInv /\ MoneyInv /\ [Next]_vars => MoneyInv'
  BY MoneyStep
<1>. QED
  BY <1>1, <1>2, InitInv, LockHolds, PTL DEF Spec

\* USDT_OUT never sends a sum more often than it was paid, whichever of the end of sign_xdr()
\* and any number of "Check" comes first, and whatever the button "ReSend" submits, unless a
\* payout ended without an answer, two withdrawals crossed, or two confirmations of one
\* withdrawal read the FSM state before either reset it.
THEOREM SentWasPaidHolds == Spec => []SentWasPaid
<1>1. PayoutInv => SentWasPaid
  BY DEF PayoutInv, Owed, SentWasPaid
<1>2. TypeInv /\ LockInv /\ OwnInv /\ PayoutInv /\ [Next]_vars => PayoutInv'
  BY PayoutStep
<1>. QED
  BY <1>1, <1>2, InitInv, LockHolds, PTL DEF Spec

\* A withdrawal that was paid for is sent, or the flag says that it is not yet, for any
\* handlers, confirmations, failures and restarts, unless clear_state() or another withdrawal
\* took the flag, the end of the submission was lost, or "ReSend" paid for it.
THEOREM PaidIsSentHolds == Spec => []PaidIsSent
<1>1. SentInv => PaidIsSent
  BY DEF SentInv, PaidIsSent
<1>2. TypeInv /\ LockInv /\ OwnInv /\ SentInv /\ [Next]_vars => SentInv'
  BY SentStep
<1>. QED
  BY <1>1, <1>2, InitInv, LockHolds, PTL DEF Spec

=============================================================================
