----------------------------- MODULE Cheque_proofs -----------------------------
(***************************************************************************)
(* What Cheque promises, for any finite sets of users and confirmations,   *)
(* any count, and any number of clicks and failures.                       *)
(***************************************************************************)
EXTENDS Cheque, FiniteSetTheorems, TLAPS

Payment == Txs \cup {NoTx, ClaimTx}

TypeInv ==
  /\ draft \in 0..MaxCount /\ xdr \in Payment
  /\ ppc \in [Presses -> {"new", "done"} \cup Running]
  /\ ptx \in [Presses -> Payment] /\ pcount \in [Presses -> Nat]
  /\ ledger \subseteq Txs /\ IsFiniteSet(ledger) /\ funded \in Nat
  /\ rows \in Nat /\ count \in Nat /\ status \in {"CHEQUE", "CANCELED"}
  /\ history \subseteq Users /\ late \subseteq Users
  /\ queue \in Seq(Items) /\ wpc \in {"idle"} \cup Working /\ job \in Items
  /\ paid \in [Users -> Nat] /\ refunded \in Int

-----------------------------------------------------------------------------
\* Only the creator cancels, and the worker works on what it took.
WorkerInv ==
  /\ \A i \in 1..Len(queue) : queue[i].cancel => queue[i].user = Creator
  /\ wpc \in {"record", "build", "pay"} => ~job.cancel
  /\ wpc \in {"cancel", "refund"} => job = [user |-> Creator, cancel |-> TRUE]
  /\ wpc # "idle" => rows > 0

\* A receipt comes before the payment, and there is one of each.
ShareInv ==
  /\ \A u \in Users : paid[u] <= 1 /\ (u \notin history => paid[u] = 0)
  /\ wpc = "record" => job.user \notin history
  /\ wpc \in {"build", "pay"} => job.user \in history /\ paid[job.user] = 0

\* The receipts of claims that were taken before the cancellation, and the refund.
DrawInv ==
  /\ Cardinality(history) <= count
  /\ rows = 0 => history = {} /\ status = "CHEQUE"
  /\ wpc \in {"record", "cancel", "refund"} => Cardinality(history) < count
  /\ status = "CHEQUE" => refunded = 0 /\ late = {}
  /\ wpc = "cancel" => status = "CHEQUE"
  /\ wpc = "refund" => status = "CANCELED" /\ refunded = 0
  /\ status = "CANCELED" /\ wpc \in {"record", "build", "pay"} => job.user \in late
  /\ Cardinality(history \ late) + refunded <= count

-----------------------------------------------------------------------------
\* A confirmation pays for the count that it will read, or there is none to read.
FundInv ==
  /\ armed => draft # 0
  /\ \A t \in ledger : t.count <= funded
  /\ changed \/ swapped \/
       /\ draft # 0 => xdr = ClaimTx \/ (xdr \in Txs /\ xdr.count = draft)
       /\ \A p \in Presses :
            /\ ppc[p] \in {"sign", "submit", "read"} =>
                 ptx[p] \in Txs \ {ClaimTx} /\ draft \in {0, ptx[p].count}
            /\ ppc[p] = "read" => ptx[p].count <= funded
            /\ ppc[p] \in {"lookup", "create"} => pcount[p] <= funded
       /\ rows > 0 => count <= funded

\* Who has submitted has the cheque still to write; "ReSend" writes none.
AfterInv ==
  /\ armed => draft # 0
  /\ InProgress # {} => draft # 0 \/ wiped
  /\ ledger \ resent # {} =>
       \/ rows > 0 \/ wiped \/ lost
       \/ \E p \in Presses : ppc[p] \in {"read", "lookup", "create"}

-----------------------------------------------------------------------------
LEMMA NoItemType == NoItem \in Items
BY ChequeAssumption DEF NoItem, Items

LEMMA HistoryIsFinite ==
  ASSUME TypeInv
  PROVE  IsFiniteSet(history) /\ Cardinality(history) \in Nat
BY ChequeAssumption, FS_Subset, FS_CardinalityType DEF TypeInv

LEMMA LateIsLess ==
  ASSUME TypeInv
  PROVE  /\ Cardinality(history \ late) <= Cardinality(history)
         /\ Cardinality(history) \in Nat /\ Cardinality(history \ late) \in Nat
BY HistoryIsFinite, FS_Subset, FS_CardinalityType

LEMMA GotoType ==
  ASSUME TypeInv, NEW p \in Presses, NEW stage \in Running, Goto(p, stage)
  PROVE  /\ ppc' \in [Presses -> {"new", "done"} \cup Running]
         /\ ptx' \in [Presses -> Payment] /\ pcount' \in [Presses -> Nat]
BY DEF TypeInv, Goto

LEMMA FinishType ==
  ASSUME TypeInv, NEW p \in Presses, Finish(p)
  PROVE  /\ ppc' \in [Presses -> {"new", "done"} \cup Running]
         /\ ptx' \in [Presses -> Payment] /\ pcount' \in [Presses -> Nat]
BY DEF TypeInv, Finish, Payment

LEMMA AppliesAdds ==
  ASSUME TypeInv, NEW t, Applies(t)
  PROVE  /\ ledger' \subseteq Txs /\ IsFiniteSet(ledger')
         /\ funded' \in Nat /\ funded' >= funded
         /\ t = ClaimTx \/ t \in ledger'
         /\ \A x \in ledger' \ ledger : x.count <= funded'
         /\ (\A x \in ledger : x.count <= funded) => \A x \in ledger' : x.count <= funded'
<1>. USE DEF TypeInv
<1>1. \A x \in Txs : x.count \in Nat
  BY DEF Txs
<1>2. CASE t \in ledger \cup {ClaimTx} /\ UNCHANGED <<ledger, funded>>
  BY <1>2
<1>3. CASE t \in Txs \ ledger /\ ledger' = ledger \cup {t} /\ funded' = funded + t.count
  <2>1. IsFiniteSet(ledger')
    BY <1>3, FS_AddElement
  <2>. QED
    BY <1>1, <1>3, <2>1
<1>. QED
  BY <1>2, <1>3 DEF Applies

LEMMA ForgetType ==
  ASSUME TypeInv, NEW u \in Users, Forget(u)
  PROVE  draft' \in 0..MaxCount /\ xdr' \in Payment
BY ChequeAssumption DEF TypeInv, Forget, Payment

\* Every step keeps the types.
LEMMA TypeStep == TypeInv /\ [Next]_vars => TypeInv'
<1>. SUFFICES ASSUME TypeInv, [Next]_vars PROVE TypeInv'
  OBVIOUS
<1>. USE ChequeAssumption DEF fsmVars, pressVars, rowVars, clickVars, workerVars, payVars,
     resendVars, raceVars, faultVars
<1>1. ASSUME NEW n \in 1..MaxCount, EnterCount(n) PROVE TypeInv'
  <2>1. Cardinality(ledger) \in Nat
    BY FS_CardinalityType DEF TypeInv
  <2>2. xdr' \in Payment
    BY <1>1, <2>1 DEF EnterCount, Show, Payment, Txs
  <2>. QED
    BY <1>1, <2>2 DEF EnterCount, Show, TypeInv
<1>2. CASE Confirm
  BY <1>2 DEF Confirm, TypeInv
<1>3. ASSUME NEW p \in Presses, Press(p) PROVE TypeInv'
  <2>1. ppc' \in [Presses -> {"new", "done"} \cup Running] /\ ptx' \in [Presses -> Payment]
    BY <1>3 DEF Press, TypeInv, Running
  <2>. QED
    BY <1>3, <2>1 DEF Press, TypeInv
<1>4. ASSUME NEW p \in Presses, Sign(p) PROVE TypeInv'
  BY <1>4, GotoType DEF Sign, TypeInv, Running
<1>5. ASSUME NEW p \in Presses, Submit(p) PROVE TypeInv'
  <2>1. ledger' \subseteq Txs /\ IsFiniteSet(ledger') /\ funded' \in Nat
    BY <1>5, AppliesAdds DEF Submit, TypeInv
  <2>2. Goto(p, "read") \/ Finish(p)
    BY <1>5 DEF Submit
  <2>. QED
    BY <1>5, <2>1, <2>2, GotoType, FinishType DEF Submit, TypeInv, Running
<1>6. ASSUME NEW p \in Presses, ReadData(p) PROVE TypeInv'
  <2>1. Finish(p) \/ (draft \in Nat /\ ppc' = [ppc EXCEPT ![p] = "lookup"]
          /\ pcount' = [pcount EXCEPT ![p] = draft] /\ UNCHANGED ptx)
    BY <1>6 DEF ReadData, TypeInv
  <2>2. /\ ppc' \in [Presses -> {"new", "done"} \cup Running]
        /\ ptx' \in [Presses -> Payment] /\ pcount' \in [Presses -> Nat]
    BY <2>1, FinishType DEF TypeInv, Running
  <2>. QED
    BY <1>6, <2>2 DEF ReadData, TypeInv
<1>7. ASSUME NEW p \in Presses, Lookup(p) PROVE TypeInv'
  <2>1. Goto(p, "create") \/ Finish(p)
    BY <1>7 DEF Lookup
  <2>. QED
    BY <1>7, <2>1, GotoType, FinishType DEF Lookup, TypeInv, Running
<1>8. ASSUME NEW p \in Presses, Create(p) PROVE TypeInv'
  BY <1>8, FinishType DEF Create, TypeInv
<1>9. ASSUME NEW p \in Presses, PressFails(p) PROVE TypeInv'
  BY <1>9, FinishType DEF PressFails, TypeInv
<1>10. ASSUME NEW u \in Users, Open(u) PROVE TypeInv'
  BY <1>10, ForgetType DEF Open, TypeInv
<1>11. ASSUME NEW u \in Users, Cash(u) PROVE TypeInv'
  <2>1. queue' \in Seq(Items)
    BY <1>11 DEF Cash, Put, Items, TypeInv
  <2>. QED
    BY <1>11, <2>1 DEF Cash, Put, TypeInv
<1>12. ASSUME NEW u \in Users, Clear(u) PROVE TypeInv'
  BY <1>12, ForgetType DEF Clear, TypeInv
<1>13. CASE CancelCheque
  <2>1. queue' \in Seq(Items)
    BY <1>13, ChequeAssumption DEF CancelCheque, Put, Items, TypeInv
  <2>. QED
    BY <1>13, <2>1 DEF CancelCheque, Put, TypeInv
<1>14. CASE Take
  <2>1. queue # <<>> /\ queue' = Tail(queue) /\ Head(queue) \in Items
    BY <1>14 DEF Take, TypeInv
  <2>2. queue' \in Seq(Items)
    BY <2>1 DEF TypeInv
  <2>3. wpc' \in {"idle"} \cup Working /\ job' \in {job, Head(queue)}
    BY <1>14 DEF Take, Working, TypeInv
  <2>4. late' \subseteq late \cup {Head(queue).user}
    BY <1>14 DEF Take
  <2>5. late' \subseteq Users
    BY <2>1, <2>4 DEF Items, TypeInv
  <2>. QED
    BY <1>14, <2>1, <2>2, <2>3, <2>5 DEF Take, TypeInv
<1>15. CASE Record
  <2>1. history' \subseteq Users
    BY <1>15 DEF Record, Items, TypeInv
  <2>. QED
    BY <1>15, <2>1 DEF Record, Proceed, Working, TypeInv
<1>16. CASE Build
  <2>1. xdr' \in Payment
    BY <1>16 DEF Build, Stored, Payment, TypeInv
  <2>2. wpc' \in {"idle", "pay"} /\ job' \in {job, NoItem}
    BY <1>16 DEF Build, Rest, Proceed
  <2>. QED
    BY <1>16, <2>1, <2>2, NoItemType DEF Build, Working, TypeInv
<1>17. CASE Pay
  <2>1. paid' \in [Users -> Nat]
    BY <1>17 DEF Pay, Items, TypeInv
  <2>. QED
    BY <1>17, <2>1, NoItemType DEF Pay, Rest, TypeInv
<1>18. CASE CancelRow
  <2>1. /\ wpc' \in {"idle", "refund"} /\ job' \in {job, NoItem}
        /\ status' \in {"CHEQUE", "CANCELED"}
    BY <1>18 DEF CancelRow, Rest, Proceed, TypeInv
  <2>. QED
    BY <1>18, <2>1, NoItemType DEF CancelRow, Working, TypeInv
<1>19. CASE Refund
  <2>1. refunded' \in Int
    BY <1>19, HistoryIsFinite DEF Refund, Remaining, TypeInv
  <2>. QED
    BY <1>19, <2>1, NoItemType DEF Refund, Rest, TypeInv
<1>20. CASE ClaimElsewhere
  <2>1. xdr' \in Payment
    BY <1>20 DEF ClaimElsewhere, Stored, Payment, TypeInv
  <2>. QED
    BY <1>20, <2>1 DEF ClaimElsewhere, TypeInv
<1>21. CASE WorkerFails
  <2>1. paid' \in [Users -> Nat]
    <3>1. paid' = paid \/ paid' = [paid EXCEPT ![job.user] = paid[job.user] + 1]
      BY <1>21 DEF WorkerFails
    <3>. QED
      BY <3>1 DEF Items, TypeInv
  <2>2. refunded' \in Int
    BY <1>21, HistoryIsFinite DEF WorkerFails, Remaining, TypeInv
  <2>. QED
    BY <1>21, <2>1, <2>2, NoItemType DEF WorkerFails, Rest, TypeInv
<1>22. CASE Restart
  <2>1. /\ ppc' \in [Presses -> {"new", "done"} \cup Running]
        /\ ptx' \in [Presses -> Payment] /\ pcount' \in [Presses -> Nat]
    BY <1>22 DEF Restart, Payment, TypeInv
  <2>2. queue' \in Seq(Items)
    BY <1>22 DEF Restart
  <2>. QED
    BY <1>22, <2>1, <2>2, NoItemType DEF Restart, Rest, TypeInv
<1>23. CASE ReSend
  BY <1>23 DEF TypeInv, ReSend
<1>24. CASE ReSubmit
  BY <1>24, AppliesAdds DEF ReSubmit, TypeInv
<1>25. CASE UNCHANGED vars
  BY <1>25 DEF vars, TypeInv
<1>. QED
  BY <1>1, <1>2, <1>3, <1>4, <1>5, <1>6, <1>7, <1>8, <1>9, <1>10, <1>11, <1>12, <1>13, <1>14,
     <1>15, <1>16, <1>17, <1>18, <1>19, <1>20, <1>21, <1>22, <1>23, <1>24, <1>25
     DEF Next, WorkerStep

\* Every step keeps WorkerInv.
LEMMA WorkerInvStep == TypeInv /\ WorkerInv /\ [Next]_vars => WorkerInv'
<1>. SUFFICES ASSUME TypeInv, WorkerInv, [Next]_vars PROVE WorkerInv'
  OBVIOUS
<1>. USE DEF WorkerInv, Items, NoItem, fsmVars, pressVars, rowVars, clickVars, workerVars,
     payVars, resendVars, raceVars, faultVars
<1>1. ASSUME NEW n \in 1..MaxCount, EnterCount(n) PROVE WorkerInv'
  BY <1>1 DEF TypeInv, EnterCount, Show
<1>2. CASE Confirm
  BY <1>2 DEF TypeInv, Confirm
<1>3. ASSUME NEW p \in Presses, Press(p) PROVE WorkerInv'
  BY <1>3 DEF TypeInv, Press
<1>4. ASSUME NEW p \in Presses, Sign(p) PROVE WorkerInv'
  BY <1>4 DEF TypeInv, Sign, Goto
<1>5. ASSUME NEW p \in Presses, Submit(p) PROVE WorkerInv'
  BY <1>5 DEF TypeInv, Submit, Applies, Goto, Finish, Fault
<1>6. ASSUME NEW p \in Presses, ReadData(p) PROVE WorkerInv'
  BY <1>6 DEF TypeInv, ReadData, Finish
<1>7. ASSUME NEW p \in Presses, Lookup(p) PROVE WorkerInv'
  BY <1>7 DEF TypeInv, Lookup, Goto, Finish
<1>8. ASSUME NEW p \in Presses, Create(p) PROVE WorkerInv'
  BY <1>8 DEF TypeInv, Create, Finish
<1>9. ASSUME NEW p \in Presses, PressFails(p) PROVE WorkerInv'
  BY <1>9 DEF TypeInv, PressFails, Finish, Fault
<1>10. ASSUME NEW u \in Users, Open(u) PROVE WorkerInv'
  BY <1>10 DEF TypeInv, Open, Forget
<1>11. ASSUME NEW u \in Users, Cash(u) PROVE WorkerInv'
  BY <1>11 DEF TypeInv, Cash, Put
<1>12. ASSUME NEW u \in Users, Clear(u) PROVE WorkerInv'
  BY <1>12 DEF TypeInv, Clear, Forget
<1>13. CASE CancelCheque
  BY <1>13 DEF TypeInv, CancelCheque, Put
<1>14. CASE Take
  <2>1. /\ queue # <<>> /\ queue \in Seq(Items) /\ queue' = Tail(queue)
        /\ Head(queue) = queue[1] /\ Head(queue) \in Items /\ rows' = rows
    <3>1. queue # <<>> /\ queue' = Tail(queue) /\ rows' = rows
      BY <1>14 DEF Take
    <3>2. queue \in Seq(Items)
      BY DEF TypeInv
    <3>. HIDE DEF Items
    <3>3. Head(queue) = queue[1] /\ Head(queue) \in Items
      BY <3>1, <3>2
    <3>. QED
      BY <3>1, <3>2, <3>3
  <2>2. /\ Len(queue') = Len(queue) - 1 /\ Len(queue) \in Nat \ {0}
        /\ \A i \in 1..Len(queue') : queue'[i] = queue[i + 1]
    BY <2>1
  <2>3. \A i \in 1..Len(queue') : queue'[i].cancel => queue'[i].user = Creator
    BY <2>2
  <2>4. Head(queue).cancel => Head(queue) = [user |-> Creator, cancel |-> TRUE]
    BY <2>1, <2>2
  <2>5. \/ Head(queue).cancel /\ rows > 0 /\ wpc' = "cancel" /\ job' = Head(queue)
        \/ ~Head(queue).cancel /\ rows > 0 /\ wpc' = "record" /\ job' = Head(queue)
        \/ UNCHANGED workerVars
    BY <1>14 DEF Take, Claimable, Cancelable, TypeInv
  <2>. QED
    BY <2>1, <2>3, <2>4, <2>5
<1>15. CASE Record
  BY <1>15 DEF TypeInv, Record, Proceed
<1>16. CASE Build
  BY <1>16 DEF TypeInv, Build, Rest, Proceed, Stored
<1>17. CASE Pay
  BY <1>17 DEF TypeInv, Pay, Rest, Signed
<1>18. CASE CancelRow
  BY <1>18 DEF TypeInv, CancelRow, Proceed, Rest
<1>19. CASE Refund
  BY <1>19 DEF TypeInv, Refund, Rest, Remaining
<1>20. CASE ClaimElsewhere
  BY <1>20 DEF TypeInv, ClaimElsewhere, Stored
<1>21. CASE WorkerFails
  BY <1>21 DEF TypeInv, WorkerFails, Fault, Rest, Signed, Remaining
<1>22. CASE Restart
  BY <1>22 DEF TypeInv, Restart, Fault, Rest
<1>23. CASE ReSend
  BY <1>23 DEF TypeInv, ReSend
<1>24. CASE ReSubmit
  BY <1>24 DEF TypeInv, ReSubmit, Applies
<1>25. CASE UNCHANGED vars
  BY <1>25 DEF TypeInv, vars
<1>. QED
  BY <1>1, <1>2, <1>3, <1>4, <1>5, <1>6, <1>7, <1>8, <1>9, <1>10, <1>11, <1>12, <1>13, <1>14,
     <1>15, <1>16, <1>17, <1>18, <1>19, <1>20, <1>21, <1>22, <1>23, <1>24, <1>25
     DEF Next, WorkerStep

\* Every step keeps ShareInv.
LEMMA ShareStep == TypeInv /\ WorkerInv /\ ShareInv /\ [Next]_vars => ShareInv'
<1>. SUFFICES ASSUME TypeInv, WorkerInv, ShareInv, [Next]_vars PROVE ShareInv'
  OBVIOUS
<1>. USE DEF ShareInv, Items, NoItem, fsmVars, pressVars, rowVars, clickVars, workerVars, payVars,
     resendVars, raceVars, faultVars
<1>1. ASSUME NEW n \in 1..MaxCount, EnterCount(n) PROVE ShareInv'
  BY <1>1 DEF TypeInv, EnterCount, Show
<1>2. CASE Confirm
  BY <1>2 DEF TypeInv, Confirm
<1>3. ASSUME NEW p \in Presses, Press(p) PROVE ShareInv'
  BY <1>3 DEF TypeInv, Press
<1>4. ASSUME NEW p \in Presses, Sign(p) PROVE ShareInv'
  BY <1>4 DEF TypeInv, Sign, Goto
<1>5. ASSUME NEW p \in Presses, Submit(p) PROVE ShareInv'
  BY <1>5 DEF TypeInv, Submit, Applies, Goto, Finish, Fault
<1>6. ASSUME NEW p \in Presses, ReadData(p) PROVE ShareInv'
  BY <1>6 DEF TypeInv, ReadData, Finish
<1>7. ASSUME NEW p \in Presses, Lookup(p) PROVE ShareInv'
  BY <1>7 DEF TypeInv, Lookup, Goto, Finish
<1>8. ASSUME NEW p \in Presses, Create(p) PROVE ShareInv'
  BY <1>8 DEF TypeInv, Create, Finish
<1>9. ASSUME NEW p \in Presses, PressFails(p) PROVE ShareInv'
  BY <1>9 DEF TypeInv, PressFails, Finish, Fault
<1>10. ASSUME NEW u \in Users, Open(u) PROVE ShareInv'
  BY <1>10 DEF TypeInv, Open, Forget
<1>11. ASSUME NEW u \in Users, Cash(u) PROVE ShareInv'
  BY <1>11 DEF TypeInv, Cash, Put
<1>12. ASSUME NEW u \in Users, Clear(u) PROVE ShareInv'
  BY <1>12 DEF TypeInv, Clear, Forget
<1>13. CASE CancelCheque
  BY <1>13 DEF TypeInv, CancelCheque, Put
<1>14. CASE Take
  BY <1>14 DEF TypeInv, Take, Claimable, Cancelable, Remaining
<1>15. CASE Record
  BY <1>15 DEF TypeInv, Record, Proceed
<1>16. CASE Build
  BY <1>16 DEF TypeInv, Build, Rest, Proceed, Stored
<1>17. CASE Pay
  BY <1>17 DEF TypeInv, Pay, Rest, Signed
<1>18. CASE CancelRow
  BY <1>18 DEF TypeInv, CancelRow, Proceed, Rest
<1>19. CASE Refund
  BY <1>19 DEF TypeInv, Refund, Rest, Remaining
<1>20. CASE ClaimElsewhere
  BY <1>20 DEF TypeInv, ClaimElsewhere, Stored
<1>21. CASE WorkerFails
  BY <1>21 DEF TypeInv, WorkerFails, Fault, Rest, Signed, Remaining
<1>22. CASE Restart
  BY <1>22 DEF TypeInv, Restart, Fault, Rest
<1>23. CASE ReSend
  BY <1>23 DEF TypeInv, ReSend
<1>24. CASE ReSubmit
  BY <1>24 DEF TypeInv, ReSubmit, Applies
<1>25. CASE UNCHANGED vars
  BY <1>25 DEF TypeInv, vars
<1>. QED
  BY <1>1, <1>2, <1>3, <1>4, <1>5, <1>6, <1>7, <1>8, <1>9, <1>10, <1>11, <1>12, <1>13, <1>14,
     <1>15, <1>16, <1>17, <1>18, <1>19, <1>20, <1>21, <1>22, <1>23, <1>24, <1>25
     DEF Next, WorkerStep

\* Every step keeps DrawInv.
LEMMA DrawStep == TypeInv /\ WorkerInv /\ DrawInv /\ [Next]_vars => DrawInv'
<1>. SUFFICES ASSUME TypeInv, WorkerInv, DrawInv, [Next]_vars PROVE DrawInv'
  OBVIOUS
<1>. USE DEF DrawInv, Items, NoItem, fsmVars, pressVars, rowVars, clickVars, workerVars, payVars,
     resendVars, raceVars, faultVars
<1>1. ASSUME NEW n \in 1..MaxCount, EnterCount(n) PROVE DrawInv'
  BY <1>1 DEF TypeInv, WorkerInv, EnterCount, Show
<1>2. CASE Confirm
  BY <1>2 DEF TypeInv, WorkerInv, Confirm
<1>3. ASSUME NEW p \in Presses, Press(p) PROVE DrawInv'
  BY <1>3 DEF TypeInv, WorkerInv, Press
<1>4. ASSUME NEW p \in Presses, Sign(p) PROVE DrawInv'
  BY <1>4 DEF TypeInv, WorkerInv, Sign, Goto
<1>5. ASSUME NEW p \in Presses, Submit(p) PROVE DrawInv'
  BY <1>5 DEF TypeInv, WorkerInv, Submit, Applies, Goto, Finish, Fault
<1>6. ASSUME NEW p \in Presses, ReadData(p) PROVE DrawInv'
  BY <1>6 DEF TypeInv, WorkerInv, ReadData, Finish
<1>7. ASSUME NEW p \in Presses, Lookup(p) PROVE DrawInv'
  BY <1>7 DEF TypeInv, WorkerInv, Lookup, Goto, Finish
<1>8. ASSUME NEW p \in Presses, Create(p) PROVE DrawInv'
  <2>1. rows' = rows + 1 /\ count' \in Nat /\ (rows # 0 => count' = count)
    BY <1>8 DEF Create, TypeInv
  <2>2. rows = 0 => history = {} /\ history \ late = {} /\ refunded = 0 /\ wpc = "idle"
    BY DEF WorkerInv
  <2>3. Cardinality({}) = 0
    BY FS_EmptySet
  <2>4. CASE rows = 0
    <3>1. /\ history' = {} /\ (history \ late)' = {} /\ refunded' = 0 /\ wpc' = "idle"
          /\ rows' # 0 /\ status' = status /\ late' = late
      BY <1>8, <2>1, <2>2, <2>4 DEF Create
    <3>2. Cardinality(history') = 0 /\ Cardinality((history \ late)') = 0
      BY <2>3, <3>1
    <3>. QED
      BY <2>1, <2>4, <3>1, <3>2
  <2>5. CASE rows # 0
    BY <1>8, <2>1, <2>5 DEF Create, TypeInv
  <2>. QED
    BY <2>4, <2>5
<1>9. ASSUME NEW p \in Presses, PressFails(p) PROVE DrawInv'
  BY <1>9 DEF TypeInv, WorkerInv, PressFails, Finish, Fault
<1>10. ASSUME NEW u \in Users, Open(u) PROVE DrawInv'
  BY <1>10 DEF TypeInv, WorkerInv, Open, Forget
<1>11. ASSUME NEW u \in Users, Cash(u) PROVE DrawInv'
  BY <1>11 DEF TypeInv, WorkerInv, Cash, Put
<1>12. ASSUME NEW u \in Users, Clear(u) PROVE DrawInv'
  BY <1>12 DEF TypeInv, WorkerInv, Clear, Forget
<1>13. CASE CancelCheque
  BY <1>13 DEF TypeInv, WorkerInv, CancelCheque, Put
<1>14. CASE Take
  <2>1. late \subseteq late' /\ history \ late' \subseteq history \ late
    BY <1>14 DEF Take
  <2>2. Cardinality(history \ late') <= Cardinality(history \ late)
    BY <2>1, HistoryIsFinite, FS_Subset
  <2>3. Cardinality(history \ late') \in Nat /\ Cardinality(history \ late) \in Nat
    BY HistoryIsFinite, FS_Subset, FS_CardinalityType
  <2>4. Cardinality(history \ late') + refunded <= count
    BY <2>2, <2>3 DEF TypeInv
  <2>5. /\ wpc = "idle"
        /\ \/ wpc' = "cancel" /\ status = "CHEQUE" /\ Remaining > 0 /\ late' = late
           \/ /\ wpc' = "record" /\ Cardinality(history) < count
              /\ late' = IF status = "CANCELED" THEN late \cup {job'.user} ELSE late
           \/ wpc' = wpc /\ late' = late
    BY <1>14 DEF Take, Claimable, Cancelable
  <2>6. wpc' \in {"record", "cancel", "refund"} => Cardinality(history) < count
    BY <2>5, HistoryIsFinite DEF Remaining, TypeInv
  <2>7. status = "CHEQUE" => late' = {}
    BY <2>5
  <2>. QED
    BY <1>14, <2>4, <2>5, <2>6, <2>7 DEF Take
<1>15. CASE Record
  <2>1. history' = history \cup {job.user} /\ Cardinality(history) < count /\ rows > 0
    BY <1>15 DEF Record, WorkerInv
  <2>2. Cardinality(history') <= Cardinality(history) + 1 /\ Cardinality(history') \in Nat
    <3>1. Cardinality(history') = IF job.user \in history THEN Cardinality(history)
                                  ELSE Cardinality(history) + 1
      BY <2>1, HistoryIsFinite, FS_AddElement
    <3>. QED
      BY <3>1, HistoryIsFinite
  <2>3. Cardinality(history') <= count
    BY <2>1, <2>2, HistoryIsFinite DEF TypeInv
  <2>4. Cardinality(history' \ late) + refunded <= count
    <3>1. CASE status = "CANCELED"
      <4>1. history' \ late = history \ late
        BY <1>15, <2>1, <3>1 DEF Record
      <4>. QED
        BY <4>1
    <3>2. CASE status = "CHEQUE"
      <4>1. history' \ late = history' /\ refunded = 0
        BY <3>2
      <4>. QED
        BY <2>2, <2>3, <4>1
    <3>. QED
      BY <3>1, <3>2 DEF TypeInv
  <2>. QED
    BY <1>15, <2>1, <2>3, <2>4 DEF Record, Proceed, TypeInv
<1>16. CASE Build
  BY <1>16 DEF TypeInv, WorkerInv, Build, Rest, Proceed, Stored
<1>17. CASE Pay
  BY <1>17 DEF TypeInv, WorkerInv, Pay, Rest, Signed
<1>18. CASE CancelRow
  BY <1>18 DEF TypeInv, WorkerInv, CancelRow, Proceed, Rest
<1>19. CASE Refund
  <2>1. refunded' = count - Cardinality(history) /\ wpc' = "idle" /\ status = "CANCELED"
    BY <1>19, HistoryIsFinite DEF Refund, Rest, Remaining, TypeInv
  <2>2. Cardinality(history \ late) + refunded' <= count
    BY <2>1, LateIsLess DEF TypeInv
  <2>. QED
    BY <1>19, <2>1, <2>2 DEF Refund
<1>20. CASE ClaimElsewhere
  BY <1>20 DEF TypeInv, WorkerInv, ClaimElsewhere, Stored
<1>21. CASE WorkerFails
  <2>1. /\ wpc' = "idle"
        /\ \/ refunded' = refunded
           \/ refunded' = count - Cardinality(history) /\ status = "CANCELED"
    BY <1>21, HistoryIsFinite DEF WorkerFails, Rest, Remaining, TypeInv
  <2>2. Cardinality(history \ late) + refunded' <= count
    BY <2>1, LateIsLess DEF TypeInv
  <2>. QED
    BY <1>21, <2>1, <2>2 DEF WorkerFails
<1>22. CASE Restart
  BY <1>22 DEF TypeInv, WorkerInv, Restart, Fault, Rest
<1>23. CASE ReSend
  BY <1>23 DEF TypeInv, WorkerInv, ReSend
<1>24. CASE ReSubmit
  BY <1>24 DEF TypeInv, WorkerInv, ReSubmit, Applies
<1>25. CASE UNCHANGED vars
  BY <1>25 DEF TypeInv, WorkerInv, vars
<1>. QED
  BY <1>1, <1>2, <1>3, <1>4, <1>5, <1>6, <1>7, <1>8, <1>9, <1>10, <1>11, <1>12, <1>13, <1>14,
     <1>15, <1>16, <1>17, <1>18, <1>19, <1>20, <1>21, <1>22, <1>23, <1>24, <1>25
     DEF Next, WorkerStep

\* Every step keeps FundInv.
LEMMA FundStep == TypeInv /\ FundInv /\ [Next]_vars => FundInv'
<1>. SUFFICES ASSUME TypeInv, FundInv, [Next]_vars PROVE FundInv'
  OBVIOUS
<1>. USE DEF FundInv, Txs, Running, InProgress, fsmVars, pressVars, rowVars, clickVars,
     workerVars, payVars, resendVars, raceVars, faultVars
<1>1. ASSUME NEW n \in 1..MaxCount, EnterCount(n) PROVE FundInv'
  <2>1. Cardinality(ledger) \in Nat
    BY FS_CardinalityType DEF TypeInv
  <2>2. xdr' \in Txs /\ xdr'.count = n /\ draft' = n
    BY <1>1, <2>1 DEF EnterCount, Show
  <2>3. ~changed' => ~changed /\ (InProgress = {} \/ n = draft)
    BY <1>1 DEF EnterCount
  <2>. QED
    BY <1>1, <2>2, <2>3 DEF EnterCount, Show
<1>2. CASE Confirm
  BY <1>2 DEF TypeInv, Confirm
<1>3. ASSUME NEW p \in Presses, Press(p) PROVE FundInv'
  BY <1>3 DEF TypeInv, Press
<1>4. ASSUME NEW p \in Presses, Sign(p) PROVE FundInv'
  BY <1>4 DEF TypeInv, Sign, Goto
<1>5. ASSUME NEW p \in Presses, Submit(p) PROVE FundInv'
  <2>1. /\ funded' \in Nat /\ funded' >= funded /\ \A t \in ledger' : t.count <= funded'
        /\ Applies(ptx[p]) => ptx[p] = ClaimTx \/ ptx[p] \in ledger'
    <3>1. Applies(ptx[p]) \/ UNCHANGED <<ledger, funded>>
      BY <1>5 DEF Submit
    <3>2. funded \in Nat /\ funded >= funded
      BY DEF TypeInv
    <3>. QED
      BY <3>1, <3>2, AppliesAdds
  <2>2. \A q \in Presses :
          q # p => ppc'[q] = ppc[q] /\ ptx'[q] = ptx[q] /\ pcount'[q] = pcount[q]
    BY <1>5 DEF Submit, Goto, Finish, TypeInv
  <2>3. /\ ppc[p] = "submit"
        /\ \/ ppc'[p] = "read" /\ ptx'[p] = ptx[p] /\ Applies(ptx[p])
           \/ ppc'[p] = "done"
    BY <1>5 DEF Submit, Goto, Finish, TypeInv
  <2>4. \A q \in Presses : pcount[q] \in Nat
    BY DEF TypeInv
  <2>5. UNCHANGED <<fsmVars, rowVars, raceVars>>
    BY <1>5 DEF Submit
  <2>6. ASSUME ~changed, ~swapped, NEW q \in Presses
        PROVE  /\ ppc'[q] \in {"sign", "submit", "read"} =>
                    ptx'[q] \in Txs \ {ClaimTx} /\ draft \in {0, ptx'[q].count}
               /\ ppc'[q] = "read" => ptx'[q].count <= funded'
               /\ ppc'[q] \in {"lookup", "create"} => pcount'[q] <= funded'
    <3>1. CASE q = p
      BY <2>1, <2>3, <2>6, <3>1
    <3>2. CASE q # p
      <4>1. ppc[q] = "read" => ptx[q].count \in Nat
        BY <2>6
      <4>. QED
        BY <2>1, <2>2, <2>4, <2>6, <3>2, <4>1 DEF TypeInv
    <3>. QED
      BY <3>1, <3>2
  <2>7. rows > 0 /\ ~changed /\ ~swapped => count <= funded'
    BY <2>1 DEF TypeInv
  <2>. QED
    BY <2>1, <2>5, <2>6, <2>7
<1>6. ASSUME NEW p \in Presses, ReadData(p) PROVE FundInv'
  <2>1. \A q \in Presses :
          q # p => ppc'[q] = ppc[q] /\ ptx'[q] = ptx[q] /\ pcount'[q] = pcount[q]
    BY <1>6 DEF ReadData, Finish, TypeInv
  <2>2. ppc'[p] = "done" \/ (ppc'[p] = "lookup" /\ pcount'[p] = draft /\ draft # 0)
    BY <1>6 DEF ReadData, Finish, TypeInv
  <2>3. ppc[p] = "read" /\ UNCHANGED <<fsmVars, ledger, funded, rowVars, raceVars>>
    BY <1>6 DEF ReadData
  <2>4. ASSUME ~changed, ~swapped, NEW q \in Presses
        PROVE  /\ ppc'[q] \in {"sign", "submit", "read"} =>
                    ptx'[q] \in Txs \ {ClaimTx} /\ draft \in {0, ptx'[q].count}
               /\ ppc'[q] = "read" => ptx'[q].count <= funded
               /\ ppc'[q] \in {"lookup", "create"} => pcount'[q] <= funded
    <3>1. CASE q = p
      BY <2>2, <2>3, <2>4, <3>1
    <3>2. CASE q # p
      BY <2>1, <2>4, <3>2
    <3>. QED
      BY <3>1, <3>2
  <2>. QED
    BY <2>3, <2>4
<1>7. ASSUME NEW p \in Presses, Lookup(p) PROVE FundInv'
  BY <1>7 DEF TypeInv, Lookup, Goto, Finish
<1>8. ASSUME NEW p \in Presses, Create(p) PROVE FundInv'
  BY <1>8 DEF TypeInv, Create, Finish
<1>9. ASSUME NEW p \in Presses, PressFails(p) PROVE FundInv'
  BY <1>9 DEF TypeInv, PressFails, Finish, Fault
<1>10. ASSUME NEW u \in Users, Open(u) PROVE FundInv'
  BY <1>10 DEF TypeInv, Open, Forget
<1>11. ASSUME NEW u \in Users, Cash(u) PROVE FundInv'
  BY <1>11 DEF TypeInv, Cash, Put
<1>12. ASSUME NEW u \in Users, Clear(u) PROVE FundInv'
  BY <1>12 DEF TypeInv, Clear, Forget
<1>13. CASE CancelCheque
  BY <1>13 DEF TypeInv, CancelCheque, Put
<1>14. CASE Take
  BY <1>14 DEF TypeInv, Take, Claimable, Cancelable, Remaining
<1>15. CASE Record
  BY <1>15 DEF TypeInv, Record, Proceed
<1>16. CASE Build
  BY <1>16 DEF TypeInv, Build, Rest, Proceed, Stored
<1>17. CASE Pay
  BY <1>17 DEF TypeInv, Pay, Rest, Signed
<1>18. CASE CancelRow
  BY <1>18 DEF TypeInv, CancelRow, Proceed, Rest
<1>19. CASE Refund
  BY <1>19 DEF TypeInv, Refund, Rest, Remaining
<1>20. CASE ClaimElsewhere
  BY <1>20 DEF TypeInv, ClaimElsewhere, Stored
<1>21. CASE WorkerFails
  BY <1>21 DEF TypeInv, WorkerFails, Fault, Rest, Signed, Remaining
<1>22. CASE Restart
  BY <1>22 DEF TypeInv, Restart, Fault, Rest
<1>23. CASE ReSend
  BY <1>23 DEF TypeInv, ReSend
<1>24. CASE ReSubmit
  <2>1. /\ funded' \in Nat /\ funded' >= funded /\ \A t \in ledger' : t.count <= funded'
        /\ UNCHANGED <<fsmVars, pressVars, rowVars, raceVars>>
    BY <1>24, AppliesAdds DEF ReSubmit, TypeInv
  <2>2. \A n \in Nat : n <= funded => n <= funded'
    BY <2>1 DEF TypeInv
  <2>3. /\ \A p \in Presses : pcount[p] \in Nat /\ (ptx[p] \in Txs => ptx[p].count \in Nat)
        /\ count \in Nat
    BY DEF TypeInv
  <2>. QED
    BY <2>1, <2>2, <2>3
<1>25. CASE UNCHANGED vars
  BY <1>25 DEF TypeInv, vars
<1>. QED
  BY <1>1, <1>2, <1>3, <1>4, <1>5, <1>6, <1>7, <1>8, <1>9, <1>10, <1>11, <1>12, <1>13, <1>14,
     <1>15, <1>16, <1>17, <1>18, <1>19, <1>20, <1>21, <1>22, <1>23, <1>24, <1>25
     DEF Next, WorkerStep

\* Every step keeps AfterInv.
LEMMA AfterStep == TypeInv /\ AfterInv /\ [Next]_vars => AfterInv'
<1>. SUFFICES ASSUME TypeInv, AfterInv, [Next]_vars PROVE AfterInv'
  OBVIOUS
<1>. USE DEF AfterInv, Running, InProgress, fsmVars, pressVars, rowVars, clickVars, workerVars,
     payVars, resendVars, raceVars, faultVars
<1>1. ASSUME NEW n \in 1..MaxCount, EnterCount(n) PROVE AfterInv'
  BY <1>1 DEF TypeInv, EnterCount, Show
<1>2. CASE Confirm
  BY <1>2 DEF TypeInv, Confirm
<1>3. ASSUME NEW p \in Presses, Press(p) PROVE AfterInv'
  BY <1>3 DEF TypeInv, Press
<1>4. ASSUME NEW p \in Presses, Sign(p) PROVE AfterInv'
  BY <1>4 DEF TypeInv, Sign, Goto
<1>5. ASSUME NEW p \in Presses, Submit(p) PROVE AfterInv'
  BY <1>5 DEF TypeInv, Submit, Applies, Goto, Finish, Fault
<1>6. ASSUME NEW p \in Presses, ReadData(p) PROVE AfterInv'
  BY <1>6 DEF TypeInv, ReadData, Finish
<1>7. ASSUME NEW p \in Presses, Lookup(p) PROVE AfterInv'
  BY <1>7 DEF TypeInv, Lookup, Goto, Finish
<1>8. ASSUME NEW p \in Presses, Create(p) PROVE AfterInv'
  BY <1>8 DEF TypeInv, Create, Finish
<1>9. ASSUME NEW p \in Presses, PressFails(p) PROVE AfterInv'
  BY <1>9 DEF TypeInv, PressFails, Finish, Fault
<1>10. ASSUME NEW u \in Users, Open(u) PROVE AfterInv'
  BY <1>10 DEF TypeInv, Open, Forget
<1>11. ASSUME NEW u \in Users, Cash(u) PROVE AfterInv'
  BY <1>11 DEF TypeInv, Cash, Put
<1>12. ASSUME NEW u \in Users, Clear(u) PROVE AfterInv'
  BY <1>12 DEF TypeInv, Clear, Forget
<1>13. CASE CancelCheque
  BY <1>13 DEF TypeInv, CancelCheque, Put
<1>14. CASE Take
  BY <1>14 DEF TypeInv, Take, Claimable, Cancelable, Remaining
<1>15. CASE Record
  BY <1>15 DEF TypeInv, Record, Proceed
<1>16. CASE Build
  BY <1>16 DEF TypeInv, Build, Rest, Proceed, Stored
<1>17. CASE Pay
  BY <1>17 DEF TypeInv, Pay, Rest, Signed
<1>18. CASE CancelRow
  BY <1>18 DEF TypeInv, CancelRow, Proceed, Rest
<1>19. CASE Refund
  BY <1>19 DEF TypeInv, Refund, Rest, Remaining
<1>20. CASE ClaimElsewhere
  BY <1>20 DEF TypeInv, ClaimElsewhere, Stored
<1>21. CASE WorkerFails
  BY <1>21 DEF TypeInv, WorkerFails, Fault, Rest, Signed, Remaining
<1>22. CASE Restart
  BY <1>22 DEF TypeInv, Restart, Fault, Rest
<1>23. CASE ReSend
  BY <1>23 DEF TypeInv, ReSend
<1>24. CASE ReSubmit
  BY <1>24 DEF TypeInv, ReSubmit, Applies
<1>25. CASE UNCHANGED vars
  BY <1>25 DEF TypeInv, vars
<1>. QED
  BY <1>1, <1>2, <1>3, <1>4, <1>5, <1>6, <1>7, <1>8, <1>9, <1>10, <1>11, <1>12, <1>13, <1>14,
     <1>15, <1>16, <1>17, <1>18, <1>19, <1>20, <1>21, <1>22, <1>23, <1>24, <1>25
     DEF Next, WorkerStep

\* Every step keeps CommitsAreHonoured.
LEMMA CommitStep ==
  TypeInv /\ WorkerInv /\ ShareInv /\ DrawInv /\ CommitsAreHonoured /\ [Next]_vars
    => CommitsAreHonoured'
<1>. SUFFICES ASSUME TypeInv, WorkerInv, ShareInv, DrawInv, CommitsAreHonoured, [Next]_vars
              PROVE  CommitsAreHonoured'
  OBVIOUS
<1>. USE DEF CommitsAreHonoured, Signed, Items, NoItem, fsmVars, pressVars, rowVars, clickVars,
     workerVars, payVars, resendVars, raceVars, faultVars
<1>1. ASSUME NEW n \in 1..MaxCount, EnterCount(n) PROVE CommitsAreHonoured'
  BY <1>1 DEF TypeInv, WorkerInv, ShareInv, DrawInv, EnterCount, Show
<1>2. CASE Confirm
  BY <1>2 DEF TypeInv, WorkerInv, ShareInv, DrawInv, Confirm
<1>3. ASSUME NEW p \in Presses, Press(p) PROVE CommitsAreHonoured'
  BY <1>3 DEF TypeInv, WorkerInv, ShareInv, DrawInv, Press
<1>4. ASSUME NEW p \in Presses, Sign(p) PROVE CommitsAreHonoured'
  BY <1>4 DEF TypeInv, WorkerInv, ShareInv, DrawInv, Sign, Goto
<1>5. ASSUME NEW p \in Presses, Submit(p) PROVE CommitsAreHonoured'
  BY <1>5 DEF TypeInv, WorkerInv, ShareInv, DrawInv, Submit, Applies, Goto, Finish, Fault
<1>6. ASSUME NEW p \in Presses, ReadData(p) PROVE CommitsAreHonoured'
  BY <1>6 DEF TypeInv, WorkerInv, ShareInv, DrawInv, ReadData, Finish
<1>7. ASSUME NEW p \in Presses, Lookup(p) PROVE CommitsAreHonoured'
  BY <1>7 DEF TypeInv, WorkerInv, ShareInv, DrawInv, Lookup, Goto, Finish
<1>8. ASSUME NEW p \in Presses, Create(p) PROVE CommitsAreHonoured'
  BY <1>8 DEF TypeInv, WorkerInv, ShareInv, DrawInv, Create, Finish
<1>9. ASSUME NEW p \in Presses, PressFails(p) PROVE CommitsAreHonoured'
  BY <1>9 DEF TypeInv, WorkerInv, ShareInv, DrawInv, PressFails, Finish, Fault
<1>10. ASSUME NEW u \in Users, Open(u) PROVE CommitsAreHonoured'
  BY <1>10 DEF TypeInv, WorkerInv, ShareInv, DrawInv, Open, Forget
<1>11. ASSUME NEW u \in Users, Cash(u) PROVE CommitsAreHonoured'
  BY <1>11 DEF TypeInv, WorkerInv, ShareInv, DrawInv, Cash, Put
<1>12. ASSUME NEW u \in Users, Clear(u) PROVE CommitsAreHonoured'
  BY <1>12 DEF TypeInv, WorkerInv, ShareInv, DrawInv, Clear, Forget
<1>13. CASE CancelCheque
  BY <1>13 DEF TypeInv, WorkerInv, ShareInv, DrawInv, CancelCheque, Put
<1>14. CASE Take
  BY <1>14 DEF TypeInv, WorkerInv, ShareInv, DrawInv, Take, Claimable, Cancelable, Remaining
<1>15. CASE Record
  BY <1>15 DEF TypeInv, WorkerInv, ShareInv, DrawInv, Record, Proceed
<1>16. CASE Build
  BY <1>16 DEF TypeInv, WorkerInv, ShareInv, DrawInv, Build, Rest, Proceed, Stored
<1>17. CASE Pay
  BY <1>17 DEF TypeInv, WorkerInv, ShareInv, DrawInv, Pay, Rest, Signed
<1>18. CASE CancelRow
  BY <1>18 DEF TypeInv, WorkerInv, ShareInv, DrawInv, CancelRow, Proceed, Rest
<1>19. CASE Refund
  <2>1. refunded' # 0
    BY <1>19, HistoryIsFinite DEF Refund, Remaining, DrawInv, TypeInv
  <2>. QED
    BY <1>19, <2>1 DEF Refund, Rest
<1>20. CASE ClaimElsewhere
  BY <1>20 DEF TypeInv, WorkerInv, ShareInv, DrawInv, ClaimElsewhere, Stored
<1>21. CASE WorkerFails
  BY <1>21 DEF TypeInv, WorkerInv, ShareInv, DrawInv, WorkerFails, Fault, Rest, Signed, Remaining
<1>22. CASE Restart
  BY <1>22 DEF TypeInv, WorkerInv, ShareInv, DrawInv, Restart, Fault, Rest
<1>23. CASE ReSend
  BY <1>23 DEF TypeInv, WorkerInv, ShareInv, DrawInv, ReSend
<1>24. CASE ReSubmit
  BY <1>24 DEF TypeInv, WorkerInv, ShareInv, DrawInv, ReSubmit, Applies
<1>25. CASE UNCHANGED vars
  BY <1>25 DEF TypeInv, WorkerInv, ShareInv, DrawInv, vars
<1>. QED
  BY <1>1, <1>2, <1>3, <1>4, <1>5, <1>6, <1>7, <1>8, <1>9, <1>10, <1>11, <1>12, <1>13, <1>14,
     <1>15, <1>16, <1>17, <1>18, <1>19, <1>20, <1>21, <1>22, <1>23, <1>24, <1>25
     DEF Next, WorkerStep

-----------------------------------------------------------------------------
LEMMA InitInv ==
  Init => /\ TypeInv /\ WorkerInv /\ ShareInv /\ DrawInv /\ FundInv /\ AfterInv
          /\ CommitsAreHonoured
<1>. SUFFICES ASSUME Init
              PROVE  /\ TypeInv /\ WorkerInv /\ ShareInv /\ DrawInv /\ FundInv /\ AfterInv
                     /\ CommitsAreHonoured
  OBVIOUS
<1>1. IsFiniteSet({}) /\ Cardinality({}) = 0
  BY FS_EmptySet
<1>2. TypeInv
  <2>1. /\ ppc \in [Presses -> {"new", "done"} \cup Running]
        /\ ptx \in [Presses -> Payment] /\ pcount \in [Presses -> Nat]
    BY DEF Init, Payment
  <2>2. draft \in 0..MaxCount /\ xdr \in Payment /\ queue \in Seq(Items) /\ job \in Items
    BY NoItemType, ChequeAssumption DEF Init, Payment
  <2>3. paid \in [Users -> Nat]
    BY DEF Init
  <2>. QED
    BY <1>1, <2>1, <2>2, <2>3 DEF Init, TypeInv
<1>3. WorkerInv
  BY DEF Init, WorkerInv
<1>4. ShareInv
  BY DEF Init, ShareInv
<1>5. DrawInv
  <2>1. history = {} /\ history \ late = {}
    BY DEF Init
  <2>. QED
    BY <1>1, <2>1 DEF Init, DrawInv
<1>6. FundInv
  BY DEF Init, FundInv
<1>7. AfterInv
  BY DEF Init, AfterInv, InProgress, Running
<1>8. CommitsAreHonoured
  BY DEF Init, CommitsAreHonoured
<1>. QED
  BY <1>2, <1>3, <1>4, <1>5, <1>6, <1>7, <1>8

\* The types, the worker and the receipts: a claim is on its way only after its receipt, and
\* the receipts never outnumber cheque_count.
THEOREM Foundations == Spec => [](TypeInv /\ WorkerInv /\ ShareInv /\ DrawInv)
<1>1. TypeInv /\ WorkerInv /\ ShareInv /\ DrawInv /\ [Next]_vars
        => (TypeInv /\ WorkerInv /\ ShareInv /\ DrawInv)'
  BY TypeStep, WorkerInvStep, ShareStep, DrawStep
<1>. QED
  BY <1>1, InitInv, PTL DEF Spec

\* However often "Cash" is pressed, queued, interrupted by a restart or lost in a failure,
\* cheque_worker() pays each user one share at most.
THEOREM OneShareEachHolds == Spec => []OneShareEach
<1>1. ShareInv => OneShareEach
  BY DEF ShareInv, OneShareEach
<1>. QED
  BY <1>1, Foundations, PTL

\* Shares and refund never exceed cheque_count, except for claims that ClaimCheque accepts
\* after the cancellation.
THEOREM NeverOverdrawnHolds == Spec => []NeverOverdrawn
<1>1. TypeInv /\ ShareInv /\ DrawInv => NeverOverdrawn
  <2>. SUFFICES ASSUME TypeInv, ShareInv, DrawInv PROVE NeverOverdrawn
    OBVIOUS
  <2>. DEFINE P == {u \in Users \ late : paid[u] > 0}
  <2>1. P \subseteq history \ late
    BY DEF ShareInv
  <2>2. IsFiniteSet(history \ late)
    BY HistoryIsFinite, FS_Subset
  <2>3. Cardinality(P) <= Cardinality(history \ late) /\ Cardinality(P) \in Nat
    BY <2>1, <2>2, FS_Subset, FS_CardinalityType
  <2>. HIDE DEF P
  <2>4. Cardinality(P) + refunded <= count
    BY <2>3, LateIsLess DEF DrawInv, TypeInv
  <2>. QED
    BY <2>4 DEF P, NeverOverdrawn
<1>. QED
  BY <1>1, Foundations, PTL

\* The cheque that cheque_after_send() writes promises no more than the escrow account
\* received, whatever confirmations overlap, unless the count was changed under one of them
\* or a claim's payment took the place of the cheque's.
THEOREM ChequeIsFundedHolds == Spec => []ChequeIsFunded
<1>1. FundInv => ChequeIsFunded
  BY DEF FundInv, ChequeIsFunded
<1>2. TypeInv /\ FundInv /\ [Next]_vars => FundInv'
  BY FundStep
<1>. QED
  BY <1>1, <1>2, InitInv, Foundations, PTL DEF Spec

\* What the escrow account received has its row when no confirmation is running, or the
\* confirmation failed after the submission, or clear_state() took the data, or the payment
\* was sent with the button "ReSend", which calls no fsm_after_send().
THEOREM PaidHasChequeHolds == Spec => []PaidHasCheque
<1>1. AfterInv => PaidHasCheque
  BY DEF AfterInv, PaidHasCheque, InProgress, Running
<1>2. TypeInv /\ AfterInv /\ [Next]_vars => AfterInv'
  BY AfterStep
<1>. QED
  BY <1>1, <1>2, InitInv, Foundations, PTL DEF Spec

\* A receipt without a share, and a cancellation without a refund, are left only by a failure
\* after the commit, or where the bot cannot sign.
THEOREM CommitsAreHonouredHolds == Spec => []CommitsAreHonoured
<1>1. TypeInv /\ WorkerInv /\ ShareInv /\ DrawInv /\ CommitsAreHonoured /\ [Next]_vars
        => CommitsAreHonoured'
  BY CommitStep
<1>. QED
  BY <1>1, InitInv, Foundations, PTL DEF Spec

=============================================================================
