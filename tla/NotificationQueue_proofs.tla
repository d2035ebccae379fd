---------------------- MODULE NotificationQueue_proofs ----------------------
(***************************************************************************)
(* The queue of NotificationDelivery loses nothing, delivers in order,     *)
(* respects the hold that queued a notification, repeats a delivery only   *)
(* after a fault, and implements NotificationQueue, for every number of    *)
(* events, flushers and faults.                                            *)
(***************************************************************************)
EXTENDS NotificationDelivery_proofs, FiniteSets, FiniteSetTheorems

-----------------------------------------------------------------------------
(* Sequences without repetition *)

Distinct(seq) == \A i, j \in DOMAIN seq : seq[i] = seq[j] => i = j

LEMMA ListedAppend ==
  ASSUME NEW seq \in Seq(Events), NEW e \in Events, NEW x
  PROVE  Listed(x, Append(seq, e)) <=> Listed(x, seq) \/ x = e
<1>1. /\ DOMAIN seq = 1..Len(seq) /\ Len(seq) \in Nat
      /\ DOMAIN Append(seq, e) = 1..(Len(seq) + 1)
      /\ \A i \in 1..Len(seq) : Append(seq, e)[i] = seq[i]
      /\ Append(seq, e)[Len(seq) + 1] = e
  BY AppendProperties, LenProperties
<1>. QED  BY <1>1 DEF Listed

LEMMA ListedOnce ==
  ASSUME NEW seq \in Seq(Events), NEW e \in Events, NEW x
  PROVE  Listed(x, Once(seq, e)) <=> Listed(x, seq) \/ x = e
BY ListedAppend DEF Once

LEMMA ListedTail ==
  ASSUME NEW seq \in Seq(Events), seq # <<>>, NEW x
  PROVE  Listed(x, seq) <=> x = Head(seq) \/ Listed(x, Tail(seq))
<1>1. /\ Head(seq) = seq[1] /\ Len(seq) \in Nat \ {0}
      /\ Tail(seq) \in Seq(Events) /\ Len(Tail(seq)) = Len(seq) - 1
      /\ \A i \in 1..(Len(seq) - 1) : Tail(seq)[i] = seq[i + 1]
  BY HeadTailProperties, EmptySeq
<1>2. ASSUME Listed(x, seq), x # Head(seq)
      PROVE  Listed(x, Tail(seq))
  <2>1. PICK i \in 1..Len(seq) : seq[i] = x
    BY <1>2 DEF Listed
  <2>2. i - 1 \in 1..(Len(seq) - 1) /\ Tail(seq)[i - 1] = x
    BY <1>1, <1>2, <2>1
  <2>3. DOMAIN Tail(seq) = 1..(Len(seq) - 1)
    BY <1>1, LenProperties
  <2>. QED  BY <2>2, <2>3 DEF Listed
<1>3. ASSUME Listed(x, Tail(seq))
      PROVE  Listed(x, seq)
  <2>1. PICK i \in 1..(Len(seq) - 1) : Tail(seq)[i] = x
    BY <1>1, <1>3 DEF Listed
  <2>2. i + 1 \in 1..Len(seq) /\ seq[i + 1] = x
    BY <1>1, <2>1
  <2>. QED  BY <2>2 DEF Listed
<1>4. Listed(Head(seq), seq)
  BY <1>1 DEF Listed
<1>. QED  BY <1>2, <1>3, <1>4

LEMMA DistinctAppend ==
  ASSUME NEW seq \in Seq(Events), NEW e \in Events, Distinct(seq), ~Listed(e, seq)
  PROVE  Distinct(Append(seq, e))
BY DEF Distinct, Listed

LEMMA DistinctTail ==
  ASSUME NEW seq \in Seq(Events), seq # <<>>, Distinct(seq)
  PROVE  Distinct(Tail(seq)) /\ ~Listed(Head(seq), Tail(seq))
<1>1. /\ Head(seq) = seq[1] /\ Len(seq) \in Nat \ {0}
      /\ Tail(seq) \in Seq(Events) /\ Len(Tail(seq)) = Len(seq) - 1
      /\ \A i \in 1..(Len(seq) - 1) : Tail(seq)[i] = seq[i + 1]
  BY HeadTailProperties, EmptySeq
<1>2. DOMAIN seq = 1..Len(seq) /\ DOMAIN Tail(seq) = 1..(Len(seq) - 1)
  BY <1>1, LenProperties
<1>3. \A i \in 1..(Len(seq) - 1) : i + 1 \in 1..Len(seq) /\ i + 1 # 1
  BY <1>1
<1>4. Distinct(Tail(seq))
  <2>. SUFFICES ASSUME NEW i \in 1..(Len(seq) - 1), NEW j \in 1..(Len(seq) - 1),
                       Tail(seq)[i] = Tail(seq)[j]
                PROVE  i = j
    BY <1>2 DEF Distinct
  <2>1. seq[i + 1] = seq[j + 1]
    BY <1>1
  <2>2. i + 1 = j + 1
    BY <1>2, <1>3, <2>1 DEF Distinct
  <2>. QED  BY <2>2
<1>5. ~Listed(Head(seq), Tail(seq))
  <2>. SUFFICES ASSUME NEW i \in 1..(Len(seq) - 1), Tail(seq)[i] = seq[1]
                PROVE  FALSE
    BY <1>1, <1>2 DEF Listed
  <2>1. seq[i + 1] = seq[1] /\ 1 \in 1..Len(seq)
    BY <1>1
  <2>. QED  BY <1>2, <1>3, <2>1 DEF Distinct
<1>. QED  BY <1>4, <1>5

-----------------------------------------------------------------------------
(***************************************************************************)
(* No loss.  A notification leaves the queue only at its head, by a        *)
(* flusher that carries it and has delivered it; the invariant says that   *)
(* what a flusher carries is the head or was delivered already, however    *)
(* long ago the flusher lost its lease.                                    *)
(***************************************************************************)
Acking == {"ack", "reacquire", "reack"}

Claimed     == \A e \in pendingIds : Listed(e, accepted)
ShownListed == \A e \in Events : Listed(e, shown) <=> Shown(e)
CarriesHead ==
  \A p \in Flushers :
    item[p] # NoEvent => \/ Shown(item[p])
                         \/ pending # <<>> /\ item[p] = Head(pending)
AckedShown  == \A p \in Flushers : pc[p] \in Acking => Shown(item[p])

QueueInv == /\ QueueMatchesIds /\ NoLoss
            /\ Claimed /\ ShownListed /\ CarriesHead /\ AckedShown

queueHistory == <<pending, pendingIds, accepted, shown, copies>>

LEMMA QueueInit == Init => QueueInv
BY DEF Init, StoreInit, QueueInv, QueueMatchesIds, NoLoss, Claimed, ShownListed,
   CarriesHead, AckedShown, Acking, Shown, Listed

\* Most steps leave the queue alone, and at most drop what a flusher carries.
LEMMA QueueFrame ==
  ASSUME QueueInv, UNCHANGED queueHistory,
         \A p \in Flushers : item'[p] \in {NoEvent, item[p]},
         \A p \in Flushers : pc'[p] \in Acking => pc[p] \in Acking /\ item'[p] = item[p]
  PROVE  QueueInv'
BY DEF QueueInv, QueueMatchesIds, NoLoss, Claimed, ShownListed, CarriesHead, AckedShown,
   Shown, Listed, queueHistory

\* Popping a head that was delivered keeps the invariant.
LEMMA PopKeepsQueueInv ==
  ASSUME TypeInv, QueueInv, NEW p \in Flushers, pc[p] \in Acking,
         CanAcknowledge(item[p], Lease(p)) \/ CanAcknowledge(item[p], Recovery(p)),
         PopHead, UNCHANGED <<item, accepted, shown, copies>>,
         \A q \in Flushers : pc'[q] \in Acking => pc[q] \in Acking
  PROVE  QueueInv'
<1>. DEFINE h == Head(pending)
<1>1. pending \in Seq(Events) /\ pending # <<>> /\ h = item[p] /\ h \in Events
  BY HeadTailProperties DEF CanAcknowledge, TypeInv, TypeOK, StoreTypeOK
<1>2. Shown(h)
  BY <1>1 DEF QueueInv, AckedShown
<1>3. pending' = Tail(pending) /\ pendingIds' = pendingIds \ {h}
  BY DEF PopHead
<1>4. \A x : Shown(x)' <=> Shown(x)
  BY DEF Shown
<1>5. Distinct(pending)
  BY DEF QueueInv, QueueMatchesIds, Distinct
<1>6. Distinct(pending') /\ ~Listed(h, pending')
  BY <1>1, <1>3, <1>5, DistinctTail
<1>7. \A e \in Events : Listed(e, pending) <=> e = h \/ Listed(e, pending')
  BY <1>1, <1>3, ListedTail
<1>8. QueueMatchesIds'
  BY <1>3, <1>6, <1>7 DEF QueueInv, QueueMatchesIds, Distinct
<1>9. NoLoss' /\ Claimed' /\ ShownListed'
  BY <1>2, <1>3, <1>4 DEF QueueInv, NoLoss, Claimed, ShownListed
<1>10. CarriesHead'
  BY <1>2, <1>4 DEF QueueInv, CarriesHead
<1>11. AckedShown'
  BY <1>4 DEF QueueInv, AckedShown
<1>. QED  BY <1>8, <1>9, <1>10, <1>11 DEF QueueInv

LEMMA ClaimKeepsQueueInv ==
  ASSUME TypeInv, QueueInv, NEW e \in Events, NEW t, ClaimAccept(e, t),
         accepted' = Once(accepted, e), UNCHANGED <<item, shown, copies>>,
         \A q \in Flushers : pc'[q] \in Acking => pc[q] \in Acking
  PROVE  QueueInv'
<1>1. pending \in Seq(Events) /\ accepted \in Seq(Events)
  BY DEF TypeInv, TypeOK, StoreTypeOK
<1>2. /\ e \notin pendingIds /\ pendingIds' = pendingIds \cup {e}
      /\ pending' = Append(pending, e)
  BY DEF ClaimAccept, Duplicate
<1>3. \A x : Shown(x)' <=> Shown(x)
  BY DEF Shown
<1>4. ~Listed(e, pending) /\ Distinct(pending)
  BY <1>2 DEF QueueInv, QueueMatchesIds, Distinct
<1>5. \A x \in Events : Listed(x, pending') <=> Listed(x, pending) \/ x = e
  BY <1>1, <1>2, ListedAppend
<1>6. \A x : Listed(x, accepted)' <=> Listed(x, accepted) \/ x = e
  <2>1. \A x : Listed(x, accepted') <=> Listed(x, accepted) \/ x = e
    BY <1>1, ListedOnce
  <2>. QED  BY <2>1 DEF Listed
<1>7. QueueMatchesIds'
  <2>1. Distinct(pending')
    BY <1>1, <1>2, <1>4, DistinctAppend
  <2>2. \A x \in Events : x \in pendingIds' <=> Listed(x, pending')
    BY <1>2, <1>5 DEF QueueInv, QueueMatchesIds
  <2>. QED  BY <2>1, <2>2 DEF QueueMatchesIds, Distinct
<1>8. NoLoss' /\ Claimed'
  BY <1>2, <1>3, <1>6 DEF QueueInv, NoLoss, Claimed
<1>9. ShownListed'
  BY <1>3 DEF QueueInv, ShownListed, Listed
<1>10. CarriesHead'
  <2>1. pending # <<>> => pending' # <<>> /\ Head(pending') = Head(pending)
    BY <1>1, <1>2, HeadTailAppend, AppendProperties
  <2>. QED  BY <1>3, <2>1 DEF QueueInv, CarriesHead
<1>11. AckedShown'
  BY <1>3 DEF QueueInv, AckedShown
<1>. QED  BY <1>7, <1>8, <1>9, <1>10, <1>11 DEF QueueInv

LEMMA DeliverKeepsQueueInv ==
  ASSUME TypeInv, QueueInv, NEW p \in Flushers, Deliver(p)
  PROVE  QueueInv'
<1>1. item[p] \in Events /\ shown \in Seq(Events) /\ copies \in [Events -> Nat]
  BY DEF Deliver, TypeInv, TypeOK, Carries, InFlight
<1>2. \A x \in Events : Shown(x)' <=> Shown(x) \/ x = item[p]
  BY <1>1 DEF Deliver, Shown
<1>3. \A x \in Events : Listed(x, shown') <=> Listed(x, shown) \/ x = item[p]
  BY <1>1, ListedOnce DEF Deliver
<1>4. UNCHANGED <<pending, pendingIds, accepted, item>>
  BY DEF Deliver, storeVars
<1>5. QueueMatchesIds' /\ Claimed'
  BY <1>4 DEF QueueInv, QueueMatchesIds, Claimed, Listed
<1>6. NoLoss'
  BY <1>2, <1>4 DEF QueueInv, NoLoss, Listed
<1>7. ShownListed'
  BY <1>2, <1>3 DEF QueueInv, ShownListed
<1>8. CarriesHead'
  BY <1>1, <1>2, <1>4 DEF QueueInv, CarriesHead, TypeInv, TypeOK
<1>9. AckedShown'
  <2>1. \A q \in Flushers : pc'[q] \in Acking => q = p \/ pc[q] \in Acking
    BY DEF Deliver, Goto, TypeInv, TypeOK
  <2>2. \A q \in Flushers : pc[q] \in Acking => item[q] \in Events
    BY DEF TypeInv, Carries, Acking, InFlight
  <2>. QED  BY <1>1, <1>2, <1>4, <2>1, <2>2 DEF QueueInv, AckedShown
<1>. QED  BY <1>5, <1>6, <1>7, <1>8, <1>9 DEF QueueInv

\* The steps that change neither the queue nor its history.
Quiet ==
  \/ \E p \in Handlers : PressBadge(p)
  \/ \E w \in Workers : Poll(w)
  \/ \E p \in Flushers :
       \/ Acquire(p) \/ ReadHold(p) \/ JudgeHold(p) \/ Peek(p) \/ RenewLease(p)
       \/ SendFails(p) \/ Reacquire(p) \/ RecoverRelease(p) \/ DropExpiredHold(p)
       \/ ClearSchedule(p) \/ Finish(p) \/ Abort(p) \/ Crash(p)
  \/ \E u \in Updates : UpdateStep(u)
  \/ Tick \/ HoldExpires \/ LockExpires \/ ForgetClaims
  \/ UNCHANGED vars

\* The steps that do.
Loud ==
  \/ \E p \in Handlers, e \in Events : Accept(e, p)
  \/ \E p \in Flushers : Deliver(p) \/ Acknowledge(p) \/ RecoverAcknowledge(p)

LEMMA QuietOrLoud == [Next]_vars => Quiet \/ Loud
BY DEF Next, Quiet, Loud, FlushStep

LEMMA QuietFrame == Quiet => UNCHANGED queueHistory
<1>. SUFFICES ASSUME Quiet PROVE UNCHANGED queueHistory
  OBVIOUS
<1>1. ASSUME NEW p \in Flushers,
             \/ Acquire(p) \/ ReadHold(p) \/ JudgeHold(p) \/ Peek(p) \/ RenewLease(p)
             \/ SendFails(p) \/ Reacquire(p) \/ RecoverRelease(p)
             \/ DropExpiredHold(p) \/ ClearSchedule(p) \/ Finish(p)
             \/ Abort(p) \/ Crash(p)
      PROVE  UNCHANGED queueHistory
  BY <1>1 DEF Acquire, ReadHold, JudgeHold, Peek, RenewLease, SendFails, Reacquire,
     RecoverRelease, DropExpiredHold, ClearSchedule, Finish, Abort, Crash,
     storeVars, queueVars, historyVars, queueHistory
<1>2. ASSUME NEW u \in Updates, UpdateStep(u)
      PROVE  UNCHANGED queueHistory
  BY <1>2 DEF UpdateStep, Enter, Touch, Complete, Leave, storeVars, queueVars,
     historyVars, queueHistory
<1>3. CASE \/ \E p \in Handlers : PressBadge(p)
           \/ \E w \in Workers : Poll(w)
           \/ Tick \/ HoldExpires \/ LockExpires \/ ForgetClaims \/ UNCHANGED vars
  BY <1>3 DEF PressBadge, Poll, Tick, HoldExpires, ExpireHold, LockExpires, ForgetClaims,
     ExpireDedupe, vars, storeVars, queueVars, historyVars, queueHistory
<1>. QED  BY <1>1, <1>2, <1>3 DEF Quiet

\* A quiet step other than a peek drops what a flusher carries or keeps it, and
\* starts no acknowledgement.
LEMMA QuietCarries ==
  ASSUME TypeInv, Quiet, \A p \in Flushers : ~Peek(p)
  PROVE  /\ \A q \in Flushers : item'[q] \in {NoEvent, item[q]}
         /\ \A q \in Flushers : pc'[q] \in Acking =>
              pc[q] \in Acking /\ item'[q] = item[q]
<1>. DEFINE Kept == /\ \A q \in Flushers : item'[q] \in {NoEvent, item[q]}
                    /\ \A q \in Flushers : pc'[q] \in Acking =>
                         pc[q] \in Acking /\ item'[q] = item[q]
<1>0. pc \in [Flushers -> Stages] /\ item \in [Flushers -> Events \cup {NoEvent}]
  BY DEF TypeInv, TypeOK
<1>1. ASSUME NEW p \in Flushers,
             \/ Acquire(p) \/ ReadHold(p) \/ JudgeHold(p) \/ RenewLease(p)
             \/ SendFails(p) \/ Reacquire(p) \/ RecoverRelease(p)
             \/ DropExpiredHold(p) \/ ClearSchedule(p) \/ Abort(p)
      PROVE  Kept
  <2>1. item' = item
    BY <1>1 DEF Acquire, ReadHold, JudgeHold, RenewLease, SendFails, Reacquire,
       RecoverRelease, DropExpiredHold, ClearSchedule, Abort
  <2>2. \A q \in Flushers : pc'[q] \in Acking => pc[q] \in Acking
    BY <1>0, <1>1 DEF Acquire, ReadHold, JudgeHold, RenewLease, SendFails, Reacquire,
       RecoverRelease, DropExpiredHold, ClearSchedule, Abort, Goto, Acking
  <2>. QED  BY <2>1, <2>2
<1>2. ASSUME NEW p \in Flushers, Finish(p) \/ Crash(p)
      PROVE  Kept
  BY <1>0, <1>2 DEF Finish, Crash, Forget, Goto, Acking
<1>3. ASSUME NEW u \in Updates, UpdateStep(u)
      PROVE  Kept
  BY <1>3 DEF UpdateStep, Enter, Touch, Complete, Leave, flushVars
<1>4. CASE \E p \in Handlers : PressBadge(p)
  BY <1>0, <1>4 DEF PressBadge, Goto, Acking, Handlers
<1>5. CASE \E w \in Workers : Poll(w)
  BY <1>0, <1>5 DEF Poll, Goto, Acking
<1>6. CASE Tick \/ HoldExpires \/ LockExpires \/ ForgetClaims \/ UNCHANGED vars
  BY <1>6 DEF Tick, HoldExpires, LockExpires, ForgetClaims, vars, flushVars
<1>. QED  BY <1>1, <1>2, <1>3, <1>4, <1>5, <1>6 DEF Quiet

LEMMA QueueStep == TypeInv /\ QueueInv /\ [Next]_vars => QueueInv'
<1>. SUFFICES ASSUME TypeInv, QueueInv, [Next]_vars PROVE QueueInv'
  OBVIOUS
<1>0. /\ pc \in [Flushers -> Stages] /\ item \in [Flushers -> Events \cup {NoEvent}]
      /\ Handlers \subseteq Flushers
  BY DEF TypeInv, TypeOK, Handlers
<1>1. ASSUME NEW p \in Flushers, Peek(p)
      PROVE  QueueInv'
  <2>1. UNCHANGED queueHistory
    BY <1>1 DEF Peek, storeVars, historyVars, queueHistory
  <2>2. QueueMatchesIds' /\ NoLoss' /\ Claimed' /\ ShownListed'
    BY <2>1 DEF QueueInv, QueueMatchesIds, NoLoss, Claimed, ShownListed, Shown, Listed,
       queueHistory
  <2>3. CarriesHead'
    BY <1>0, <1>1, <2>1 DEF Peek, QueueInv, CarriesHead, Shown, queueHistory
  <2>4. AckedShown'
    BY <1>0, <1>1, <2>1 DEF Peek, Goto, Acking, QueueInv, AckedShown, Shown, queueHistory
  <2>. QED  BY <2>2, <2>3, <2>4 DEF QueueInv
<1>2. ASSUME Quiet, \A p \in Flushers : ~Peek(p)
      PROVE  QueueInv'
  BY <1>2, QuietFrame, QuietCarries, QueueFrame
<1>3. ASSUME NEW p \in Handlers, NEW e \in Events, Accept(e, p)
      PROVE  QueueInv'
  <2>1. PICK t \in ClockReadings :
          ClaimAccept(e, t) /\ (pc' = pc \/ Goto(p, "acquire"))
    BY <1>3 DEF Accept
  <2>2. \A q \in Flushers : pc'[q] \in Acking => pc[q] \in Acking
    BY <1>0, <2>1 DEF Goto, Acking
  <2>. QED  BY <1>3, <2>1, <2>2, ClaimKeepsQueueInv DEF Accept
<1>4. ASSUME NEW p \in Flushers, Deliver(p)
      PROVE  QueueInv'
  BY <1>4, DeliverKeepsQueueInv
<1>5. ASSUME NEW p \in Flushers, Acknowledge(p) \/ RecoverAcknowledge(p)
      PROVE  QueueInv'
  <2>1. /\ pc[p] \in Acking /\ UNCHANGED <<item, accepted, shown, copies>>
        /\ \A q \in Flushers : pc'[q] \in Acking => pc[q] \in Acking
    BY <1>0, <1>5 DEF Acknowledge, RecoverAcknowledge, Goto, Acking, historyVars
  <2>2. CASE CanAcknowledge(item[p], Lease(p)) /\ PopHead
    BY <2>1, <2>2, PopKeepsQueueInv
  <2>3. CASE CanAcknowledge(item[p], Recovery(p)) /\ PopHead
    BY <2>1, <2>3, PopKeepsQueueInv
  <2>4. CASE UNCHANGED queueVars
    BY <2>1, <2>4, QueueFrame DEF queueHistory, queueVars
  <2>. QED  BY <1>5, <2>2, <2>3, <2>4
       DEF Acknowledge, RecoverAcknowledge, AcknowledgeHeadIfLockOwned
<1>. QED  BY <1>1, <1>2, <1>3, <1>4, <1>5, QuietOrLoud DEF Loud

\* The queue invariant holds in every reachable state.
THEOREM QueueInvariant == Spec => []QueueInv
BY TypeInit, TypeStep, QueueInit, QueueStep, PTL DEF Spec

\* An accepted notification is queued until it has been delivered, for every
\* interleaving of leases, aborts and crashes.
THEOREM NothingLost == Spec => []NoLoss
BY QueueInvariant, PTL DEF QueueInv

\* The list and the id set always describe the same notifications, and no
\* notification is queued twice.
THEOREM ListAndIdsAgree == Spec => []QueueMatchesIds
BY QueueInvariant, PTL DEF QueueInv

-----------------------------------------------------------------------------
(***************************************************************************)
(* Order.  The notifications that wait for their first delivery stand in   *)
(* the queue in the order of their acceptance, also when events that were  *)
(* delivered long ago are claimed again between them.                      *)
(***************************************************************************)
WaitInOrder ==
  \A i, j \in DOMAIN pending, a, b \in DOMAIN accepted :
    /\ pending[i] = accepted[a] /\ ~Shown(pending[i])
    /\ pending[j] = accepted[b] /\ ~Shown(pending[j])
    /\ a < b
    => i < j

OrderInv == DeliveredInOrder /\ Distinct(accepted) /\ WaitInOrder

LEMMA OrderInit == Init => OrderInv
BY DEF Init, StoreInit, OrderInv, DeliveredInOrder, Distinct, WaitInOrder

LEMMA OrderFrame == ASSUME OrderInv, UNCHANGED queueHistory PROVE OrderInv'
BY DEF OrderInv, DeliveredInOrder, Distinct, WaitInOrder, Shown, queueHistory

LEMMA AcceptKeepsOrder ==
  ASSUME TypeInv, QueueInv, OrderInv, NEW e \in Events, NEW t, ClaimAccept(e, t),
         accepted' = Once(accepted, e), UNCHANGED <<shown, copies>>
  PROVE  OrderInv'
<1>. DEFINE n == Len(pending)  m == Len(accepted)
<1>1. /\ pending \in Seq(Events) /\ accepted \in Seq(Events) /\ shown \in Seq(Events)
      /\ n \in Nat /\ DOMAIN pending = 1..n /\ m \in Nat /\ DOMAIN accepted = 1..m
      /\ Len(shown) \in Nat /\ DOMAIN shown = 1..Len(shown)
  BY LenProperties DEF TypeInv, TypeOK, StoreTypeOK
<1>2. e \notin pendingIds /\ pending' = Append(pending, e)
  BY DEF ClaimAccept, Duplicate
<1>3. /\ DOMAIN pending' = 1..(n + 1) /\ pending'[n + 1] = e
      /\ \A i \in 1..n : pending'[i] = pending[i]
  BY <1>1, <1>2, AppendProperties, LenProperties
<1>4. \A x : Shown(x)' <=> Shown(x)
  BY DEF Shown
<1>5. CASE Listed(e, accepted)
  <2>1. Shown(e) /\ accepted' = accepted
    BY <1>2, <1>5 DEF QueueInv, NoLoss, Once
  <2>2. \A i \in DOMAIN pending' :
          ~Shown(pending'[i]) => i \in 1..n /\ pending'[i] = pending[i]
    BY <1>1, <1>3, <2>1
  <2>3. WaitInOrder'
    BY <1>1, <1>4, <2>1, <2>2 DEF OrderInv, WaitInOrder
  <2>. QED  BY <2>1, <2>3 DEF OrderInv, DeliveredInOrder, Distinct
<1>6. CASE ~Listed(e, accepted)
  <2>1. accepted' = Append(accepted, e)
    BY <1>6 DEF Once
  <2>2. /\ DOMAIN accepted' = 1..(m + 1) /\ Len(accepted') = m + 1 /\ accepted'[m + 1] = e
        /\ \A a \in 1..m : accepted'[a] = accepted[a] /\ accepted[a] # e
    BY <1>1, <1>6, <2>1, AppendProperties, LenProperties DEF Listed
  <2>3. Distinct(accepted')
    BY <1>1, <1>6, <2>1, DistinctAppend DEF OrderInv
  <2>4. DeliveredInOrder'
    BY <1>1, <2>2 DEF OrderInv, DeliveredInOrder
  <2>5. \A i \in 1..n : pending[i] # e
    BY <1>1, <1>2 DEF QueueInv, QueueMatchesIds, Listed
  <2>6. WaitInOrder'
    <3>. SUFFICES ASSUME NEW i \in 1..(n + 1), NEW j \in 1..(n + 1),
                         NEW a \in 1..(m + 1), NEW b \in 1..(m + 1),
                         pending'[i] = accepted'[a], ~Shown(pending'[i]),
                         pending'[j] = accepted'[b], ~Shown(pending'[j]), a < b
                  PROVE  i < j
      BY <1>3, <1>4, <2>2 DEF WaitInOrder
    <3>1. a \in 1..m /\ i \in 1..n
      BY <1>1, <1>3, <2>2
    <3>2. CASE b = m + 1
      <4>1. j = n + 1
        BY <1>1, <1>3, <2>2, <2>5, <3>2
      <4>. QED  BY <1>1, <3>1, <4>1
    <3>3. CASE b # m + 1
      <4>1. b \in 1..m
        BY <1>1, <3>3
      <4>2. j \in 1..n
        BY <1>1, <1>3, <2>2, <4>1
      <4>. QED  BY <1>1, <1>3, <2>2, <3>1, <4>1, <4>2 DEF OrderInv, WaitInOrder
    <3>. QED  BY <3>2, <3>3
  <2>. QED  BY <2>3, <2>4, <2>6 DEF OrderInv
<1>. QED  BY <1>5, <1>6

LEMMA PopKeepsOrder ==
  ASSUME TypeInv, OrderInv, pending # <<>>, PopHead, UNCHANGED <<accepted, shown, copies>>
  PROVE  OrderInv'
<1>. DEFINE n == Len(pending)
<1>1. pending \in Seq(Events) /\ pending' = Tail(pending)
  BY DEF PopHead, TypeInv, TypeOK, StoreTypeOK
<1>2. /\ n \in Nat \ {0} /\ DOMAIN pending = 1..n /\ DOMAIN pending' = 1..(n - 1)
      /\ \A i \in 1..(n - 1) : pending'[i] = pending[i + 1]
  BY <1>1, HeadTailProperties, LenProperties, EmptySeq
<1>3. \A x : Shown(x)' <=> Shown(x)
  BY DEF Shown
<1>4. WaitInOrder'
  <2>. SUFFICES ASSUME NEW i \in 1..(n - 1), NEW j \in 1..(n - 1),
                       NEW a \in DOMAIN accepted, NEW b \in DOMAIN accepted,
                       pending'[i] = accepted[a], ~Shown(pending'[i]),
                       pending'[j] = accepted[b], ~Shown(pending'[j]), a < b
                PROVE  i < j
    BY <1>2, <1>3 DEF WaitInOrder
  <2>1. i + 1 \in 1..n /\ j + 1 \in 1..n
    BY <1>2
  <2>2. i + 1 < j + 1
    BY <1>2, <2>1 DEF OrderInv, WaitInOrder
  <2>. QED  BY <2>2
<1>. QED  BY <1>4 DEF OrderInv, DeliveredInOrder, Distinct

\* The first delivery of the head is the next one of the accepted events.
LEMMA HeadIsNext ==
  ASSUME TypeInv, QueueInv, OrderInv, pending # <<>>, ~Shown(Head(pending))
  PROVE  /\ Len(shown) + 1 \in DOMAIN accepted
         /\ accepted[Len(shown) + 1] = Head(pending)
<1>. DEFINE h == Head(pending)  k == Len(shown) + 1
<1>1. /\ pending \in Seq(Events) /\ DOMAIN pending = 1..Len(pending)
      /\ Len(pending) \in Nat \ {0} /\ h = pending[1] /\ h \in Events
      /\ accepted \in Seq(Events) /\ DOMAIN accepted = 1..Len(accepted)
      /\ Len(accepted) \in Nat
      /\ Len(shown) \in Nat /\ DOMAIN shown = 1..Len(shown)
  BY LenProperties, EmptySeq, HeadTailProperties DEF TypeInv, TypeOK, StoreTypeOK
<1>2. PICK a \in DOMAIN accepted : accepted[a] = h
  <2>1. h \in pendingIds
    BY <1>1 DEF QueueInv, QueueMatchesIds, Listed
  <2>. QED  BY <2>1 DEF QueueInv, Claimed, Listed
<1>3. \A i \in 1..Len(shown) : shown[i] = accepted[i] /\ Shown(shown[i])
  <2>1. \A i \in 1..Len(shown) : shown[i] \in Events /\ Listed(shown[i], shown)
    BY <1>1, ElementOfSeq DEF Listed, TypeInv, TypeOK
  <2>. QED  BY <1>1, <2>1 DEF QueueInv, ShownListed, OrderInv, DeliveredInOrder
<1>4. a >= k
  BY <1>1, <1>2, <1>3
<1>5. ASSUME a # k PROVE FALSE
  <2>1. k \in DOMAIN accepted /\ accepted[k] \in Events
    BY <1>1, <1>2, <1>4, ElementOfSeq
  <2>2. ~Shown(accepted[k])
    <3>. SUFFICES ASSUME Shown(accepted[k]) PROVE FALSE
      OBVIOUS
    <3>1. PICK i \in 1..Len(shown) : shown[i] = accepted[k]
      BY <1>1, <2>1 DEF QueueInv, ShownListed, Listed
    <3>2. accepted[i] = accepted[k] /\ i \in DOMAIN accepted /\ i # k
      BY <1>1, <1>3, <2>1, <3>1
    <3>. QED  BY <2>1, <3>2 DEF OrderInv, Distinct
  <2>3. accepted[k] \in pendingIds
    BY <2>1, <2>2 DEF QueueInv, NoLoss, Listed
  <2>4. PICK j \in 1..Len(pending) : pending[j] = accepted[k]
    BY <1>1, <2>1, <2>3 DEF QueueInv, QueueMatchesIds, Listed
  <2>5. j < 1
    <3>1. 1 \in DOMAIN pending /\ j \in DOMAIN pending /\ k < a
      BY <1>1, <1>2, <1>4, <1>5
    <3>. QED  BY <1>1, <1>2, <2>1, <2>2, <2>4, <3>1 DEF OrderInv, WaitInOrder
  <2>. QED  BY <1>1, <2>5
<1>. QED  BY <1>2, <1>5

LEMMA DeliverKeepsOrder ==
  ASSUME TypeInv, QueueInv, OrderInv, NEW p \in Flushers, Deliver(p)
  PROVE  OrderInv'
<1>1. /\ item[p] \in Events /\ item[p] # NoEvent /\ shown \in Seq(Events)
      /\ copies \in [Events -> Nat] /\ pending \in Seq(Events)
  BY DeliveryAssumption DEF Deliver, TypeInv, TypeOK, StoreTypeOK, Carries, InFlight
<1>2. UNCHANGED <<pending, accepted>>
  BY DEF Deliver, storeVars
<1>3. \A x \in Events : copies[x] > 0 => copies'[x] > 0
  BY <1>1 DEF Deliver
<1>4. WaitInOrder'
  <2>1. \A i \in DOMAIN pending : pending[i] \in Events
    BY <1>1, LenProperties, ElementOfSeq
  <2>. QED  BY <1>2, <1>3, <2>1 DEF OrderInv, WaitInOrder, Shown
<1>5. DeliveredInOrder'
  <2>1. CASE Listed(item[p], shown)
    BY <1>2, <2>1 DEF Deliver, Once, OrderInv, DeliveredInOrder
  <2>2. CASE ~Listed(item[p], shown)
    <3>1. ~Shown(item[p])
      BY <1>1, <2>2 DEF QueueInv, ShownListed
    <3>2. pending # <<>> /\ item[p] = Head(pending)
      BY <1>1, <3>1 DEF QueueInv, CarriesHead
    <3>3. /\ Len(shown) + 1 \in DOMAIN accepted
          /\ accepted[Len(shown) + 1] = item[p]
      BY <3>1, <3>2, HeadIsNext
    <3>4. shown' = Append(shown, item[p])
      BY <2>2 DEF Deliver, Once
    <3>5. /\ Len(shown) \in Nat /\ Len(shown') = Len(shown) + 1
          /\ DOMAIN shown' = 1..(Len(shown) + 1) /\ shown'[Len(shown) + 1] = item[p]
          /\ \A i \in 1..Len(shown) : shown'[i] = shown[i]
      BY <1>1, <3>4, AppendProperties, LenProperties
    <3>6. DOMAIN shown = 1..Len(shown) /\ DOMAIN accepted = 1..Len(accepted)
          /\ Len(accepted) \in Nat
      BY LenProperties DEF TypeInv, TypeOK
    <3>. QED  BY <1>2, <3>3, <3>5, <3>6 DEF OrderInv, DeliveredInOrder
  <2>. QED  BY <2>1, <2>2
<1>. QED  BY <1>2, <1>4, <1>5 DEF OrderInv, Distinct

LEMMA OrderStep == TypeInv /\ QueueInv /\ OrderInv /\ [Next]_vars => OrderInv'
<1>. SUFFICES ASSUME TypeInv, QueueInv, OrderInv, [Next]_vars PROVE OrderInv'
  OBVIOUS
<1>1. CASE Quiet
  BY <1>1, QuietFrame, OrderFrame
<1>2. ASSUME NEW p \in Handlers, NEW e \in Events, Accept(e, p)
      PROVE  OrderInv'
  BY <1>2, AcceptKeepsOrder DEF Accept
<1>3. ASSUME NEW p \in Flushers, Deliver(p)
      PROVE  OrderInv'
  BY <1>3, DeliverKeepsOrder
<1>4. ASSUME NEW p \in Flushers, Acknowledge(p) \/ RecoverAcknowledge(p)
      PROVE  OrderInv'
  <2>1. UNCHANGED <<accepted, shown, copies>>
    BY <1>4 DEF Acknowledge, RecoverAcknowledge, historyVars
  <2>2. (pending # <<>> /\ PopHead) \/ UNCHANGED queueVars
    BY <1>4 DEF Acknowledge, RecoverAcknowledge, AcknowledgeHeadIfLockOwned, CanAcknowledge
  <2>. QED  BY <2>1, <2>2, PopKeepsOrder, OrderFrame DEF queueHistory, queueVars
<1>. QED  BY <1>1, <1>2, <1>3, <1>4, QuietOrLoud DEF Loud

\* First deliveries happen in the order in which the events were accepted.
THEOREM OrderIsKept == Spec => []DeliveredInOrder
<1>1. Spec => []OrderInv
  BY TypeInit, TypeStep, QueueInit, QueueStep, OrderInit, OrderStep, PTL DEF Spec
<1>. QED  BY <1>1, PTL DEF OrderInv

-----------------------------------------------------------------------------
(***************************************************************************)
(* Holds and deliveries.  QueuedStaysHeld speaks of the last await before  *)
(* a send; the invariant follows the deadline a flusher has read: while    *)
(* the flow that queued its notification is the latest one, the deadline   *)
(* cannot have changed since.                                              *)
(***************************************************************************)
\* The latest flow is the one under whose hold e was claimed first.
Waiting(e) == gen # Absent /\ gen = heldBy[e]

GenerationOfHold == gen <= genSeq /\ (hold = Absent <=> gen = Absent)

HeldWasClaimed ==
  \A e \in Events : heldBy[e] <= genSeq /\ (heldBy[e] # Absent => Listed(e, accepted))

CarriesAccepted == \A p \in Flushers : item[p] # NoEvent => Listed(item[p], accepted)

JudgesItsHold ==
  \A p \in Flushers : item[p] # NoEvent /\ Waiting(item[p]) =>
    /\ pc[p] = "judge" => seen[p] = hold
    /\ pc[p] = "sending" => manual[p] \/ hold <= now

HeldInv == GenerationOfHold /\ HeldWasClaimed /\ CarriesAccepted /\ JudgesItsHold

LEMMA HeldInit == Init => HeldInv
BY DEF Init, StoreInit, HeldInv, GenerationOfHold, HeldWasClaimed, CarriesAccepted,
   JudgesItsHold, Waiting, Absent

\* A step that moves no flusher to the judgement or the send, and leaves the
\* hold alone or ends it, keeps the invariant.
LEMMA HeldFrame ==
  ASSUME TypeInv, HeldInv, UNCHANGED <<genSeq, heldBy, accepted>>,
         now' \in Nat, now' >= now,
         UNCHANGED <<hold, gen>> \/ (hold' = Absent /\ gen' = Absent),
         \A p \in Flushers : item'[p] \in {NoEvent, item[p]},
         \A p \in Flushers : pc'[p] \in {"judge", "sending"} /\ item'[p] # NoEvent =>
           pc'[p] = pc[p] /\ seen'[p] = seen[p] /\ manual'[p] = manual[p]
  PROVE  HeldInv'
<1>0. /\ hold \in Nat /\ gen \in Nat /\ now \in Nat /\ genSeq \in Nat
      /\ heldBy \in [Events -> Nat] /\ item \in [Flushers -> Events \cup {NoEvent}]
  BY DEF TypeInv, TypeOK, StoreTypeOK
<1>1. GenerationOfHold'
  BY <1>0 DEF HeldInv, GenerationOfHold, Absent
<1>2. HeldWasClaimed' /\ CarriesAccepted'
  BY <1>0 DEF HeldInv, HeldWasClaimed, CarriesAccepted, Listed
<1>3. JudgesItsHold'
  BY <1>0 DEF HeldInv, JudgesItsHold, Waiting, Absent
<1>. QED  BY <1>1, <1>2, <1>3 DEF HeldInv

\* What a flusher does between two sends: it reads the deadline, judges it, or
\* renews its lease on the way to either.
LEMMA JudgeKeepsHeld ==
  ASSUME TypeInv, HeldInv, NEW p \in Flushers,
         ReadHold(p) \/ JudgeHold(p) \/ RenewLease(p)
  PROVE  HeldInv'
<1>0. /\ hold \in Nat /\ now \in Nat /\ pc \in [Flushers -> Stages]
      /\ seen \in [Flushers -> Nat] /\ manual \in [Flushers -> BOOLEAN]
  BY DEF TypeInv, TypeOK, StoreTypeOK
<1>1. /\ UNCHANGED <<now, hold, gen, genSeq, heldBy, accepted, item, manual>>
      /\ \A q \in Flushers \ {p} : pc'[q] = pc[q] /\ seen'[q] = seen[q]
  BY <1>0 DEF ReadHold, JudgeHold, RenewLease, Goto, storeVars, historyVars
<1>2. GenerationOfHold' /\ HeldWasClaimed' /\ CarriesAccepted'
  BY <1>1 DEF HeldInv, GenerationOfHold, HeldWasClaimed, CarriesAccepted, Listed
<1>3. ASSUME item[p] # NoEvent, Waiting(item[p])
      PROVE  /\ pc'[p] = "judge" => seen'[p] = hold
             /\ pc'[p] = "sending" => manual[p] \/ hold <= now
  <2>1. CASE ReadHold(p)
    BY <1>0, <2>1 DEF ReadHold, Goto
  <2>2. CASE JudgeHold(p)
    <3>1. seen[p] = hold
      BY <1>3, <2>2 DEF JudgeHold, HeldInv, JudgesItsHold
    <3>. QED  BY <1>0, <2>2, <3>1 DEF JudgeHold, Goto
  <2>3. CASE RenewLease(p)
    BY <1>0, <2>3 DEF RenewLease, Goto
  <2>. QED  BY <2>1, <2>2, <2>3
<1>4. JudgesItsHold'
  BY <1>1, <1>3 DEF HeldInv, JudgesItsHold, Waiting
<1>. QED  BY <1>2, <1>4 DEF HeldInv

\* A claim under a hold is recorded with the flow of that hold, and no flusher
\* carries a notification that was never claimed.
LEMMA AcceptKeepsHeld ==
  ASSUME TypeInv, HeldInv, NEW p \in Flushers, NEW e \in Events, Accept(e, p)
  PROVE  HeldInv'
<1>0. /\ gen \in Nat /\ genSeq \in Nat /\ heldBy \in [Events -> Nat]
      /\ pc \in [Flushers -> Stages] /\ accepted \in Seq(Events)
      /\ item \in [Flushers -> Events \cup {NoEvent}]
  BY DEF TypeInv, TypeOK, StoreTypeOK
<1>1. /\ UNCHANGED <<now, hold, gen, genSeq, item, seen, manual>>
      /\ accepted' = Once(accepted, e)
      /\ \A q \in Flushers : pc'[q] \in {pc[q], "acquire"}
      /\ heldBy' = heldBy \/ (~Listed(e, accepted) /\ heldBy' = [heldBy EXCEPT ![e] = gen])
  BY <1>0 DEF Accept, Goto, holdVars
<1>2. \A x : Listed(x, accepted') <=> Listed(x, accepted) \/ x = e
  BY <1>0, <1>1, ListedOnce
<1>3. \A x \in Events : Listed(x, accepted) => heldBy'[x] = heldBy[x]
  BY <1>0, <1>1
<1>4. GenerationOfHold'
  BY <1>1 DEF HeldInv, GenerationOfHold
<1>5. HeldWasClaimed'
  BY <1>0, <1>1, <1>2 DEF HeldInv, GenerationOfHold, HeldWasClaimed
<1>6. CarriesAccepted'
  BY <1>1, <1>2 DEF HeldInv, CarriesAccepted
<1>7. JudgesItsHold'
  BY <1>0, <1>1, <1>3 DEF HeldInv, CarriesAccepted, JudgesItsHold, Waiting
<1>. QED  BY <1>4, <1>5, <1>6, <1>7 DEF HeldInv

LEMMA HeldStep == TypeInv /\ TypeInv' /\ QueueInv /\ HeldInv /\ [Next]_vars => HeldInv'
<1>. SUFFICES ASSUME TypeInv, TypeInv', QueueInv, HeldInv, [Next]_vars PROVE HeldInv'
  OBVIOUS
<1>0. /\ hold \in Nat /\ gen \in Nat /\ now \in Nat /\ genSeq \in Nat /\ now' \in Nat
      /\ heldBy \in [Events -> Nat] /\ item \in [Flushers -> Events \cup {NoEvent}]
      /\ pc \in [Flushers -> Stages] /\ seen \in [Flushers -> Nat]
      /\ manual \in [Flushers -> BOOLEAN] /\ Handlers \subseteq Flushers
  BY DEF TypeInv, TypeOK, StoreTypeOK, Handlers
<1>1. ASSUME NEW p \in Handlers, NEW e \in Events, Accept(e, p)
      PROVE  HeldInv'
  BY <1>0, <1>1, AcceptKeepsHeld
<1>2. ASSUME NEW p \in Handlers, PressBadge(p)
      PROVE  HeldInv'
  <2>1. \A q \in Flushers : pc'[q] \in {"judge", "sending"} =>
          pc'[q] = pc[q] /\ seen'[q] = seen[q] /\ manual'[q] = manual[q]
    BY <1>0, <1>2 DEF PressBadge, Goto
  <2>2. UNCHANGED <<now, hold, gen, genSeq, heldBy, accepted, item>>
    BY <1>2 DEF PressBadge, storeVars, historyVars
  <2>. QED  BY <1>0, <2>1, <2>2, HeldFrame
<1>3. ASSUME NEW w \in Workers, Poll(w)
      PROVE  HeldInv'
  <2>1. \A q \in Flushers : pc'[q] \in {pc[q], "acquire"}
    BY <1>0, <1>3 DEF Poll, Goto
  <2>2. UNCHANGED <<now, hold, gen, genSeq, heldBy, accepted, item, seen, manual>>
    BY <1>3 DEF Poll, holdVars, historyVars
  <2>. QED  BY <1>0, <2>1, <2>2, HeldFrame
<1>4. ASSUME NEW p \in Flushers, FlushStep(p)
      PROVE  HeldInv'
  <2>1. CASE ReadHold(p) \/ JudgeHold(p) \/ RenewLease(p)
    BY <2>1, JudgeKeepsHeld
  <2>2. CASE Acquire(p)
    <3>1. \A q \in Flushers : pc'[q] \in {"judge", "sending"} =>
            pc'[q] = pc[q] /\ seen'[q] = seen[q] /\ manual'[q] = manual[q]
      BY <1>0, <2>2 DEF Acquire, Goto
    <3>2. UNCHANGED <<now, hold, gen, genSeq, heldBy, accepted, item>>
      BY <2>2 DEF Acquire, holdVars, historyVars
    <3>. QED  BY <1>0, <3>1, <3>2, HeldFrame
  <2>3. CASE Peek(p)
    <3>1. UNCHANGED <<now, hold, gen, genSeq, heldBy, accepted, pending, seen, manual>>
      BY <2>3 DEF Peek, storeVars, historyVars
    <3>2. \A q \in Flushers \ {p} : pc'[q] = pc[q] /\ item'[q] = item[q]
      BY <1>0, <2>3 DEF Peek, Goto
    <3>3. pc'[p] \in {"drop", "renew"}
      BY <1>0, <2>3 DEF Peek, Goto
    <3>4. CarriesAccepted'
      <4>1. ASSUME pending # <<>>
            PROVE  Listed(Head(pending), accepted)
        <5>1. pending \in Seq(Events) /\ Head(pending) \in Events
          BY <4>1, HeadTailProperties DEF TypeInv, TypeOK, StoreTypeOK
        <5>2. Listed(Head(pending), pending)
          BY <4>1, <5>1, ListedTail
        <5>. QED  BY <5>1, <5>2 DEF QueueInv, QueueMatchesIds, Claimed
      <4>2. item'[p] = IF pending = <<>> THEN NoEvent ELSE Head(pending)
        BY <1>0, <2>3 DEF Peek
      <4>3. \A x : Listed(x, accepted) <=> Listed(x, accepted')
        BY <3>1
      <4>. QED  BY <3>1, <3>2, <4>1, <4>2, <4>3 DEF HeldInv, CarriesAccepted
    <3>5. JudgesItsHold'
      BY <3>1, <3>2, <3>3 DEF HeldInv, JudgesItsHold, Waiting
    <3>. QED  BY <3>1, <3>4, <3>5 DEF HeldInv, GenerationOfHold, HeldWasClaimed, Listed
  <2>4. CASE \/ Deliver(p) \/ SendFails(p) \/ Acknowledge(p) \/ Reacquire(p)
             \/ RecoverAcknowledge(p) \/ RecoverRelease(p) \/ ClearSchedule(p)
    <3>1. \A q \in Flushers : pc'[q] \in {"judge", "sending"} => pc'[q] = pc[q]
      BY <1>0, <2>4 DEF Deliver, SendFails, Acknowledge, Reacquire, RecoverAcknowledge,
         RecoverRelease, ClearSchedule, Goto
    <3>2. UNCHANGED <<now, hold, gen, genSeq, heldBy, accepted, item, seen, manual>>
      BY <2>4 DEF Deliver, SendFails, Acknowledge, Reacquire, RecoverAcknowledge,
         RecoverRelease, ClearSchedule, storeVars, holdVars, historyVars
    <3>. QED  BY <1>0, <3>1, <3>2, HeldFrame
  <2>5. CASE DropExpiredHold(p)
    <3>1. \A q \in Flushers : pc'[q] \in {pc[q], "clear"}
      BY <1>0, <2>5 DEF DropExpiredHold, Goto
    <3>2. UNCHANGED <<now, heldBy, accepted, item, seen, manual>>
      BY <2>5 DEF DropExpiredHold, historyVars
    <3>3. /\ genSeq' = genSeq
          /\ UNCHANGED <<hold, gen>> \/ (hold' = Absent /\ gen' = Absent)
      BY <2>5 DEF DropExpiredHold, ReleaseDueHoldIfUnchanged, DropHold, holdVars
    <3>. QED  BY <1>0, <3>1, <3>2, <3>3, HeldFrame
  <2>6. CASE Finish(p)
    <3>1. \A q \in Flushers : item'[q] \in {NoEvent, item[q]}
      BY <1>0, <2>6 DEF Finish, Forget
    <3>2. \A q \in Flushers : pc'[q] \in {"judge", "sending"} =>
            pc'[q] = pc[q] /\ seen'[q] = seen[q] /\ manual'[q] = manual[q]
      BY <1>0, <2>6 DEF Finish, Forget, Goto
    <3>3. UNCHANGED <<now, hold, gen, genSeq, heldBy, accepted>>
      BY <2>6 DEF Finish, holdVars, historyVars
    <3>. QED  BY <1>0, <3>1, <3>2, <3>3, HeldFrame
  <2>. QED  BY <1>4, <2>1, <2>2, <2>3, <2>4, <2>5, <2>6 DEF FlushStep
<1>5. ASSUME NEW p \in Flushers, Abort(p) \/ Crash(p)
      PROVE  HeldInv'
  <2>1. \A q \in Flushers : item'[q] \in {NoEvent, item[q]}
    BY <1>0, <1>5 DEF Abort, Crash, Forget
  <2>2. \A q \in Flushers : pc'[q] \in {"judge", "sending"} =>
          pc'[q] = pc[q] /\ seen'[q] = seen[q] /\ manual'[q] = manual[q]
    BY <1>0, <1>5 DEF Abort, Crash, Forget, Goto
  <2>3. UNCHANGED <<now, hold, gen, genSeq, heldBy, accepted>>
    BY <1>5 DEF Abort, Crash, storeVars, historyVars
  <2>. QED  BY <1>0, <2>1, <2>2, <2>3, HeldFrame
<1>6. ASSUME NEW u \in Updates, UpdateStep(u)
      PROVE  HeldInv'
  <2>0. UNCHANGED <<now, heldBy, accepted, item, pc, seen, manual>>
    BY <1>6 DEF UpdateStep, Enter, Touch, Complete, Leave, storeVars, flushVars, historyVars
  <2>1. CASE Touch(u)
    <3>1. PICK t \in ClockReadings : TouchHold(t)
      BY <2>1 DEF Touch
    <3>2. gen' = genSeq + 1 /\ genSeq' = genSeq + 1 /\ hold' # Absent
      BY <1>0, <3>1, ReadingsArePositive, StoreAssumption DEF TouchHold, Absent
    <3>3. \A x \in Events : ~Waiting(x)'
      BY <1>0, <2>0, <3>2 DEF HeldInv, HeldWasClaimed, Waiting
    <3>4. JudgesItsHold'
      BY <1>0, <2>0, <3>3 DEF JudgesItsHold
    <3>5. GenerationOfHold' /\ HeldWasClaimed'
      BY <1>0, <2>0, <3>2 DEF HeldInv, GenerationOfHold, HeldWasClaimed, Absent, Listed
    <3>6. CarriesAccepted'
      BY <2>0 DEF HeldInv, CarriesAccepted, Listed
    <3>. QED  BY <3>4, <3>5, <3>6 DEF HeldInv
  <2>2. CASE Enter(u) \/ Complete(u) \/ Leave(u)
    <3>1. /\ genSeq' = genSeq
          /\ UNCHANGED <<hold, gen>> \/ (hold' = Absent /\ gen' = Absent)
      BY <2>2 DEF Enter, Complete, Leave, ReleaseHoldGenerationIfUnchanged, DropHold,
         storeVars, holdVars
    <3>. QED  BY <1>0, <2>0, <3>1, HeldFrame
  <2>. QED  BY <1>6, <2>1, <2>2 DEF UpdateStep
<1>7. CASE Tick \/ HoldExpires \/ LockExpires \/ ForgetClaims \/ UNCHANGED vars
  <2>1. UNCHANGED <<genSeq, heldBy, accepted, item, pc, seen, manual>>
    BY <1>7 DEF Tick, HoldExpires, ExpireHold, LockExpires, ForgetClaims, ExpireDedupe,
       vars, storeVars, holdVars, flushVars, historyVars
  <2>2. UNCHANGED <<hold, gen>> \/ (hold' = Absent /\ gen' = Absent)
    BY <1>7 DEF Tick, HoldExpires, ExpireHold, LockExpires, ForgetClaims, ExpireDedupe,
       vars, storeVars, holdVars
  <2>3. now' >= now
    BY <1>0, <1>7 DEF Tick, HoldExpires, ExpireHold, LockExpires, ForgetClaims,
       ExpireDedupe, vars, storeVars
  <2>. QED  BY <1>0, <2>1, <2>2, <2>3, HeldFrame
<1>. QED  BY <1>1, <1>2, <1>3, <1>4, <1>5, <1>6, <1>7 DEF Next

\* A notification queued under a hold is not sent by itself while that very
\* hold lasts, however the flow, the clock and other flushes interleave with
\* the awaits between the judgement of the hold and the send.
THEOREM HoldsAreKept == Spec => []QueuedStaysHeld
<1>1. TypeInv /\ HeldInv => QueuedStaysHeld
  <2>. SUFFICES ASSUME TypeInv, HeldInv, NEW p \in Flushers,
                       pc[p] = "sending", ~manual[p], hold > now, heldBy[item[p]] = gen
                PROVE  FALSE
    BY DEF QueuedStaysHeld
  <2>1. item[p] # NoEvent /\ hold \in Nat /\ now \in Nat
    BY DeliveryAssumption DEF TypeInv, TypeOK, StoreTypeOK, Carries, InFlight
  <2>2. gen # Absent
    BY <2>1 DEF HeldInv, GenerationOfHold, Absent
  <2>. QED  BY <2>1, <2>2 DEF HeldInv, JudgesItsHold, Waiting
<1>2. TypeInv /\ QueueInv /\ HeldInv /\ [Next]_vars => HeldInv'
  BY TypeStep, HeldStep
<1>3. Spec => []HeldInv
  BY TypeInvariant, QueueInvariant, HeldInit, <1>2, PTL DEF Spec
<1>. QED  BY <1>1, <1>3, TypeInvariant, PTL

-----------------------------------------------------------------------------
(***************************************************************************)
(* Copies.  CopiesNeedFaults is a bound on a counter; the invariant counts *)
(* as well what can still raise it: the flushers that lost their lease     *)
(* between the renewal and the send (Late), a claim the deduplication set  *)
(* would accept again, and the notification at the head that its owner is  *)
(* about to send.                                                          *)
(***************************************************************************)
Preparing == {"hold", "judge", "sending"}

Late(e) ==
  {p \in Flushers : pc[p] \in Preparing /\ item[p] = e /\ lock # Lease(p)}

Acked(e) == \E p \in Flushers : lock = Lease(p) /\ pc[p] = "ack" /\ item[p] = e

ToSend(e) == e \in pendingIds /\ ~Acked(e)

One(b) == IF b THEN 1 ELSE 0

Counted ==
  \A e \in Events :
    /\ IsFiniteSet(Late(e))
    /\ copies[e] + Cardinality(Late(e)) + One(e \notin dedupe) + One(ToSend(e))
         <= 1 + faults

\* The owner of the lease carries the head, so what it sends is not yet acked.
OwnerCarriesHead ==
  \A p \in Flushers :
    lock = Lease(p) /\ pc[p] \in Preparing \cup {"renew", "ack"} /\ item[p] # NoEvent =>
      pending # <<>> /\ item[p] = Head(pending)

IdleCarryNothing ==
  \A p \in Flushers : pc[p] \in {"idle", "acquire"} => item[p] = NoEvent

CopiesInv == Counted /\ OwnerCarriesHead /\ IdleCarryNothing

\* Two flushers never draw the same token.
LEMMA TokensDiffer ==
  ASSUME NEW p \in Flushers, NEW q \in Flushers
  PROVE  /\ Lease(p) = Lease(q) => p = q
         /\ Lease(p) # Recovery(q)
         /\ Lease(p) # Free /\ Recovery(p) # Free
BY StoreAssumption, LeaseIsToken DEF Lease, Recovery

LEMMA FaultsAreCounted == TypeInv => faults \in Nat
BY DeliveryAssumption DEF TypeInv, TypeOK

\* A step that puts no flusher among the late ones adds at most what it
\* explains by a fault.
LEMMA CountedFrame ==
  ASSUME TypeInv, TypeInv', Counted, NEW e \in Events,
         Late(e)' \subseteq Late(e), copies'[e] = copies[e],
         One(e \notin dedupe)' + One(ToSend(e))' + faults
           <= One(e \notin dedupe) + One(ToSend(e)) + faults'
  PROVE  /\ IsFiniteSet(Late(e))'
         /\ (copies[e] + Cardinality(Late(e)) + One(e \notin dedupe) + One(ToSend(e))
              <= 1 + faults)'
<1>1. IsFiniteSet(Late(e)') /\ Cardinality(Late(e)') <= Cardinality(Late(e))
  BY FS_Subset DEF Counted
<1>2. Cardinality(Late(e)') \in Nat /\ Cardinality(Late(e)) \in Nat
  BY <1>1, FS_CardinalityType DEF Counted
<1>3. /\ One(e \notin dedupe) \in 0..1 /\ One(ToSend(e)) \in 0..1
      /\ One(e \notin dedupe)' \in 0..1 /\ One(ToSend(e))' \in 0..1
  BY DEF One
<1>4. /\ copies[e] \in Nat /\ faults \in Nat /\ faults' \in Nat
  BY DeliveryAssumption DEF TypeInv, TypeOK
<1>5. copies[e] + Cardinality(Late(e)) + One(e \notin dedupe) + One(ToSend(e)) <= 1 + faults
  BY DEF Counted
<1>. HIDE DEF One
<1>. QED  BY <1>1, <1>2, <1>3, <1>4, <1>5

LEMMA CountedQuiet ==
  ASSUME TypeInv, TypeInv', Counted,
         \A e \in Events : Late(e)' \subseteq Late(e),
         \A e \in Events : ToSend(e)' => ToSend(e),
         copies' = copies, dedupe' = dedupe, faults' >= faults
  PROVE  Counted'
<1>. SUFFICES ASSUME NEW e \in Events
              PROVE  /\ IsFiniteSet(Late(e))'
                     /\ (copies[e] + Cardinality(Late(e)) + One(e \notin dedupe)
                           + One(ToSend(e)) <= 1 + faults)'
  BY DEF Counted
<1>1. faults \in Nat /\ faults' \in Nat
  BY DeliveryAssumption DEF TypeInv, TypeOK
<1>2. One(e \notin dedupe)' = One(e \notin dedupe) /\ One(e \notin dedupe) \in 0..1
  BY DEF One
<1>3. One(ToSend(e))' <= One(ToSend(e)) /\ One(ToSend(e)) \in 0..1 /\ One(ToSend(e))' \in 0..1
  BY DEF One
<1>4. One(e \notin dedupe)' + One(ToSend(e))' + faults
        <= One(e \notin dedupe) + One(ToSend(e)) + faults'
  BY <1>1, <1>2, <1>3
<1>. QED  BY <1>4, CountedFrame

\* A fault pays for one more copy of every notification.
LEMMA CountedFault ==
  ASSUME TypeInv, TypeInv', Counted,
         \A e \in Events : Late(e)' \subseteq Late(e),
         copies' = copies, pendingIds' = pendingIds, faults' = faults + 1,
         dedupe' = dedupe \/ \A e \in Events : ToSend(e)' => ToSend(e)
  PROVE  Counted'
<1>. SUFFICES ASSUME NEW e \in Events
              PROVE  /\ IsFiniteSet(Late(e))'
                     /\ (copies[e] + Cardinality(Late(e)) + One(e \notin dedupe)
                           + One(ToSend(e)) <= 1 + faults)'
  BY DEF Counted
<1>1. faults \in Nat
  BY DeliveryAssumption DEF TypeInv, TypeOK
<1>2. /\ One(e \notin dedupe) \in 0..1 /\ One(e \notin dedupe)' \in 0..1
      /\ One(ToSend(e)) \in 0..1 /\ One(ToSend(e))' \in 0..1
  BY DEF One
<1>3. \/ One(e \notin dedupe)' = One(e \notin dedupe)
      \/ One(ToSend(e))' <= One(ToSend(e))
  BY DEF One
<1>4. One(e \notin dedupe)' + One(ToSend(e))' + faults
        <= One(e \notin dedupe) + One(ToSend(e)) + faults'
  BY <1>1, <1>2, <1>3
<1>. QED  BY <1>4, CountedFrame

\* The steps of one flusher that leave the lock and the queue alone and carry
\* nothing new: it may only stop preparing a send or acknowledging one.
LEMMA StepAsideKeepsCopies ==
  ASSUME TypeInv, CopiesInv, NEW p \in Flushers,
         UNCHANGED <<pending, pendingIds, lock>>,
         \A q \in Flushers \ {p} : pc'[q] = pc[q] /\ item'[q] = item[q],
         pc'[p] \in Preparing => pc[p] \in Preparing \/ lock = Lease(p),
         pc'[p] \in Preparing \cup {"renew", "ack"} =>
           pc[p] \in Preparing \cup {"renew", "ack"} /\ item'[p] = item[p],
         pc'[p] \in {"idle", "acquire"} => item'[p] = NoEvent
  PROVE  /\ \A e \in Events : Late(e)' \subseteq Late(e)
         /\ (pc[p] = "ack" => pc'[p] = "ack") => \A e \in Events : ToSend(e)' => ToSend(e)
         /\ OwnerCarriesHead' /\ IdleCarryNothing'
<1>1. \A e \in Events : Late(e)' \subseteq Late(e)
  BY DEF Late, Preparing
<1>2. ASSUME pc[p] = "ack" => pc'[p] = "ack"
      PROVE  \A e \in Events : ToSend(e)' => ToSend(e)
  BY <1>2 DEF ToSend, Acked
<1>3. OwnerCarriesHead'
  BY DEF CopiesInv, OwnerCarriesHead
<1>4. IdleCarryNothing'
  BY DEF CopiesInv, IdleCarryNothing
<1>. QED  BY <1>1, <1>2, <1>3, <1>4

LEMMA AcceptKeepsCopies ==
  ASSUME TypeInv, TypeInv', CopiesInv, NEW p \in Flushers, NEW e \in Events, Accept(e, p)
  PROVE  CopiesInv'
<1>0. /\ pc \in [Flushers -> Stages] /\ item \in [Flushers -> Events \cup {NoEvent}]
      /\ pending \in Seq(Events) /\ faults \in Nat
  BY FaultsAreCounted DEF TypeInv, TypeOK, StoreTypeOK
<1>1. /\ UNCHANGED <<item, lock, copies, faults>>
      /\ e \notin dedupe /\ dedupe' = dedupe \cup {e}
      /\ e \notin pendingIds /\ pendingIds' = pendingIds \cup {e}
      /\ pending' = Append(pending, e)
  BY DEF Accept, ClaimAccept, Duplicate
<1>2. \A q \in Flushers : pc'[q] = pc[q] \/ (pc[q] = "idle" /\ pc'[q] = "acquire")
  BY <1>0 DEF Accept, Goto
<1>3. \A x \in Events : Late(x)' \subseteq Late(x) /\ (Acked(x)' <=> Acked(x))
  BY <1>1, <1>2 DEF Late, Preparing, Acked
<1>4. Counted'
  <2>. SUFFICES ASSUME NEW x \in Events
                PROVE  /\ IsFiniteSet(Late(x))'
                       /\ (copies[x] + Cardinality(Late(x)) + One(x \notin dedupe)
                             + One(ToSend(x)) <= 1 + faults)'
    BY DEF Counted
  <2>1. CASE x = e
    <3>1. One(x \notin dedupe) = 1 /\ One(x \notin dedupe)' = 0
          /\ One(ToSend(x)) = 0 /\ One(ToSend(x))' \in 0..1
      BY <1>1, <2>1 DEF One, ToSend
    <3>2. One(x \notin dedupe)' + One(ToSend(x))' + faults
            <= One(x \notin dedupe) + One(ToSend(x)) + faults'
      BY <1>0, <1>1, <3>1
    <3>. QED  BY <1>1, <1>3, <3>2, CountedFrame DEF CopiesInv
  <2>2. CASE x # e
    <3>1. One(x \notin dedupe)' = One(x \notin dedupe) /\ One(ToSend(x))' = One(ToSend(x))
          /\ One(x \notin dedupe) \in 0..1 /\ One(ToSend(x)) \in 0..1
      BY <1>1, <1>3, <2>2 DEF One, ToSend
    <3>2. One(x \notin dedupe)' + One(ToSend(x))' + faults
            <= One(x \notin dedupe) + One(ToSend(x)) + faults'
      BY <1>0, <1>1, <3>1
    <3>. QED  BY <1>1, <1>3, <3>2, CountedFrame DEF CopiesInv
  <2>. QED  BY <2>1, <2>2
<1>5. OwnerCarriesHead'
  <2>1. pending # <<>> => pending' # <<>> /\ Head(pending') = Head(pending)
    BY <1>0, <1>1, HeadTailAppend, AppendProperties
  <2>. QED  BY <1>1, <1>2, <2>1 DEF CopiesInv, OwnerCarriesHead, Preparing
<1>6. IdleCarryNothing'
  BY <1>1, <1>2 DEF CopiesInv, IdleCarryNothing
<1>. QED  BY <1>4, <1>5, <1>6 DEF CopiesInv

\* A delivery moves one unit: from the late flushers, or from the head still to
\* be sent, to the copies.
LEMMA DeliverKeepsCopies ==
  ASSUME TypeInv, TypeInv', QueueInv, CopiesInv, NEW p \in Flushers, Deliver(p)
  PROVE  CopiesInv'
<1>. DEFINE e == item[p]
<1>0. /\ pc \in [Flushers -> Stages] /\ copies \in [Events -> Nat] /\ faults \in Nat
      /\ e \in Events /\ e # NoEvent
  BY DeliveryAssumption DEF Deliver, TypeInv, TypeOK, Carries, InFlight
<1>1. /\ UNCHANGED <<item, lock, pending, pendingIds, dedupe, faults>>
      /\ pc[p] = "sending" /\ pc' = [pc EXCEPT ![p] = "ack"]
      /\ copies' = [copies EXCEPT ![e] = @ + 1]
  BY DEF Deliver, Goto, storeVars
<1>2. \A x \in Events : Late(x)' \subseteq Late(x)
  BY <1>0, <1>1 DEF Late, Preparing
<1>3. \A x \in Events : ToSend(x)' => ToSend(x)
  BY <1>0, <1>1 DEF ToSend, Acked
<1>4. ASSUME NEW x \in Events
      PROVE  /\ IsFiniteSet(Late(x))'
             /\ (copies[x] + Cardinality(Late(x)) + One(x \notin dedupe)
                   + One(ToSend(x)) <= 1 + faults)'
  <2>0. One(x \notin dedupe)' = One(x \notin dedupe) /\ One(x \notin dedupe) \in 0..1
        /\ One(ToSend(x))' \in 0..1 /\ One(ToSend(x)) \in 0..1
        /\ One(ToSend(x))' <= One(ToSend(x))
    BY <1>1, <1>3 DEF One
  <2>1. CASE x # e
    <3>1. copies'[x] = copies[x]
      BY <1>0, <1>1, <2>1
    <3>2. One(x \notin dedupe)' + One(ToSend(x))' + faults
            <= One(x \notin dedupe) + One(ToSend(x)) + faults'
      BY <1>0, <1>1, <2>0
    <3>. QED  BY <1>2, <3>1, <3>2, CountedFrame DEF CopiesInv
  <2>2. CASE x = e /\ lock = Lease(p)
    <3>1. ToSend(x)
      <4>1. pending # <<>> /\ x = Head(pending)
        BY <1>0, <1>1, <2>2 DEF CopiesInv, OwnerCarriesHead, Preparing
      <4>2. Listed(x, pending)
        BY <4>1, ListedTail DEF TypeInv, TypeOK, StoreTypeOK
      <4>3. ~Acked(x)
        BY <1>1, <2>2, TokensDiffer DEF Acked
      <4>. QED  BY <4>2, <4>3 DEF ToSend, QueueInv, QueueMatchesIds
    <3>2. ~ToSend(x)'
      BY <1>0, <1>1, <2>2 DEF ToSend, Acked
    <3>3. One(ToSend(x)) = 1 /\ One(ToSend(x))' = 0
      BY <3>1, <3>2 DEF One
    <3>4. IsFiniteSet(Late(x)') /\ Cardinality(Late(x)') <= Cardinality(Late(x))
      BY <1>2, FS_Subset DEF CopiesInv, Counted
    <3>5. Cardinality(Late(x)') \in Nat /\ Cardinality(Late(x)) \in Nat
      BY <3>4, FS_CardinalityType DEF CopiesInv, Counted
    <3>6. copies[x] + Cardinality(Late(x)) + One(x \notin dedupe) + One(ToSend(x)) <= 1 + faults
      BY DEF CopiesInv, Counted
    <3>7. copies'[x] = copies[x] + 1 /\ copies[x] \in Nat
      BY <1>0, <1>1, <2>2
    <3>. QED  BY <1>0, <1>1, <2>0, <3>3, <3>4, <3>5, <3>6, <3>7
  <2>3. CASE x = e /\ lock # Lease(p)
    <3>1. p \in Late(x) /\ Late(x)' \subseteq Late(x) \ {p}
      BY <1>0, <1>1, <1>2, <2>3 DEF Late, Preparing
    <3>2. /\ IsFiniteSet(Late(x) \ {p})
          /\ Cardinality(Late(x) \ {p}) = Cardinality(Late(x)) - 1
      BY <3>1, FS_RemoveElement DEF CopiesInv, Counted
    <3>3. IsFiniteSet(Late(x)') /\ Cardinality(Late(x)') <= Cardinality(Late(x) \ {p})
      BY <3>1, <3>2, FS_Subset
    <3>4. Cardinality(Late(x)') \in Nat /\ Cardinality(Late(x)) \in Nat
      BY <3>3, FS_CardinalityType DEF CopiesInv, Counted
    <3>5. copies[x] + Cardinality(Late(x)) + One(x \notin dedupe) + One(ToSend(x)) <= 1 + faults
      BY DEF CopiesInv, Counted
    <3>6. copies'[x] = copies[x] + 1 /\ copies[x] \in Nat
      BY <1>0, <1>1, <2>3
    <3>. QED  BY <1>0, <1>1, <2>0, <3>2, <3>3, <3>4, <3>5, <3>6
  <2>. QED  BY <2>1, <2>2, <2>3
<1>5. Counted'
  BY <1>4 DEF Counted
<1>6. OwnerCarriesHead'
  BY <1>0, <1>1 DEF CopiesInv, OwnerCarriesHead, Preparing
<1>7. IdleCarryNothing'
  BY <1>0, <1>1 DEF CopiesInv, IdleCarryNothing
<1>. QED  BY <1>5, <1>6, <1>7 DEF CopiesInv

\* The lease taken or drawn back: the lock was free, or its owner neither
\* prepares a send nor has one to acknowledge.
LEMMA LockKeepsCopies ==
  ASSUME TypeInv, TypeInv', CopiesInv, NEW p \in Flushers,
         Acquire(p) \/ Reacquire(p) \/ RecoverRelease(p) \/ Finish(p)
  PROVE  CopiesInv'
<1>0. /\ pc \in [Flushers -> Stages] /\ item \in [Flushers -> Events \cup {NoEvent}]
      /\ faults \in Nat
  BY FaultsAreCounted DEF TypeInv, TypeOK
<1>1. UNCHANGED <<pending, pendingIds, dedupe, copies, faults>>
  BY DEF Acquire, Reacquire, RecoverRelease, Finish, queueVars, historyVars
<1>2. \A q \in Flushers \ {p} : pc'[q] = pc[q] /\ item'[q] = item[q]
  BY <1>0 DEF Acquire, Reacquire, RecoverRelease, Finish, Forget, Goto
<1>3. /\ pc[p] \notin Preparing \cup {"renew", "ack"}
      /\ pc'[p] \in {"idle", "hold", "peek", "reack", "release"}
      /\ pc'[p] = "hold" => item'[p] = NoEvent /\ lock' = Lease(p)
      /\ pc'[p] = "idle" => item'[p] = NoEvent
  BY <1>0 DEF Acquire, AcquireLock, Reacquire, RecoverRelease, Finish, Forget, Goto,
     Preparing, CopiesInv, IdleCarryNothing
<1>4. \A q \in Flushers \ {p} : lock' = Lease(q) <=> lock = Lease(q)
  BY TokensDiffer DEF Acquire, AcquireLock, Reacquire, RecoverRelease, ReleaseLock, Finish
<1>5. \A e \in Events : Late(e)' \subseteq Late(e)
  BY <1>2, <1>3, <1>4 DEF Late, Preparing
<1>6. \A e \in Events : ToSend(e)' => ToSend(e)
  BY <1>1, <1>2, <1>3, <1>4 DEF ToSend, Acked
<1>7. OwnerCarriesHead'
  BY <1>1, <1>2, <1>3, <1>4 DEF CopiesInv, OwnerCarriesHead, Preparing
<1>8. IdleCarryNothing'
  BY <1>2, <1>3 DEF CopiesInv, IdleCarryNothing
<1>. QED  BY <1>0, <1>1, <1>5, <1>6, <1>7, <1>8, CountedQuiet DEF CopiesInv

LEMMA AcknowledgeKeepsCopies ==
  ASSUME TypeInv, TypeInv', CopiesInv, NEW p \in Flushers,
         Acknowledge(p) \/ RecoverAcknowledge(p)
  PROVE  CopiesInv'
<1>0. /\ pc \in [Flushers -> Stages] /\ faults \in Nat
  BY FaultsAreCounted DEF TypeInv, TypeOK
<1>1. UNCHANGED <<item, lock, dedupe, copies, faults>>
  BY DEF Acknowledge, RecoverAcknowledge, AcknowledgeHeadIfLockOwned, PopHead, queueVars,
     historyVars
<1>2. /\ \A q \in Flushers \ {p} : pc'[q] = pc[q]
      /\ pc[p] \in {"ack", "reack"} /\ pc'[p] \in {"peek", "reacquire", "rerelease"}
  BY <1>0 DEF Acknowledge, RecoverAcknowledge, Goto
<1>3. \A e \in Events : Late(e)' \subseteq Late(e)
  BY <1>1, <1>2 DEF Late, Preparing
<1>4. IdleCarryNothing'
  BY <1>1, <1>2 DEF CopiesInv, IdleCarryNothing
<1>5. item[p] \in Events /\ item[p] # NoEvent
  BY <1>2, DeliveryAssumption DEF TypeInv, Carries, InFlight
<1>6. CASE lock \notin {Lease(p), Recovery(p)}
  <2>1. UNCHANGED <<pending, pendingIds>>
    BY <1>6 DEF Acknowledge, RecoverAcknowledge, AcknowledgeHeadIfLockOwned,
       CanAcknowledge, queueVars
  <2>2. \A e \in Events : ToSend(e)' => ToSend(e)
    BY <1>1, <1>2, <1>6, <2>1 DEF ToSend, Acked
  <2>3. OwnerCarriesHead'
    BY <1>1, <1>2, <2>1 DEF CopiesInv, OwnerCarriesHead, Preparing
  <2>. QED  BY <1>0, <1>1, <1>3, <1>4, <2>2, <2>3, CountedQuiet DEF CopiesInv
<1>7. CASE lock \in {Lease(p), Recovery(p)}
  <2>1. \A q \in Flushers \ {p} : lock # Lease(q)
    BY <1>7, TokensDiffer
  <2>2. OwnerCarriesHead'
    BY <1>1, <1>2, <2>1 DEF OwnerCarriesHead, Preparing
  <2>3. pendingIds' \subseteq pendingIds
    BY DEF Acknowledge, RecoverAcknowledge, AcknowledgeHeadIfLockOwned, PopHead, queueVars
  <2>4. \A e \in Events : ToSend(e)' => ToSend(e)
    <3>1. CASE lock = Lease(p) /\ pc[p] = "ack"
      <4>1. pending # <<>> /\ item[p] = Head(pending)
        BY <1>5, <3>1 DEF CopiesInv, OwnerCarriesHead
      <4>2. Acknowledge(p)
        BY <3>1 DEF Acknowledge, RecoverAcknowledge
      <4>3. pendingIds' = pendingIds \ {item[p]}
        BY <3>1, <4>1, <4>2 DEF Acknowledge, AcknowledgeHeadIfLockOwned, CanAcknowledge,
           PopHead
      <4>4. \A e \in Events : Acked(e) => e = item[p]
        BY <2>1, <3>1 DEF Acked
      <4>. QED  BY <4>3, <4>4 DEF ToSend
    <3>2. CASE ~(lock = Lease(p) /\ pc[p] = "ack")
      <4>1. \A e \in Events : ~Acked(e)
        BY <2>1, <3>2 DEF Acked
      <4>. QED  BY <2>3, <4>1 DEF ToSend
    <3>. QED  BY <3>1, <3>2
  <2>. QED  BY <1>0, <1>1, <1>3, <1>4, <2>2, <2>4, CountedQuiet DEF CopiesInv
<1>. QED  BY <1>6, <1>7

\* A lease that runs out under its live owner is a fault: the owner may send
\* what the next flush sends as well, or its acknowledgement will fail.
LEMMA ExpiryKeepsCopies ==
  ASSUME TypeInv, TypeInv', CopiesInv, LockExpires
  PROVE  CopiesInv'
<1>0. /\ pc \in [Flushers -> Stages] /\ item \in [Flushers -> Events \cup {NoEvent}]
      /\ faults \in Nat /\ faults' \in Nat
  BY FaultsAreCounted DEF TypeInv, TypeOK
<1>1. /\ UNCHANGED <<pc, item, pending, pendingIds, dedupe, copies>>
      /\ lock # Free /\ lock' = Free
  BY DEF LockExpires, queueVars, flushVars
<1>2. OwnerCarriesHead' /\ IdleCarryNothing'
  <2>1. \A q \in Flushers : lock' # Lease(q)
    BY <1>1, TokensDiffer
  <2>. QED  BY <1>1, <2>1 DEF CopiesInv, OwnerCarriesHead, IdleCarryNothing
<1>3. CASE ~OwnerAlive
  <2>1. \A q \in Flushers : lock = Lease(q) => pc[q] \in {"idle", "acquire"}
    BY <1>0, <1>3 DEF OwnerAlive, Owning
  <2>2. \A e \in Events : Late(e)' \subseteq Late(e)
    BY <1>1, <2>1 DEF Late, Preparing
  <2>3. \A e \in Events : ToSend(e)' => ToSend(e)
    BY <1>1, <2>1 DEF ToSend, Acked
  <2>4. faults' = faults
    BY <1>3 DEF LockExpires
  <2>. QED  BY <1>0, <1>1, <1>2, <2>2, <2>3, <2>4, CountedQuiet DEF CopiesInv
<1>4. CASE OwnerAlive
  <2>1. faults' = faults + 1
    BY <1>4 DEF LockExpires, Fault
  <2>2. PICK p \in Flushers : lock \in {Lease(p), Recovery(p)}
    BY <1>4 DEF OwnerAlive
  <2>3. \A q \in Flushers \ {p} : lock # Lease(q)
    BY <2>2, TokensDiffer
  <2>4. ASSUME NEW e \in Events
        PROVE  /\ IsFiniteSet(Late(e))'
               /\ (copies[e] + Cardinality(Late(e)) + One(e \notin dedupe)
                     + One(ToSend(e)) <= 1 + faults)'
    <3>1. CASE pc[p] \notin Preparing
      <4>1. Late(e)' \subseteq Late(e)
        BY <1>1, <2>3, <3>1 DEF Late
      <4>2. One(e \notin dedupe)' = One(e \notin dedupe) /\ One(e \notin dedupe) \in 0..1
            /\ One(ToSend(e))' \in 0..1 /\ One(ToSend(e)) \in 0..1
        BY <1>1 DEF One
      <4>3. One(e \notin dedupe)' + One(ToSend(e))' + faults
              <= One(e \notin dedupe) + One(ToSend(e)) + faults'
        BY <1>0, <2>1, <4>2
      <4>. QED  BY <1>1, <4>1, <4>3, CountedFrame DEF CopiesInv
    <3>2. CASE pc[p] \in Preparing
      <4>1. Late(e)' \subseteq Late(e) \cup {p}
        BY <1>1, <2>3 DEF Late
      <4>2. /\ IsFiniteSet(Late(e) \cup {p})
            /\ Cardinality(Late(e) \cup {p}) <= Cardinality(Late(e)) + 1
            /\ Cardinality(Late(e)) \in Nat
        BY FS_AddElement, FS_CardinalityType DEF CopiesInv, Counted
      <4>3. IsFiniteSet(Late(e)') /\ Cardinality(Late(e)') <= Cardinality(Late(e) \cup {p})
        BY <4>1, <4>2, FS_Subset
      <4>4. Cardinality(Late(e)') \in Nat /\ Cardinality(Late(e) \cup {p}) \in Nat
        BY <4>2, <4>3, FS_CardinalityType
      <4>5. ~Acked(e)
        BY <2>3, <3>2 DEF Acked, Preparing
      <4>6. ToSend(e)' => ToSend(e)
        BY <1>1, <4>5 DEF ToSend
      <4>7. One(e \notin dedupe)' = One(e \notin dedupe) /\ One(e \notin dedupe) \in 0..1
            /\ One(ToSend(e))' \in 0..1 /\ One(ToSend(e)) \in 0..1
            /\ One(ToSend(e))' <= One(ToSend(e))
        BY <1>1, <4>6 DEF One
      <4>8. copies[e] + Cardinality(Late(e)) + One(e \notin dedupe) + One(ToSend(e))
              <= 1 + faults
        BY DEF CopiesInv, Counted
      <4>9. copies'[e] = copies[e] /\ copies[e] \in Nat
        BY <1>1 DEF TypeInv, TypeOK
      <4>. QED  BY <1>0, <2>1, <4>2, <4>3, <4>4, <4>7, <4>8, <4>9
    <3>. QED  BY <3>1, <3>2
  <2>. QED  BY <1>2, <2>4 DEF CopiesInv, Counted
<1>. QED  BY <1>3, <1>4

LEMMA CopiesInit == Init => CopiesInv
<1>. SUFFICES ASSUME Init PROVE CopiesInv
  OBVIOUS
<1>1. OwnerCarriesHead /\ IdleCarryNothing
  BY DEF Init, OwnerCarriesHead, IdleCarryNothing
<1>2. ASSUME NEW e \in Events
      PROVE  /\ Late(e) = {} /\ copies[e] = 0 /\ faults = 0
             /\ One(e \notin dedupe) = 1 /\ One(ToSend(e)) = 0
  BY DEF Init, StoreInit, Late, Preparing, ToSend, One
<1>. QED  BY <1>1, <1>2, FS_EmptySet DEF CopiesInv, Counted

LEMMA CopiesStep == TypeInv /\ TypeInv' /\ QueueInv /\ CopiesInv /\ [Next]_vars => CopiesInv'
<1>. SUFFICES ASSUME TypeInv, TypeInv', QueueInv, CopiesInv, [Next]_vars PROVE CopiesInv'
  OBVIOUS
<1>0. /\ pc \in [Flushers -> Stages] /\ item \in [Flushers -> Events \cup {NoEvent}]
      /\ faults \in Nat /\ Handlers \subseteq Flushers /\ Workers \subseteq Flushers
  BY FaultsAreCounted, DeliveryAssumption DEF TypeInv, TypeOK, Handlers
<1>1. ASSUME NEW p \in Handlers, NEW e \in Events, Accept(e, p)
      PROVE  CopiesInv'
  BY <1>0, <1>1, AcceptKeepsCopies
\* A flusher that is not acknowledging moves by itself.
<1>2. ASSUME NEW p \in Flushers,
             UNCHANGED <<pending, pendingIds, dedupe, lock, copies, faults>>,
             \A q \in Flushers \ {p} : pc'[q] = pc[q] /\ item'[q] = item[q],
             pc'[p] \in Preparing => pc[p] \in Preparing \/ lock = Lease(p),
             pc'[p] \in Preparing \cup {"renew", "ack"} =>
               pc[p] \in Preparing \cup {"renew", "ack"} /\ item'[p] = item[p],
             pc'[p] \in {"idle", "acquire"} => item'[p] = NoEvent,
             pc[p] # "ack" \/ pc'[p] = "ack"
      PROVE  CopiesInv'
  <2>1. /\ \A e \in Events : Late(e)' \subseteq Late(e)
        /\ \A e \in Events : ToSend(e)' => ToSend(e)
        /\ OwnerCarriesHead' /\ IdleCarryNothing'
    BY <1>2, StepAsideKeepsCopies
  <2>. QED  BY <1>0, <1>2, <2>1, CountedQuiet DEF CopiesInv
<1>3. ASSUME NEW p \in Flushers, pc[p] = "idle", pc' = pc \/ Goto(p, "acquire"),
             UNCHANGED <<pending, pendingIds, dedupe, lock, copies, faults, item>>
      PROVE  CopiesInv'
  <2>1. item[p] = NoEvent
    BY <1>3 DEF CopiesInv, IdleCarryNothing
  <2>. QED  BY <1>0, <1>2, <1>3, <2>1 DEF Goto, Preparing
<1>4. ASSUME NEW p \in Handlers, PressBadge(p)
      PROVE  CopiesInv'
  BY <1>0, <1>3, <1>4 DEF PressBadge, storeVars, historyVars
<1>5. ASSUME NEW w \in Workers, Poll(w)
      PROVE  CopiesInv'
  <2>1. /\ UNCHANGED <<pending, pendingIds, dedupe, lock, copies, faults, item>>
        /\ pc' = pc \/ (pc[w] = "idle" /\ Goto(w, "acquire"))
    BY <1>5 DEF Poll, queueVars, historyVars
  <2>2. CASE pc[w] = "idle"
    BY <1>0, <1>3, <2>1, <2>2
  <2>3. CASE pc' = pc
    BY <1>0, <2>1, <2>3, CountedQuiet DEF CopiesInv, OwnerCarriesHead, IdleCarryNothing,
       Late, ToSend, Acked
  <2>. QED  BY <2>1, <2>2, <2>3
<1>6. ASSUME NEW p \in Flushers, FlushStep(p)
      PROVE  CopiesInv'
  <2>1. CASE Acquire(p) \/ Reacquire(p) \/ RecoverRelease(p) \/ Finish(p)
    BY <2>1, LockKeepsCopies
  <2>2. CASE Deliver(p)
    BY <2>2, DeliverKeepsCopies
  <2>3. CASE Acknowledge(p) \/ RecoverAcknowledge(p)
    BY <2>3, AcknowledgeKeepsCopies
  <2>4. CASE Peek(p)
    <3>1. /\ UNCHANGED <<pending, pendingIds, dedupe, lock, copies, faults>>
          /\ \A q \in Flushers \ {p} : pc'[q] = pc[q] /\ item'[q] = item[q]
          /\ pc[p] = "peek" /\ pc'[p] \in {"drop", "renew"}
          /\ pc'[p] = "renew" => pending # <<>> /\ item'[p] = Head(pending)
      BY <1>0, <2>4 DEF Peek, Goto, storeVars, historyVars
    <3>2. \A e \in Events : Late(e)' \subseteq Late(e) /\ (ToSend(e)' => ToSend(e))
      BY <3>1 DEF Late, Preparing, ToSend, Acked
    <3>3. OwnerCarriesHead'
      BY <3>1 DEF CopiesInv, OwnerCarriesHead, Preparing
    <3>4. IdleCarryNothing'
      BY <3>1 DEF CopiesInv, IdleCarryNothing
    <3>. QED  BY <1>0, <3>1, <3>2, <3>3, <3>4, CountedQuiet DEF CopiesInv
  <2>5. CASE \/ ReadHold(p) \/ JudgeHold(p) \/ RenewLease(p) \/ SendFails(p)
             \/ DropExpiredHold(p) \/ ClearSchedule(p)
    <3>1. UNCHANGED <<pending, pendingIds, dedupe, lock, copies, faults, item>>
      BY <2>5 DEF ReadHold, JudgeHold, RenewLease, SendFails, DropExpiredHold,
         ClearSchedule, storeVars, queueVars, historyVars
    <3>2. /\ \A q \in Flushers \ {p} : pc'[q] = pc[q]
          /\ pc[p] # "ack" /\ pc'[p] \notin {"idle", "acquire", "renew", "ack"}
          /\ pc'[p] \in Preparing => pc[p] \in Preparing \cup {"renew"}
          /\ pc'[p] \in Preparing => pc[p] \in Preparing \/ lock = Lease(p)
      BY <1>0, <2>5 DEF ReadHold, JudgeHold, RenewLease, SendFails, DropExpiredHold,
         ClearSchedule, Goto, Preparing
    <3>. QED  BY <1>2, <3>1, <3>2
  <2>. QED  BY <1>6, <2>1, <2>2, <2>3, <2>4, <2>5 DEF FlushStep
<1>7. ASSUME NEW p \in Flushers, Abort(p) \/ Crash(p)
      PROVE  CopiesInv'
  <2>1. /\ UNCHANGED <<pending, pendingIds, dedupe, lock, copies>>
        /\ faults' = faults + 1
    BY <1>7 DEF Abort, Crash, Fault, storeVars
  <2>2. /\ \A q \in Flushers \ {p} : pc'[q] = pc[q] /\ item'[q] = item[q]
        /\ pc'[p] \in {"idle", "release", "rerelease"}
        /\ pc'[p] = "idle" => item'[p] = NoEvent
    BY <1>0, <1>7 DEF Abort, Crash, Forget, Goto
  <2>3. /\ \A e \in Events : Late(e)' \subseteq Late(e)
        /\ OwnerCarriesHead' /\ IdleCarryNothing'
    <3>1. /\ pc'[p] \notin Preparing \cup {"renew", "ack"}
          /\ pc'[p] \in {"idle", "acquire"} => item'[p] = NoEvent
      BY <2>2 DEF Preparing
    <3>. QED  BY <2>1, <2>2, <3>1, StepAsideKeepsCopies
  <2>. QED  BY <2>1, <2>3, CountedFault DEF CopiesInv
<1>8. CASE ForgetClaims
  <2>1. /\ UNCHANGED <<pc, item, pending, pendingIds, lock, copies>>
        /\ faults' = faults + 1
    BY <1>8 DEF ForgetClaims, ExpireDedupe, Fault, flushVars
  <2>2. \A e \in Events : Late(e)' \subseteq Late(e) /\ (ToSend(e)' => ToSend(e))
    BY <2>1 DEF Late, ToSend, Acked
  <2>3. OwnerCarriesHead' /\ IdleCarryNothing'
    BY <2>1 DEF CopiesInv, OwnerCarriesHead, IdleCarryNothing
  <2>. QED  BY <2>1, <2>2, <2>3, CountedFault DEF CopiesInv
<1>9. CASE LockExpires
  BY <1>9, ExpiryKeepsCopies
<1>10. CASE \/ \E u \in Updates : UpdateStep(u)
            \/ Tick \/ HoldExpires \/ UNCHANGED vars
  <2>1. UNCHANGED <<pc, item, pending, pendingIds, dedupe, lock, copies, faults>>
    BY <1>10 DEF UpdateStep, Enter, Touch, Complete, Leave, Tick, HoldExpires, ExpireHold,
       vars, storeVars, queueVars, flushVars, historyVars
  <2>2. \A e \in Events : Late(e)' \subseteq Late(e) /\ (ToSend(e)' => ToSend(e))
    BY <2>1 DEF Late, ToSend, Acked
  <2>3. OwnerCarriesHead' /\ IdleCarryNothing'
    BY <2>1 DEF CopiesInv, OwnerCarriesHead, IdleCarryNothing
  <2>. QED  BY <1>0, <2>1, <2>2, <2>3, CountedQuiet DEF CopiesInv
<1>. QED  BY <1>1, <1>4, <1>5, <1>6, <1>7, <1>8, <1>9, <1>10 DEF Next

LEMMA CopiesBound ==
  ASSUME TypeInv, CopiesInv
  PROVE  CopiesNeedFaults
<1>. SUFFICES ASSUME NEW e \in Events
              PROVE  copies[e] <= 1 + faults
  BY Zenon DEF CopiesNeedFaults
<1>1. copies[e] \in Nat /\ faults \in Nat
  BY FaultsAreCounted DEF TypeInv, TypeOK
<1>2. Cardinality(Late(e)) \in Nat
  BY FS_CardinalityType DEF CopiesInv, Counted
<1>3. One(e \notin dedupe) \in 0..1 /\ One(ToSend(e)) \in 0..1
  BY DEF One
<1>. QED  BY <1>1, <1>2, <1>3 DEF CopiesInv, Counted

\* A second copy of a notification has a fault to explain it, for any number of
\* flushers: leases exclude concurrent sends, the acknowledgement precedes the
\* next peek, and a lost lease alone resends nothing.
THEOREM FaultsExplainCopies == Spec => []CopiesNeedFaults
<1>1. TypeInv /\ CopiesInv => CopiesNeedFaults
  BY CopiesBound
<1>2. TypeInv /\ QueueInv /\ CopiesInv /\ [Next]_vars => CopiesInv'
  BY TypeStep, CopiesStep
<1>3. Spec => []CopiesInv
  BY TypeInvariant, QueueInvariant, CopiesInit, <1>2, PTL DEF Spec
<1>. QED  BY <1>1, <1>3, TypeInvariant, PTL

-----------------------------------------------------------------------------
(* Refinement *)

\* The initial queue and every step map to NotificationQueue.
LEMMA RefinementInit == Init => Queue!Init
BY DEF Init, StoreInit, Queue!Init

LEMMA RefinementStep ==
  TypeInv /\ QueueInv /\ [Next]_vars => [Queue!Next]_(Queue!vars)
<1>. SUFFICES ASSUME TypeInv, QueueInv, [Next]_vars
              PROVE  Queue!Next \/ UNCHANGED Queue!vars
  OBVIOUS
<1>1. CASE Quiet
  BY <1>1, QuietFrame DEF queueHistory, Queue!vars
<1>2. ASSUME NEW p \in Handlers, NEW e \in Events, Accept(e, p)
      PROVE  Queue!Accept(e)
  <2>1. e \notin pendingIds /\ pending' = Append(pending, e)
    BY <1>2 DEF Accept, ClaimAccept, Duplicate
  <2>2. ~Listed(e, pending)
    BY <2>1 DEF QueueInv, QueueMatchesIds
  <2>. QED  BY <1>2, <2>1, <2>2 DEF Accept, Queue!Accept, Listed, Queue!Listed,
            Once, Queue!Once
<1>3. ASSUME NEW p \in Flushers, Deliver(p)
      PROVE  Queue!Show \/ UNCHANGED Queue!vars
  <2>1. item[p] \in Events /\ item[p] # NoEvent
    BY <1>3, DeliveryAssumption DEF Deliver, TypeInv, Carries, InFlight
  <2>2. /\ pending' = pending /\ accepted' = accepted
        /\ shown' = Once(shown, item[p])
    BY <1>3 DEF Deliver, storeVars
  <2>3. CASE Shown(item[p])
    BY <2>1, <2>2, <2>3 DEF QueueInv, ShownListed, Once, Queue!vars
  <2>4. CASE pending # <<>> /\ item[p] = Head(pending)
    BY <2>2, <2>4 DEF Queue!Show, Once, Queue!Once, Listed, Queue!Listed
  <2>. QED  BY <2>1, <2>3, <2>4 DEF QueueInv, CarriesHead
<1>4. ASSUME NEW p \in Flushers, Acknowledge(p) \/ RecoverAcknowledge(p)
      PROVE  Queue!Remove \/ UNCHANGED Queue!vars
  <2>1. UNCHANGED <<accepted, shown>> /\ pc[p] \in Acking /\ item[p] \in Events
    BY <1>4 DEF Acknowledge, RecoverAcknowledge, historyVars, Acking, TypeInv, Carries,
       InFlight
  <2>2. Listed(item[p], shown)
    BY <2>1 DEF QueueInv, AckedShown, ShownListed
  <2>3. CASE pending # <<>> /\ Head(pending) = item[p] /\ PopHead
    BY <2>1, <2>2, <2>3 DEF PopHead, Queue!Remove, Listed, Queue!Listed
  <2>4. CASE UNCHANGED queueVars
    BY <2>1, <2>4 DEF queueVars, Queue!vars
  <2>. QED  BY <1>4, <2>3, <2>4 DEF Acknowledge, RecoverAcknowledge,
            AcknowledgeHeadIfLockOwned, CanAcknowledge
<1>. QED  BY <1>1, <1>2, <1>3, <1>4, QuietOrLoud DEF Loud, Queue!Next

\* The Redis queue with its leases, holds, workers, aborts and crashes
\* implements the abstract at-least-once queue.
THEOREM Refinement == Spec => ImplementsQueue
BY RefinementInit, RefinementStep, TypeInvariant, QueueInvariant, PTL
   DEF Spec, ImplementsQueue, Queue!Spec

=============================================================================
