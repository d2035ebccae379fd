-------------------- MODULE NotificationDelivery_proofs --------------------
(***************************************************************************)
(* Type correctness of NotificationDelivery and the invariant that keeps a *)
(* user with work in the sorted set, for every number of events, flushers, *)
(* workers, updates and faults.                                            *)
(***************************************************************************)
EXTENDS NotificationDelivery, SequenceTheorems, TLAPS

\* A flusher that is past peek() carries the notification it peeked.
InFlight == {"renew", "sending", "ack", "reacquire", "reack"}

Carries == \A p \in Flushers : pc[p] \in InFlight => item[p] \in Events

TypeInv == TypeOK /\ Carries

\* A clock reading is a positive number of seconds not beyond the clock.
LEMMA ReadingsArePositive ==
  ASSUME NEW t \in ClockReadings, now \in Nat
  PROVE  t \in Nat /\ t # 0 /\ t <= now
BY DEF ClockReadings

\* Adding an event to a history keeps it a sequence of events.
LEMMA OnceType ==
  ASSUME NEW e \in Events, NEW seq \in Seq(Events)
  PROVE  Once(seq, e) \in Seq(Events)
BY DEF Once

\* The keys of the store keep their types when a hold is dropped, a claim is
\* queued or a head is popped.
LEMMA DropHoldType ==
  ASSUME NEW t \in Nat, DropHold(t), due \in Nat, genSeq \in Nat
  PROVE  hold' \in Nat /\ gen' \in Nat /\ genSeq' \in Nat /\ due' \in Nat
BY DEF DropHold, Absent

LEMMA ClaimType ==
  ASSUME StoreTypeOK, NEW t \in Nat, NEW e \in Events, ClaimAccept(e, t)
  PROVE  /\ pending' \in Seq(Events) /\ pendingIds' \in SUBSET Events
         /\ dedupe' \in SUBSET Events /\ due' \in Nat
BY DEF ClaimAccept, StoreTypeOK

LEMMA AcknowledgeType ==
  ASSUME StoreTypeOK, NEW e, NEW token, AcknowledgeHeadIfLockOwned(e, token)
  PROVE  /\ pending' \in Seq(Events) /\ pendingIds' \in SUBSET Events
         /\ dedupe' \in SUBSET Events
<1>1. CASE CanAcknowledge(e, token)
  BY <1>1, HeadTailProperties DEF AcknowledgeHeadIfLockOwned, CanAcknowledge,
     PopHead, StoreTypeOK
<1>2. CASE ~CanAcknowledge(e, token)
  BY <1>2 DEF AcknowledgeHeadIfLockOwned, StoreTypeOK, queueVars
<1>. QED  BY <1>1, <1>2

LEMMA LeaseIsToken ==
  ASSUME NEW p \in Flushers
  PROVE  Lease(p) \in Tokens /\ Recovery(p) \in Tokens
BY DEF Lease, Recovery, Tokens

-----------------------------------------------------------------------------
LEMMA TypeInit == Init => TypeInv
BY StoreAssumption, DeliveryAssumption
   DEF Init, StoreInit, TypeInv, TypeOK, StoreTypeOK, Carries, Stages, InFlight, Absent

LEMMA TypeStep == TypeInv /\ [Next]_vars => TypeInv'
<1>. SUFFICES ASSUME TypeInv, [Next]_vars PROVE TypeInv'
  OBVIOUS
<1>. USE StoreAssumption, DeliveryAssumption
<1>1. ASSUME NEW p \in Handlers, NEW e \in Events, Accept(e, p)
      PROVE  TypeInv'
  <2>1. PICK t \in ClockReadings :
          /\ ClaimAccept(e, t)
          /\ heldBy' = heldBy \/ heldBy' = [heldBy EXCEPT ![e] = gen]
          /\ IF hold > t THEN UNCHANGED pc ELSE Goto(p, "acquire")
    BY <1>1 DEF Accept
  <2>2. p \in Flushers /\ t \in Nat
    BY ReadingsArePositive DEF Handlers, TypeInv, TypeOK, StoreTypeOK
  <2>3. StoreTypeOK'
    BY <1>1, <2>1, <2>2, ClaimType DEF Accept, TypeInv, TypeOK, StoreTypeOK, holdVars
  <2>4. accepted' \in Seq(Events) /\ heldBy' \in [Events -> Nat]
    BY <1>1, <2>1, OnceType DEF Accept, TypeInv, TypeOK, StoreTypeOK, Absent
  <2>5. TypeOK'
    BY <1>1, <2>1, <2>2, <2>3, <2>4
       DEF Accept, TypeInv, TypeOK, Goto, Stages, updateVars
  <2>6. Carries'
    BY <1>1, <2>1, <2>2 DEF Accept, TypeInv, TypeOK, Carries, Goto, InFlight
  <2>. QED  BY <2>5, <2>6 DEF TypeInv
<1>2. ASSUME NEW p \in Handlers, PressBadge(p)
      PROVE  TypeInv'
  BY <1>2 DEF PressBadge, TypeInv, TypeOK, StoreTypeOK, Carries, Goto, Stages, InFlight,
     Handlers, storeVars, updateVars, historyVars
<1>3. ASSUME NEW w \in Workers, Poll(w)
      PROVE  TypeInv'
  <2>1. PICK t \in ClockReadings :
          /\ DueUsers(t)
          /\ pc' = pc \/ Goto(w, "acquire")
    BY <1>3 DEF Poll
  <2>2. due' \in Nat
    BY <2>1 DEF DueUsers, TypeInv, TypeOK, StoreTypeOK, Absent
  <2>. QED  BY <1>3, <2>1, <2>2 DEF Poll, TypeInv, TypeOK, StoreTypeOK, Carries, Goto,
     Stages, InFlight, holdVars, queueVars, updateVars, historyVars
<1>4. ASSUME NEW p \in Flushers, FlushStep(p)
      PROVE  TypeInv'
  <2>1. CASE Acquire(p)
    BY <2>1, LeaseIsToken DEF Acquire, AcquireLock, TypeInv, TypeOK, StoreTypeOK, Carries,
       Goto, Stages, InFlight, holdVars, queueVars, updateVars, historyVars
  <2>2. CASE ReadHold(p)
    BY <2>2 DEF ReadHold, TypeInv, TypeOK, StoreTypeOK, Carries,
       Goto, Stages, InFlight, storeVars, updateVars, historyVars
  <2>3. CASE JudgeHold(p)
    <3>1. \/ Goto(p, "release")
          \/ Goto(p, IF item[p] = NoEvent THEN "peek" ELSE "sending")
      BY <2>3 DEF JudgeHold
    <3>2. pc' \in [Flushers -> Stages]
      BY <3>1 DEF Goto, TypeInv, TypeOK, Stages
    <3>3. seen' \in [Flushers -> Nat] /\ expired' \in [Flushers -> Nat]
      BY <2>3 DEF JudgeHold, TypeInv, TypeOK, Absent
    <3>4. UNCHANGED <<storeVars, item, manual, updateVars, historyVars>>
      BY <2>3 DEF JudgeHold
    <3>5. Carries'
      BY <3>1, <3>4 DEF Goto, TypeInv, TypeOK, Carries, InFlight
    <3>. QED  BY <3>2, <3>3, <3>4, <3>5 DEF TypeInv, TypeOK, StoreTypeOK,
         storeVars, updateVars, historyVars
  <2>4. CASE Peek(p)
    BY <2>4, HeadTailProperties DEF Peek, TypeInv, TypeOK, StoreTypeOK, Carries,
       Goto, Stages, InFlight, storeVars, updateVars, historyVars
  <2>5. CASE RenewLease(p)
    BY <2>5 DEF RenewLease, TypeInv, TypeOK, StoreTypeOK, Carries,
       Goto, Stages, InFlight, storeVars, updateVars, historyVars
  <2>6. CASE Deliver(p)
    <3>1. item[p] \in Events
      BY <2>6 DEF Deliver, TypeInv, Carries, InFlight
    <3>2. shown' \in Seq(Events) /\ copies' \in [Events -> Nat]
      BY <2>6, <3>1, OnceType DEF Deliver, TypeInv, TypeOK
    <3>. QED  BY <2>6, <3>1, <3>2 DEF Deliver, TypeInv, TypeOK, StoreTypeOK, Carries,
         Goto, Stages, InFlight, storeVars, updateVars
  <2>7. CASE SendFails(p)
    BY <2>7 DEF SendFails, TypeInv, TypeOK, StoreTypeOK, Carries,
       Goto, Stages, InFlight, storeVars, updateVars, historyVars
  <2>8. CASE Acknowledge(p)
    BY <2>8, AcknowledgeType DEF Acknowledge, TypeInv, TypeOK, StoreTypeOK, Carries,
       Goto, Stages, InFlight, holdVars, updateVars, historyVars
  <2>9. CASE Reacquire(p)
    BY <2>9, LeaseIsToken DEF Reacquire, AcquireLock, TypeInv, TypeOK, StoreTypeOK, Carries,
       Goto, Stages, InFlight, holdVars, queueVars, updateVars, historyVars
  <2>10. CASE RecoverAcknowledge(p)
    BY <2>10, AcknowledgeType DEF RecoverAcknowledge, TypeInv, TypeOK, StoreTypeOK, Carries,
       Goto, Stages, InFlight, holdVars, updateVars, historyVars
  <2>11. CASE RecoverRelease(p)
    BY <2>11 DEF RecoverRelease, ReleaseLock, TypeInv, TypeOK, StoreTypeOK, Carries,
       Goto, Stages, InFlight, holdVars, queueVars, updateVars, historyVars
  <2>12. CASE DropExpiredHold(p)
    <3>1. hold' \in Nat /\ gen' \in Nat /\ genSeq' \in Nat /\ due' \in Nat
      <4>1. CASE UNCHANGED <<holdVars, due>>
        BY <4>1 DEF TypeInv, TypeOK, StoreTypeOK, holdVars
      <4>2. CASE \E t \in ClockReadings : DropHold(t)
        BY <4>2, DropHoldType, ReadingsArePositive DEF TypeInv, TypeOK, StoreTypeOK
      <4>. QED  BY <2>12, <4>1, <4>2 DEF DropExpiredHold, ReleaseDueHoldIfUnchanged
    <3>. QED  BY <2>12, <3>1 DEF DropExpiredHold, TypeInv, TypeOK, StoreTypeOK, Carries,
         Goto, Stages, InFlight, queueVars, updateVars, historyVars
  <2>13. CASE ClearSchedule(p)
    BY <2>13 DEF ClearSchedule, ClearImmediateDueIfEmptyAndLockOwned, Absent, TypeInv,
       TypeOK, StoreTypeOK, Carries, Goto, Stages, InFlight, holdVars, queueVars,
       updateVars, historyVars
  <2>14. CASE Finish(p)
    BY <2>14 DEF Finish, ReleaseLock, Forget, Absent, TypeInv, TypeOK, StoreTypeOK, Carries,
       Goto, Stages, InFlight, holdVars, queueVars, updateVars, historyVars
  <2>. QED  BY <1>4, <2>1, <2>2, <2>3, <2>4, <2>5, <2>6, <2>7, <2>8, <2>9, <2>10,
       <2>11, <2>12, <2>13, <2>14 DEF FlushStep
<1>5. ASSUME NEW p \in Flushers, Abort(p)
      PROVE  TypeInv'
  <2>1. Goto(p, "release") \/ Goto(p, "rerelease")
    BY <1>5 DEF Abort
  <2>2. pc' \in [Flushers -> Stages]
    BY <2>1 DEF Goto, TypeInv, TypeOK, Stages
  <2>3. UNCHANGED <<storeVars, item, seen, expired, manual, updateVars,
                    accepted, shown, copies, heldBy>>
    BY <1>5 DEF Abort
  <2>4. Carries'
    BY <2>1, <2>3 DEF Goto, TypeInv, TypeOK, Carries, InFlight
  <2>5. faults' \in 0..MaxFaults
    BY <1>5 DEF Abort, Fault, TypeInv, TypeOK
  <2>. QED  BY <2>2, <2>3, <2>4, <2>5 DEF TypeInv, TypeOK, StoreTypeOK, storeVars, updateVars
<1>6. ASSUME NEW p \in Flushers, Crash(p)
      PROVE  TypeInv'
  BY <1>6 DEF Crash, Fault, Forget, Absent, TypeInv, TypeOK, StoreTypeOK, Carries,
     Goto, Stages, InFlight, storeVars, updateVars
<1>7. ASSUME NEW u \in Updates, UpdateStep(u)
      PROVE  TypeInv'
  <2>1. CASE Enter(u) \/ Leave(u)
    <3>1. upc' \in [Updates -> {"out", "entered", "touched"}]
      BY <2>1 DEF Enter, Leave, TypeInv, TypeOK
    <3>2. captured' \in [Updates -> Nat]
      <4>1. captured \in [Updates -> Nat] /\ gen \in Nat /\ Absent \in Nat
        BY DEF TypeInv, TypeOK, StoreTypeOK, Absent
      <4>. QED  BY <2>1, <4>1 DEF Enter, Leave
    <3>3. UNCHANGED <<storeVars, flushVars, historyVars>>
      BY <2>1 DEF Enter, Leave
    <3>. QED  BY <3>1, <3>2, <3>3 DEF TypeInv, TypeOK, StoreTypeOK, Carries,
         storeVars, flushVars, historyVars
  <2>2. CASE Touch(u)
    <3>1. PICK t \in ClockReadings : TouchHold(t)
      BY <2>2 DEF Touch
    <3>2. hold' \in Nat /\ gen' \in Nat /\ genSeq' \in Nat /\ due' \in Nat
      BY <3>1, ReadingsArePositive DEF TouchHold, TypeInv, TypeOK, StoreTypeOK
    <3>. QED  BY <2>2, <3>2 DEF Touch, TypeInv, TypeOK, StoreTypeOK, Carries,
         queueVars, flushVars, historyVars
  <2>3. CASE Complete(u)
    <3>1. hold' \in Nat /\ gen' \in Nat /\ genSeq' \in Nat /\ due' \in Nat
      <4>1. CASE UNCHANGED <<holdVars, due>>
        BY <4>1 DEF TypeInv, TypeOK, StoreTypeOK, holdVars
      <4>2. CASE \E t \in ClockReadings : DropHold(t)
        BY <4>2, DropHoldType, ReadingsArePositive DEF TypeInv, TypeOK, StoreTypeOK
      <4>. QED  BY <2>3, <4>1, <4>2 DEF Complete, ReleaseHoldGenerationIfUnchanged
    <3>. QED  BY <2>3, <3>1 DEF Complete, TypeInv, TypeOK, StoreTypeOK, Carries,
         queueVars, flushVars, updateVars, historyVars
  <2>. QED  BY <1>7, <2>1, <2>2, <2>3 DEF UpdateStep
<1>8. CASE Tick
  BY <1>8 DEF Tick, TypeInv, TypeOK, StoreTypeOK, Carries,
     holdVars, queueVars, flushVars, updateVars, historyVars
<1>9. CASE HoldExpires
  BY <1>9 DEF HoldExpires, ExpireHold, Absent, TypeInv, TypeOK, StoreTypeOK, Carries,
     queueVars, flushVars, updateVars, historyVars
<1>10. CASE LockExpires
  BY <1>10 DEF LockExpires, Fault, TypeInv, TypeOK, StoreTypeOK, Carries,
     holdVars, queueVars, flushVars, updateVars
<1>11. CASE ForgetClaims
  BY <1>11 DEF ForgetClaims, ExpireDedupe, Fault, TypeInv, TypeOK, StoreTypeOK, Carries,
     holdVars, flushVars, updateVars
<1>12. CASE UNCHANGED vars
  BY <1>12 DEF vars, TypeInv, TypeOK, StoreTypeOK, Carries, storeVars, flushVars,
     updateVars, historyVars
<1>. QED  BY <1>1, <1>2, <1>3, <1>4, <1>5, <1>6, <1>7, <1>8, <1>9, <1>10, <1>11, <1>12
     DEF Next

\* Types are preserved by every step, and a flusher never acts on a missing
\* notification.
THEOREM TypeInvariant == Spec => []TypeInv
BY TypeInit, TypeStep, PTL DEF Spec

\* Type correctness of the store and of the flushers.
THEOREM TypeCorrect == Spec => []TypeOK
BY TypeInvariant, PTL DEF TypeInv

-----------------------------------------------------------------------------
(***************************************************************************)
(* The schedule.  NothingStranded and WokenInTime are not inductive: while *)
(* a hold is in force, a claim relies on the entry of the hold, so the     *)
(* entry of a user without pending work has to be on time as well.         *)
(***************************************************************************)
Busy == pending # <<>> \/ hold # Absent

OnTime == Busy => due # Absent /\ (due <= now \/ due <= hold)

\* A flush only cleans up a deadline that has passed.
ExpiredHavePassed == \A p \in Flushers : expired[p] <= now

ScheduleInv == OnTime /\ ExpiredHavePassed

LEMMA DropHoldOnTime ==
  ASSUME TypeOK, NEW t \in ClockReadings, DropHold(t), UNCHANGED <<now, pending>>
  PROVE  OnTime'
BY ReadingsArePositive DEF DropHold, OnTime, Busy, TypeOK, StoreTypeOK, Absent

LEMMA ScheduleInit == Init => ScheduleInv
BY DEF Init, StoreInit, ScheduleInv, OnTime, Busy, ExpiredHavePassed, Absent

LEMMA ScheduleStep == TypeInv /\ ScheduleInv /\ [Next]_vars => ScheduleInv'
<1>. SUFFICES ASSUME TypeOK, ScheduleInv, [Next]_vars PROVE ScheduleInv'
  BY DEF TypeInv
<1>. USE DEF Absent
<1>0. ASSUME UNCHANGED <<now, hold, due, pending, expired>>
      PROVE  ScheduleInv'
  BY <1>0 DEF ScheduleInv, OnTime, Busy, ExpiredHavePassed
<1>1. ASSUME NEW p \in Handlers, NEW e \in Events, Accept(e, p)
      PROVE  ScheduleInv'
  <2>1. PICK t \in ClockReadings : ClaimAccept(e, t)
    BY <1>1 DEF Accept
  <2>2. now' = now /\ hold' = hold /\ expired' = expired
    BY <1>1 DEF Accept, holdVars
  <2>3. OnTime'
    BY <2>1, <2>2, ReadingsArePositive
       DEF ClaimAccept, ScheduleInv, OnTime, Busy, TypeOK, StoreTypeOK
  <2>. QED  BY <2>2, <2>3 DEF ScheduleInv, ExpiredHavePassed
<1>2. ASSUME NEW p \in Handlers, PressBadge(p)
      PROVE  ScheduleInv'
  BY <1>0, <1>2 DEF PressBadge, storeVars
<1>3. ASSUME NEW w \in Workers, Poll(w)
      PROVE  ScheduleInv'
  <2>1. PICK t \in ClockReadings : DueUsers(t)
    BY <1>3 DEF Poll
  <2>2. now' = now /\ hold' = hold /\ pending' = pending /\ expired' = expired
    BY <1>3 DEF Poll, holdVars, queueVars
  <2>3. OnTime'
    BY <2>1, <2>2, ReadingsArePositive DEF DueUsers, StaleSchedule, RenewedHold,
       Scheduled, ScheduleInv, OnTime, Busy, TypeOK, StoreTypeOK
  <2>. QED  BY <2>2, <2>3 DEF ScheduleInv, ExpiredHavePassed
<1>4. ASSUME NEW p \in Flushers, FlushStep(p)
      PROVE  ScheduleInv'
  <2>1. CASE Acquire(p) \/ ReadHold(p) \/ Peek(p) \/ RenewLease(p) \/ Deliver(p)
             \/ SendFails(p) \/ Reacquire(p) \/ RecoverRelease(p)
    BY <1>0, <2>1 DEF Acquire, ReadHold, Peek, RenewLease, Deliver, SendFails, Reacquire,
       RecoverRelease, storeVars, holdVars, queueVars
  <2>2. CASE JudgeHold(p)
    <3>1. OnTime'
      BY <2>2 DEF JudgeHold, storeVars, ScheduleInv, OnTime, Busy
    <3>2. ExpiredHavePassed'
      BY <2>2 DEF JudgeHold, storeVars, ScheduleInv, ExpiredHavePassed, TypeOK, StoreTypeOK
    <3>. QED  BY <3>1, <3>2 DEF ScheduleInv
  <2>3. CASE Acknowledge(p) \/ RecoverAcknowledge(p)
    <3>1. UNCHANGED <<now, hold, due, expired>> /\ (pending' # <<>> => pending # <<>>)
      BY <2>3 DEF Acknowledge, RecoverAcknowledge, AcknowledgeHeadIfLockOwned,
         CanAcknowledge, PopHead, holdVars, queueVars
    <3>. QED  BY <3>1 DEF ScheduleInv, OnTime, Busy, ExpiredHavePassed
  <2>4. CASE DropExpiredHold(p)
    <3>1. UNCHANGED <<now, pending, expired>>
      BY <2>4 DEF DropExpiredHold, queueVars
    <3>2. UNCHANGED <<holdVars, due>> \/ \E t \in ClockReadings : DropHold(t)
      BY <2>4 DEF DropExpiredHold, ReleaseDueHoldIfUnchanged
    <3>3. OnTime'
      BY <3>1, <3>2, DropHoldOnTime DEF ScheduleInv, OnTime, Busy, holdVars
    <3>. QED  BY <3>1, <3>3 DEF ScheduleInv, ExpiredHavePassed
  <2>5. CASE ClearSchedule(p)
    BY <2>5 DEF ClearSchedule, ClearImmediateDueIfEmptyAndLockOwned, holdVars, queueVars,
       ScheduleInv, OnTime, Busy, ExpiredHavePassed
  <2>6. CASE Finish(p)
    BY <2>6 DEF Finish, Forget, holdVars, queueVars, ScheduleInv, OnTime, Busy,
       ExpiredHavePassed, TypeOK, StoreTypeOK
  <2>. QED  BY <1>4, <2>1, <2>2, <2>3, <2>4, <2>5, <2>6 DEF FlushStep
<1>5. ASSUME NEW p \in Flushers, Abort(p)
      PROVE  ScheduleInv'
  BY <1>0, <1>5 DEF Abort, storeVars
<1>6. ASSUME NEW p \in Flushers, Crash(p)
      PROVE  ScheduleInv'
  BY <1>6 DEF Crash, Forget, storeVars, ScheduleInv, OnTime, Busy, ExpiredHavePassed,
     TypeOK, StoreTypeOK
<1>7. ASSUME NEW u \in Updates, UpdateStep(u)
      PROVE  ScheduleInv'
  <2>1. CASE Enter(u) \/ Leave(u)
    BY <1>0, <2>1 DEF Enter, Leave, storeVars, flushVars
  <2>2. CASE Touch(u)
    <3>1. PICK t \in ClockReadings : TouchHold(t)
      BY <2>2 DEF Touch
    <3>2. UNCHANGED <<now, pending, expired>>
      BY <2>2 DEF Touch, queueVars, flushVars
    <3>3. OnTime'
      BY <3>1, <3>2, ReadingsArePositive, StoreAssumption
         DEF TouchHold, OnTime, Busy, TypeOK, StoreTypeOK
    <3>. QED  BY <3>2, <3>3 DEF ScheduleInv, ExpiredHavePassed
  <2>3. CASE Complete(u)
    <3>1. UNCHANGED <<now, pending, expired>>
      BY <2>3 DEF Complete, queueVars, flushVars
    <3>2. UNCHANGED <<holdVars, due>> \/ \E t \in ClockReadings : DropHold(t)
      BY <2>3 DEF Complete, ReleaseHoldGenerationIfUnchanged
    <3>3. OnTime'
      BY <3>1, <3>2, DropHoldOnTime DEF ScheduleInv, OnTime, Busy, holdVars
    <3>. QED  BY <3>1, <3>3 DEF ScheduleInv, ExpiredHavePassed
  <2>. QED  BY <1>7, <2>1, <2>2, <2>3 DEF UpdateStep
<1>8. CASE Tick
  <2>1. UNCHANGED <<hold, due, pending, expired>> /\ now' = now + 1
    BY <1>8 DEF Tick, holdVars, queueVars, flushVars
  <2>. QED  BY <2>1 DEF ScheduleInv, OnTime, Busy, ExpiredHavePassed, TypeOK, StoreTypeOK
<1>9. CASE HoldExpires
  <2>1. UNCHANGED <<now, due, pending, expired>> /\ hold <= now /\ hold' = Absent
    BY <1>9 DEF HoldExpires, ExpireHold, queueVars, flushVars
  <2>. QED  BY <2>1 DEF ScheduleInv, OnTime, Busy, ExpiredHavePassed, HoldExpires,
       TypeOK, StoreTypeOK
<1>10. CASE LockExpires
  BY <1>0, <1>10 DEF LockExpires, holdVars, queueVars, flushVars
<1>11. CASE ForgetClaims
  BY <1>0, <1>11 DEF ForgetClaims, ExpireDedupe, holdVars, flushVars
<1>12. CASE UNCHANGED vars
  BY <1>0, <1>12 DEF vars, storeVars, flushVars
<1>. QED  BY <1>1, <1>2, <1>3, <1>4, <1>5, <1>6, <1>7, <1>8, <1>9, <1>10, <1>11, <1>12
     DEF Next

\* The schedule invariant holds in every reachable state.
THEOREM ScheduleInvariant == Spec => []ScheduleInv
BY TypeInit, TypeStep, ScheduleInit, ScheduleStep, PTL DEF Spec

\* A user with a queued notification or a hold always has an entry in
\* notification:due, whatever the workers, updates and faults do.
THEOREM NeverStranded == Spec => []NothingStranded
<1>1. ScheduleInv => NothingStranded
  BY DEF ScheduleInv, OnTime, Busy, NothingStranded
<1>. QED  BY <1>1, ScheduleInvariant, PTL

\* The entry of a user with queued notifications is never later than the end of
\* the hold in force.
THEOREM AlwaysWokenInTime == Spec => []WokenInTime
<1>1. ScheduleInv => WokenInTime
  BY DEF ScheduleInv, OnTime, Busy, WokenInTime
<1>. QED  BY <1>1, ScheduleInvariant, PTL

\* Only the completion of the latest flow shortens a hold in force: a flush
\* drops at most a deadline that has passed, and a touch never shortens one.
LEMMA FlowStep == TypeInv /\ ScheduleInv /\ [Next]_vars => EndsWithItsFlow
<1>. SUFFICES ASSUME TypeOK, ScheduleInv, [Next]_vars, hold > now, hold' < hold
              PROVE  hold' = Absent /\ pc' = pc /\ \E u \in Updates : captured[u] = gen
  BY DEF TypeInv, EndsWithItsFlow
<1>. USE DEF Absent
<1>0. hold' # hold
  BY DEF TypeOK, StoreTypeOK
<1>1. ASSUME NEW p \in Flushers, FlushStep(p)
      PROVE  FALSE
  <2>1. DropExpiredHold(p)
    BY <1>0, <1>1 DEF FlushStep, Acquire, ReadHold, JudgeHold, Peek, RenewLease, Deliver,
       SendFails, Acknowledge, Reacquire, RecoverAcknowledge, RecoverRelease,
       ClearSchedule, Finish, storeVars, holdVars
  <2>2. hold = expired[p]
    BY <1>0, <2>1 DEF DropExpiredHold, ReleaseDueHoldIfUnchanged, holdVars
  <2>. QED  BY <2>2 DEF ScheduleInv, ExpiredHavePassed, TypeOK, StoreTypeOK
<1>2. ASSUME NEW u \in Updates, UpdateStep(u)
      PROVE  hold' = Absent /\ pc' = pc /\ captured[u] = gen
  <2>1. CASE Touch(u)
    <3>1. PICK t \in ClockReadings : TouchHold(t)
      BY <2>1 DEF Touch
    <3>2. hold' >= hold
      BY <3>1, ReadingsArePositive, StoreAssumption DEF TouchHold, TypeOK, StoreTypeOK
    <3>. QED  BY <3>1, <3>2, ReadingsArePositive, StoreAssumption
              DEF TouchHold, TypeOK, StoreTypeOK
  <2>2. CASE Complete(u)
    BY <1>0, <2>2 DEF Complete, ReleaseHoldGenerationIfUnchanged, DropHold, holdVars, flushVars
  <2>. QED  BY <1>0, <1>2, <2>1, <2>2 DEF UpdateStep, Enter, Leave, storeVars
<1>3. CASE HoldExpires
  BY <1>3 DEF HoldExpires, ExpireHold, TypeOK, StoreTypeOK
<1>4. CASE \/ \E p \in Handlers : PressBadge(p) \/ \E e \in Events : Accept(e, p)
           \/ \E w \in Workers : Poll(w)
           \/ \E p \in Flushers : Abort(p) \/ Crash(p)
           \/ Tick \/ LockExpires \/ ForgetClaims \/ UNCHANGED vars
  BY <1>0, <1>4 DEF PressBadge, Accept, Poll, Abort, Crash, Tick, LockExpires, ForgetClaims,
     ExpireDedupe, vars, storeVars, holdVars
<1>. QED  BY <1>1, <1>2, <1>3, <1>4 DEF Next

\* A hold in force ends only with the flow that owns it.
THEOREM FlowsOwnTheirHold == Spec => HoldEndsWithItsFlow
<1>1. TypeInv /\ ScheduleInv /\ [Next]_vars => [EndsWithItsFlow]_vars
  BY FlowStep
<1>. QED  BY <1>1, TypeInvariant, ScheduleInvariant, PTL DEF Spec, HoldEndsWithItsFlow

=============================================================================
