------------------------- MODULE NotificationStore -------------------------
(***************************************************************************)
(* The Redis keys behind the delayed delivery of blockchain notifications, *)
(* for one user, and the Lua scripts of NotificationRedisStore over them.  *)
(* No script touches the keys of a second user, except for the shared      *)
(* generation counter, which only grows.                                   *)
(*                                                                         *)
(* Redis runs a script atomically, so a script is one operator that primes *)
(* the keys it writes.  The caller reads its clock before the command      *)
(* reaches Redis: the `now' argument of a script is one of ClockReadings.  *)
(***************************************************************************)
EXTENDS Naturals, Sequences

CONSTANTS
  Events,       \* idempotency keys of the user's blockchain events
  Flushers,     \* coroutines that may run flush() for the user
  Free,         \* the value of a flush lock that does not exist
  HoldSeconds,  \* notification_hold_seconds
  ClockLag,     \* how old a clock reading may be when its command runs
  MaxTime       \* bound: the last second of the model

\* A flush draws one token for its lease, and one more for the
\* acknowledgement-only recovery after it lost that lease.
Lease(p)    == <<p, "lease">>
Recovery(p) == <<p, "recovery">>
Tokens      == Flushers \X {"lease", "recovery"}

Absent == 0     \* a missing hold, generation or member of the sorted set

ASSUME StoreAssumption ==
  /\ HoldSeconds \in Nat \ {0}
  /\ ClockLag \in Nat
  /\ ClockLag < HoldSeconds
  /\ MaxTime \in Nat \ {0}
  /\ Free \notin Tokens

VARIABLES
  now,         \* Unix seconds
  hold,        \* notification:hold, the deadline of the user's activity
  gen,         \* notification:hold_generation, the flow that owns the hold
  genSeq,      \* the sequence that numbers the touches
  due,         \* the score of the user in notification:due
  pending,     \* notification:pending, the FIFO list
  pendingIds,  \* the ids of the unacknowledged notifications
  dedupe,      \* the ids claimed within the deduplication window
  lock         \* notification:flush_lock

holdVars  == <<hold, gen, genSeq>>
queueVars == <<pending, pendingIds, dedupe>>
storeVars == <<now, hold, gen, genSeq, due, pending, pendingIds, dedupe, lock>>

ClockReadings == {t \in 1..now : now <= t + ClockLag}

StoreTypeOK ==
  /\ now \in 1..MaxTime
  /\ hold \in Nat
  /\ gen \in Nat
  /\ genSeq \in Nat
  /\ due \in Nat
  /\ pending \in Seq(Events)
  /\ pendingIds \in SUBSET Events
  /\ dedupe \in SUBSET Events
  /\ lock \in Tokens \cup {Free}

StoreInit ==
  /\ now = 1
  /\ hold = Absent /\ gen = Absent /\ genSeq = 0
  /\ due = Absent
  /\ pending = <<>> /\ pendingIds = {} /\ dedupe = {}
  /\ lock = Free

-----------------------------------------------------------------------------
(* Holds *)

\* A touch renews the hold, schedules its deadline and numbers the flow.
TouchHold(t) ==
  /\ hold' = IF hold > t + HoldSeconds THEN hold ELSE t + HoldSeconds
  /\ due' = hold'
  /\ genSeq' = genSeq + 1
  /\ gen' = genSeq'

\* Mutant: pending work keeps the deadline of the hold that was dropped.
DropHoldKeepingSchedule(t) ==
  /\ hold' = Absent
  /\ gen' = Absent
  /\ due' = IF pending # <<>> THEN due ELSE Absent
  /\ UNCHANGED genSeq

\* Mutant: pending work is rescheduled a hold too early.
DropHoldBackdated(t) ==
  /\ hold' = Absent
  /\ gen' = Absent
  /\ due' = IF pending # <<>> THEN t - HoldSeconds ELSE Absent
  /\ UNCHANGED genSeq

\* What both conditional releases do once their comparison succeeds.
DropHold(t) ==
  /\ hold' = Absent
  /\ gen' = Absent
  /\ due' = IF pending # <<>> THEN t ELSE Absent
  /\ UNCHANGED genSeq

\* Mutant: release without comparing the deadline.
ReleaseDueHoldAnyway(expected, t) == DropHold(t)

ReleaseDueHoldIfUnchanged(expected, t) ==
  IF hold = expected THEN DropHold(t) ELSE UNCHANGED <<holdVars, due>>

ReleaseHoldGenerationIfUnchanged(expected, t) ==
  IF gen = expected THEN DropHold(t) ELSE UNCHANGED <<holdVars, due>>

\* The TTL of the hold and of its generation were set by the same touch, at or
\* after the second its deadline was computed from.
ExpireHold ==
  /\ hold # Absent /\ hold <= now
  /\ hold' = Absent
  /\ gen' = Absent
  /\ UNCHANGED <<now, genSeq, due, queueVars, lock>>

-----------------------------------------------------------------------------
(* The queue *)

\* Mutant: the ids still queued are not consulted.
DuplicateInWindow(e) == e \in dedupe

Duplicate(e) == e \in dedupe \/ e \in pendingIds

\* Mutant: LPUSH for RPUSH.
ClaimAcceptAtHead(e, t) ==
  /\ ~Duplicate(e)
  /\ dedupe' = dedupe \cup {e}
  /\ pendingIds' = pendingIds \cup {e}
  /\ pending' = <<e>> \o pending
  /\ due' = IF hold > t THEN due ELSE t

\* The claim is queued under a hold; otherwise it is direct and due at once.
ClaimAccept(e, t) ==
  /\ ~Duplicate(e)
  /\ dedupe' = dedupe \cup {e}
  /\ pendingIds' = pendingIds \cup {e}
  /\ pending' = Append(pending, e)
  /\ due' = IF hold > t THEN due ELSE t

\* Mutant: pop whatever is at the head.
CanAcknowledgeAnyHead(e, token) == lock = token /\ pending # <<>>

CanAcknowledge(e, token) ==
  /\ lock = token
  /\ pending # <<>>
  /\ Head(pending) = e

PopHead ==
  /\ pending' = Tail(pending)
  /\ pendingIds' = pendingIds \ {Head(pending)}
  /\ UNCHANGED dedupe

AcknowledgeHeadIfLockOwned(e, token) ==
  IF CanAcknowledge(e, token) THEN PopHead ELSE UNCHANGED queueVars

\* Thirty days without a new claim drop the whole set of claimed ids.
ExpireDedupe ==
  /\ dedupe # {}
  /\ dedupe' = {}
  /\ UNCHANGED <<now, holdVars, due, pending, pendingIds, lock>>

-----------------------------------------------------------------------------
(* The schedule *)

Scheduled(t) == due # Absent /\ due <= t

\* Mutant: a missing hold alone makes the schedule stale.
StaleWithoutHold(t) == Scheduled(t) /\ hold = Absent

\* The three verdicts of the due_users script on a scheduled user.
StaleSchedule(t)  == Scheduled(t) /\ hold = Absent /\ pending = <<>>
RenewedHold(t)    == Scheduled(t) /\ hold > t
DueForDelivery(t) ==
  /\ Scheduled(t)
  /\ hold <= t
  /\ hold = Absent => pending # <<>>

DueUsers(t) ==
  due' = IF StaleSchedule(t) THEN Absent ELSE IF RenewedHold(t) THEN hold ELSE due

\* Mutant: neither the queue nor the hold is checked again.
ClearDueIfLockOwned(token, t) ==
  due' = IF lock = token /\ due <= t THEN Absent ELSE due

ClearImmediateDueIfEmptyAndLockOwned(token, t) ==
  due' = IF lock = token /\ pending = <<>> /\ hold = Absent /\ due <= t
         THEN Absent
         ELSE due

-----------------------------------------------------------------------------
(* The flush lock *)

\* Mutant: SET without NX.
TakeLock(token) == lock' = token

AcquireLock(token) == lock = Free /\ lock' = token

ReleaseLock(token) == lock' = IF lock = token THEN Free ELSE lock

=============================================================================
