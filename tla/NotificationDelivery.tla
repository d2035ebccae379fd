----------------------- MODULE NotificationDelivery ------------------------
(***************************************************************************)
(* Delivery of one user's blockchain notifications: the                    *)
(* NotificationCoordinator, the polling NotificationDeliveryWorker, the    *)
(* activity middleware and the badge button, over the Redis keys of        *)
(* NotificationStore.                                                      *)
(*                                                                         *)
(* Every await of flush() is a step of its flusher, so the steps of two    *)
(* flushes, of the user's updates, of the webhook and of the clock         *)
(* interleave at exactly the points where the coroutines can be suspended. *)
(***************************************************************************)
EXTENDS NotificationStore

CONSTANTS
  Workers,     \* the flushers started by the pollers, one per bot process
  Updates,     \* concurrent Telegram updates (or background results)
  NoEvent,     \* no notification peeked
  MaxTouches,  \* bound on touches
  MaxFaults    \* bound on lost leases, aborts, crashes, dedupe expiries

ASSUME DeliveryAssumption ==
  /\ Workers \subseteq Flushers
  /\ NoEvent \notin Events
  /\ MaxTouches \in Nat
  /\ MaxFaults \in Nat

VARIABLES
  pc,        \* the await at which each flusher is suspended
  item,      \* the head it peeked
  seen,      \* the hold deadline it read and has not judged yet
  expired,   \* expired_hold_until: a passed deadline to clean up at the end
  manual,    \* ignore_hold: started by the badge button
  upc,       \* progress of an update through the activity middleware
  captured,  \* the flow generation an update may complete
  accepted,  \* history: the events in the order of their first claim
  shown,     \* history: the events in the order of their first delivery
  copies,    \* history: how often each event was delivered
  heldBy,    \* history: the generation whose hold queued the first claim
  faults     \* history: faults so far

flushVars   == <<pc, item, seen, expired, manual>>
updateVars  == <<upc, captured>>
historyVars == <<accepted, shown, copies, heldBy, faults>>
vars == <<storeVars, flushVars, updateVars, historyVars>>

Stages == {"idle", "acquire", "hold", "judge", "peek", "renew", "sending",
           "ack", "reacquire", "reack", "rerelease", "drop", "clear", "release"}

\* The stages between taking the lock and the finally block that releases it.
Owning == Stages \ {"idle", "acquire", "release"}

Handlers == Flushers \ Workers

TypeOK ==
  /\ StoreTypeOK
  /\ pc \in [Flushers -> Stages]
  /\ item \in [Flushers -> Events \cup {NoEvent}]
  /\ seen \in [Flushers -> Nat]
  /\ expired \in [Flushers -> Nat]
  /\ manual \in [Flushers -> BOOLEAN]
  /\ upc \in [Updates -> {"out", "entered", "touched"}]
  /\ captured \in [Updates -> Nat]
  /\ accepted \in Seq(Events)
  /\ shown \in Seq(Events)
  /\ copies \in [Events -> Nat]
  /\ heldBy \in [Events -> Nat]
  /\ faults \in 0..MaxFaults

Init ==
  /\ StoreInit
  /\ pc = [p \in Flushers |-> "idle"]
  /\ item = [p \in Flushers |-> NoEvent]
  /\ seen = [p \in Flushers |-> Absent]
  /\ expired = [p \in Flushers |-> Absent]
  /\ manual = [p \in Flushers |-> FALSE]
  /\ upc = [u \in Updates |-> "out"]
  /\ captured = [u \in Updates |-> Absent]
  /\ accepted = <<>> /\ shown = <<>>
  /\ copies = [e \in Events |-> 0]
  /\ heldBy = [e \in Events |-> Absent]
  /\ faults = 0

Goto(p, stage) == pc' = [pc EXCEPT ![p] = stage]

Listed(e, seq) == \E i \in DOMAIN seq : seq[i] = e

Once(seq, e) == IF Listed(e, seq) THEN seq ELSE Append(seq, e)

Fault == faults < MaxFaults /\ faults' = faults + 1

-----------------------------------------------------------------------------
(* Producers: the webhook, the badge button and the poller *)

\* accept(): claim the event and, when no hold is active, start a flush.
\* A duplicate changes nothing.  Handlers bounds the flushes started this way.
Accept(e, p) ==
  /\ pc[p] = "idle"
  /\ \E t \in ClockReadings :
       /\ ClaimAccept(e, t)
       /\ heldBy' = IF hold > t /\ ~Listed(e, accepted)
                    THEN [heldBy EXCEPT ![e] = gen]
                    ELSE heldBy
       /\ IF hold > t THEN UNCHANGED pc ELSE Goto(p, "acquire")
  /\ accepted' = Once(accepted, e)
  /\ UNCHANGED <<now, holdVars, lock, item, seen, expired, manual, updateVars,
                 shown, copies, faults>>

\* The pending-notifications button flushes without regard to the hold.
PressBadge(p) ==
  /\ pc[p] = "idle"
  /\ Goto(p, "acquire")
  /\ manual' = [manual EXCEPT ![p] = TRUE]
  /\ UNCHANGED <<storeVars, item, seen, expired, updateVars, historyVars>>

\* poll_once(): a due user gets a flush unless this worker is flushing it.
Poll(w) ==
  /\ \E t \in ClockReadings :
       /\ DueUsers(t)
       /\ IF DueForDelivery(t) /\ pc[w] = "idle" THEN Goto(w, "acquire")
                                                ELSE UNCHANGED pc
  /\ UNCHANGED <<now, holdVars, queueVars, lock, item, seen, expired, manual,
                 updateVars, historyVars>>

-----------------------------------------------------------------------------
(* flush() *)

\* A flush that finds the lock owned is skipped.
Acquire(p) ==
  /\ pc[p] = "acquire"
  /\ \/ /\ AcquireLock(Lease(p))
        /\ Goto(p, IF manual[p] THEN "peek" ELSE "hold")
        /\ UNCHANGED manual
     \/ /\ lock # Free
        /\ Goto(p, "idle")
        /\ manual' = [manual EXCEPT ![p] = FALSE]
        /\ UNCHANGED lock
  /\ UNCHANGED <<now, holdVars, due, queueVars, item, seen, expired,
                 updateVars, historyVars>>

ReadHold(p) ==
  /\ pc[p] = "hold"
  /\ Goto(p, "judge")
  /\ seen' = [seen EXCEPT ![p] = hold]
  /\ UNCHANGED <<storeVars, item, expired, manual, updateVars, historyVars>>

\* _hold_allows_flush() compares the deadline it read with the clock.  Before
\* the first peek it gates the flush, after a renewal it gates one delivery;
\* the heartbeat may have reported a lost lease in the meantime.
JudgeHold(p) ==
  /\ pc[p] = "judge"
  /\ seen' = [seen EXCEPT ![p] = Absent]
  /\ \/ /\ seen[p] > now
        /\ Goto(p, "release")
        /\ UNCHANGED expired
     \/ /\ seen[p] <= now
        /\ Goto(p, IF item[p] = NoEvent THEN "peek" ELSE "sending")
        /\ expired' = [expired EXCEPT ![p] = IF seen[p] = Absent THEN @ ELSE seen[p]]
     \/ /\ item[p] # NoEvent /\ lock # Lease(p)
        /\ Goto(p, "release")
        /\ UNCHANGED expired
  /\ UNCHANGED <<storeVars, item, manual, updateVars, historyVars>>

Peek(p) ==
  /\ pc[p] = "peek"
  /\ item' = [item EXCEPT ![p] = IF pending = <<>> THEN NoEvent ELSE Head(pending)]
  /\ Goto(p, IF pending = <<>> THEN "drop" ELSE "renew")
  /\ UNCHANGED <<storeVars, seen, expired, manual, updateVars, historyVars>>

\* Mutant: the hold is checked once per flush, not once per notification.
RenewLeaseThenSend(p) ==
  /\ pc[p] = "renew"
  /\ Goto(p, IF lock # Lease(p) THEN "release" ELSE "sending")
  /\ UNCHANGED <<storeVars, item, seen, expired, manual, updateVars, historyVars>>

RenewLease(p) ==
  /\ pc[p] = "renew"
  /\ Goto(p, IF lock # Lease(p) THEN "release"
             ELSE IF manual[p] THEN "sending" ELSE "hold")
  /\ UNCHANGED <<storeVars, item, seen, expired, manual, updateVars, historyVars>>

\* send_notification() returns: Telegram accepted the message, or refused it
\* for good because the user blocked the bot.
Deliver(p) ==
  /\ pc[p] = "sending"
  /\ Goto(p, "ack")
  /\ shown' = Once(shown, item[p])
  /\ copies' = [copies EXCEPT ![item[p]] = @ + 1]
  /\ UNCHANGED <<storeVars, item, seen, expired, manual, updateVars, accepted,
                 heldBy, faults>>

\* Mutant: a failed send falls through to the acknowledgement.
SendFailsSilently(p) ==
  /\ pc[p] = "sending"
  /\ Goto(p, "ack")
  /\ UNCHANGED <<storeVars, item, seen, expired, manual, updateVars, historyVars>>

\* An exception or the delivery timeout before Telegram took the message.
SendFails(p) ==
  /\ pc[p] = "sending"
  /\ Goto(p, "release")
  /\ UNCHANGED <<storeVars, item, seen, expired, manual, updateVars, historyVars>>

Acknowledge(p) ==
  /\ pc[p] = "ack"
  /\ AcknowledgeHeadIfLockOwned(item[p], Lease(p))
  /\ Goto(p, IF CanAcknowledge(item[p], Lease(p)) THEN "peek" ELSE "reacquire")
  /\ UNCHANGED <<now, holdVars, due, lock, item, seen, expired, manual,
                 updateVars, historyVars>>

\* _acknowledge_after_lease_loss(): acknowledge, but never send, under a new token.
Reacquire(p) ==
  /\ pc[p] = "reacquire"
  /\ \/ AcquireLock(Recovery(p)) /\ Goto(p, "reack")
     \/ lock # Free /\ UNCHANGED lock /\ Goto(p, "release")
  /\ UNCHANGED <<now, holdVars, due, queueVars, item, seen, expired, manual,
                 updateVars, historyVars>>

RecoverAcknowledge(p) ==
  /\ pc[p] = "reack"
  /\ AcknowledgeHeadIfLockOwned(item[p], Recovery(p))
  /\ Goto(p, "rerelease")
  /\ UNCHANGED <<now, holdVars, due, lock, item, seen, expired, manual,
                 updateVars, historyVars>>

RecoverRelease(p) ==
  /\ pc[p] = "rerelease"
  /\ ReleaseLock(Recovery(p))
  /\ Goto(p, "release")
  /\ UNCHANGED <<now, holdVars, due, queueVars, item, seen, expired, manual,
                 updateVars, historyVars>>

\* The queue was empty: drop the hold whose expiry was observed ...
DropExpiredHold(p) ==
  /\ pc[p] = "drop"
  /\ Goto(p, "clear")
  /\ IF expired[p] = Absent
     THEN UNCHANGED <<holdVars, due>>
     ELSE \E t \in ClockReadings : ReleaseDueHoldIfUnchanged(expired[p], t)
  /\ UNCHANGED <<now, queueVars, lock, item, seen, expired, manual,
                 updateVars, historyVars>>

\* ... and the schedule a direct claim left behind.
ClearSchedule(p) ==
  /\ pc[p] = "clear"
  /\ Goto(p, "release")
  /\ \E t \in ClockReadings : ClearImmediateDueIfEmptyAndLockOwned(Lease(p), t)
  /\ UNCHANGED <<now, holdVars, queueVars, lock, item, seen, expired, manual,
                 updateVars, historyVars>>

\* The coroutine ends, or its process dies: its locals are gone.
Forget(p) ==
  /\ Goto(p, "idle")
  /\ item' = [item EXCEPT ![p] = NoEvent]
  /\ seen' = [seen EXCEPT ![p] = Absent]
  /\ expired' = [expired EXCEPT ![p] = Absent]
  /\ manual' = [manual EXCEPT ![p] = FALSE]

Finish(p) ==
  /\ pc[p] = "release"
  /\ ReleaseLock(Lease(p))
  /\ Forget(p)
  /\ UNCHANGED <<now, holdVars, due, queueVars, updateVars, historyVars>>

-----------------------------------------------------------------------------
(* The activity middleware and the ends of flows *)

\* capture_flow_generation(): an update may complete the flow it found.  A
\* background result takes the same snapshot in complete_current_flow().
Enter(u) ==
  /\ upc[u] = "out"
  /\ upc' = [upc EXCEPT ![u] = "entered"]
  /\ captured' = [captured EXCEPT ![u] = gen]
  /\ UNCHANGED <<storeVars, flushVars, historyVars>>

\* One touch per update: before the handler of a continued flow, or after the
\* handler of the message that started one.  The update then owns the new flow.
Touch(u) ==
  /\ upc[u] = "entered"
  /\ genSeq < MaxTouches
  /\ \E t \in ClockReadings :
       /\ t + HoldSeconds <= MaxTime
       /\ TouchHold(t)
  /\ upc' = [upc EXCEPT ![u] = "touched"]
  /\ captured' = [captured EXCEPT ![u] = gen']
  /\ UNCHANGED <<now, queueVars, lock, flushVars, historyVars>>

\* complete_flow(), complete_current_flow(): release the captured generation.
Complete(u) ==
  /\ upc[u] # "out"
  /\ captured[u] # Absent
  /\ \E t \in ClockReadings : ReleaseHoldGenerationIfUnchanged(captured[u], t)
  /\ UNCHANGED <<now, queueVars, lock, flushVars, updateVars, historyVars>>

Leave(u) ==
  /\ upc[u] # "out"
  /\ upc' = [upc EXCEPT ![u] = "out"]
  /\ captured' = [captured EXCEPT ![u] = Absent]
  /\ UNCHANGED <<storeVars, flushVars, historyVars>>

-----------------------------------------------------------------------------
(* The clock, key expiry and faults *)

Tick ==
  /\ now < MaxTime
  /\ now' = now + 1
  /\ UNCHANGED <<holdVars, due, queueVars, lock, flushVars, updateVars, historyVars>>

HoldExpires ==
  ExpireHold /\ UNCHANGED <<flushVars, updateVars, historyVars>>

\* The coroutine that drew the token in the lock is still between taking and
\* releasing it.
OwnerAlive ==
  \E p \in Flushers : \/ lock = Lease(p) /\ pc[p] \in Owning \cup {"release"}
                      \/ lock = Recovery(p) /\ pc[p] \in {"reack", "rerelease"}

\* Mutant: the lock is set without a TTL.
LockNeverExpires == FALSE

\* The TTL of the lock runs out.  That is a fault only under a live owner,
\* whose heartbeat should have renewed it.
LockExpires ==
  /\ lock # Free
  /\ lock' = Free
  /\ IF OwnerAlive THEN Fault ELSE UNCHANGED faults
  /\ UNCHANGED <<now, holdVars, due, queueVars, flushVars, updateVars,
                 accepted, shown, copies, heldBy>>

\* A Redis error, the ownership deadline or a cancellation at any await: the
\* finally blocks still run.  After a delivery the outcome is unknown.
Abort(p) ==
  /\ pc[p] \in Owning
  /\ Fault
  /\ Goto(p, IF pc[p] = "reack" THEN "rerelease" ELSE "release")
  /\ UNCHANGED <<storeVars, item, seen, expired, manual, updateVars,
                 accepted, shown, copies, heldBy>>

\* The process dies, or Redis is unreachable when the lock is released.
Crash(p) ==
  /\ pc[p] # "idle"
  /\ Fault
  /\ Forget(p)
  /\ UNCHANGED <<storeVars, updateVars, accepted, shown, copies, heldBy>>

ForgetClaims ==
  /\ ExpireDedupe
  /\ Fault
  /\ UNCHANGED <<flushVars, updateVars, accepted, shown, copies, heldBy>>

-----------------------------------------------------------------------------
\* The steps a running flush takes by itself.
FlushStep(p) ==
  \/ Acquire(p) \/ ReadHold(p) \/ JudgeHold(p) \/ Peek(p) \/ RenewLease(p)
  \/ Deliver(p) \/ SendFails(p) \/ Acknowledge(p) \/ Reacquire(p)
  \/ RecoverAcknowledge(p) \/ RecoverRelease(p) \/ DropExpiredHold(p)
  \/ ClearSchedule(p) \/ Finish(p)

UpdateStep(u) == Enter(u) \/ Touch(u) \/ Complete(u) \/ Leave(u)

Next ==
  \/ \E p \in Handlers : PressBadge(p) \/ \E e \in Events : Accept(e, p)
  \/ \E w \in Workers : Poll(w)
  \/ \E p \in Flushers : FlushStep(p) \/ Abort(p) \/ Crash(p)
  \/ \E u \in Updates : UpdateStep(u)
  \/ Tick \/ HoldExpires \/ LockExpires \/ ForgetClaims

Spec == Init /\ [][Next]_vars

\* Pollers run until the process stops, coroutines are not abandoned (every
\* wait of a flush has a timeout), the clock advances, Redis applies TTLs to
\* holds and to a dead owner's lock, and Telegram does not refuse for ever.
\* Nothing obliges the user to act or a fault to happen.
Fairness ==
  /\ \A w \in Workers : WF_vars(Poll(w))
  /\ \A p \in Flushers : WF_vars(FlushStep(p)) /\ SF_vars(Deliver(p))
  /\ WF_vars(Tick) /\ WF_vars(HoldExpires)
  /\ WF_vars(LockExpires /\ ~OwnerAlive)

FairSpec == Spec /\ Fairness

-----------------------------------------------------------------------------
(* Safety *)

Shown(e) == copies[e] > 0

\* No loss: an accepted notification is queued until it has been delivered,
\* whatever leases, aborts and crashes interleave (ADR-0001 prefers a duplicate).
NoLoss == \A e \in Events : Listed(e, accepted) => e \in pendingIds \/ Shown(e)

\* First deliveries happen in the order in which the events were accepted.
DeliveredInOrder ==
  /\ Len(shown) <= Len(accepted)
  /\ \A i \in DOMAIN shown : shown[i] = accepted[i]

\* The list and the id set describe the same notifications, and no event is
\* queued twice, even after the deduplication window forgot it.
QueueMatchesIds ==
  /\ \A e \in Events : e \in pendingIds <=> Listed(e, pending)
  /\ \A i, j \in DOMAIN pending : pending[i] = pending[j] => i = j

\* No stranded work: a queued notification or a hold always has a schedule
\* entry, so that a poller will look at the user again.
NothingStranded == (pending # <<>> \/ hold # Absent) => due # Absent

\* ... and the entry is never later than the end of the hold in force.
WokenInTime == pending # <<>> => due <= now \/ due <= hold

\* A second copy of a notification has a fault to explain it: leases exclude
\* concurrent flushes, and a lost lease alone does not resend.
CopiesNeedFaults == \A e \in Events : copies[e] <= 1 + faults

\* A notification queued under a hold is not sent by itself while that very
\* hold lasts: flush() checks the hold again for every notification.  (An event
\* that a webhook repeats after the deduplication window is a second claim; a
\* flush that outlived its lease may still be sending the first.)
QueuedStaysHeld ==
  \A p \in Flushers :
    pc[p] = "sending" /\ ~manual[p] /\ hold > now => heldBy[item[p]] # gen

\* A hold in force ends only when an update completes the latest flow: not by
\* an older update, nor by the cleanup of a flush that saw an earlier deadline.
EndsWithItsFlow ==
  hold > now /\ hold' < hold =>
    /\ hold' = Absent
    /\ UNCHANGED pc
    /\ \E u \in Updates : captured[u] = gen

HoldEndsWithItsFlow == [][EndsWithItsFlow]_vars

-----------------------------------------------------------------------------
(* Liveness *)

\* Every queued notification is eventually delivered and acknowledged.
EventuallyDelivered ==
  \A e \in Events : e \in pendingIds ~> e \notin pendingIds

\* A flush lock is never held for ever.
LockComesFree == lock # Free ~> lock = Free

-----------------------------------------------------------------------------
(* Refinement *)

Queue == INSTANCE NotificationQueue WITH queue <- pending

\* The Redis queue with its leases, holds and workers keeps the promise of the
\* abstract queue.
ImplementsQueue == Queue!Spec

=============================================================================
