------------------------- MODULE NotificationWorker -------------------------
(***************************************************************************)
(* The polling NotificationDeliveryWorker over all users of a process: the *)
(* paged due_users script on the sorted set, the bounded set of flush      *)
(* tasks, and users whose delivery always fails or never returns.  A flush *)
(* that NotificationDelivery describes step by step is atomic here.        *)
(***************************************************************************)
EXTENDS Naturals, FiniteSets

CONSTANTS
  Users,        \* user ids; equal scores are ordered by member
  Broken,       \* users whose delivery fails on every attempt, or never returns
  BatchSize,    \* notification_delivery_batch_size
  MaxPages,     \* MAX_DUE_SCAN_PAGES
  HoldSeconds,  \* notification_hold_seconds
  MaxTime       \* bound: activity, new events and restarts stop at this second

ASSUME WorkerAssumption ==
  /\ Users \subseteq Nat /\ IsFiniteSet(Users)
  /\ Broken \subseteq Users
  /\ BatchSize \in Nat \ {0}
  /\ MaxPages \in Nat \ {0}
  /\ HoldSeconds \in Nat \ {0}
  /\ MaxTime \in Nat \ {0}

VARIABLES
  now,      \* Unix seconds
  due,      \* notification:due, the score of each user or Absent
  hold,     \* the hold deadline of each user or Absent
  work,     \* does the user's pending list hold a notification?
  tasks,    \* _active_flushes: the number of flush tasks of each user
  found,    \* the result of due_users: the position of each user, from 1
  polling   \* has poll_once() read due_users and not started the flushes yet?

vars == <<now, due, hold, work, tasks, found, polling>>

Absent == 0

Healthy == Users \ Broken

Active == {u \in Users : tasks[u] > 0}

Nothing == [u \in Users |-> 0]

Init ==
  /\ now = 1
  /\ due = Nothing /\ hold = Nothing
  /\ work = [u \in Users |-> FALSE]
  /\ tasks = Nothing /\ found = Nothing
  /\ polling = FALSE

-----------------------------------------------------------------------------
(* Users and the webhook *)

\* An accepted event.  Without a hold it is flushed inline: that flush may
\* empty the queue and fail before it clears the schedule, or not run at all.
Arrive(u) ==
  /\ now < MaxTime
  /\ due' = [due EXCEPT ![u] = IF hold[u] > now THEN @ ELSE now]
  /\ \/ work' = [work EXCEPT ![u] = TRUE]
     \/ hold[u] <= now /\ u \in Healthy /\ UNCHANGED work
  /\ UNCHANGED <<now, hold, tasks, found, polling>>

Touch(u) ==
  /\ now + HoldSeconds <= MaxTime
  /\ hold' = [hold EXCEPT ![u] = now + HoldSeconds]
  /\ due' = [due EXCEPT ![u] = now + HoldSeconds]
  /\ UNCHANGED <<now, work, tasks, found, polling>>

HoldExpires(u) ==
  /\ hold[u] # Absent /\ hold[u] <= now
  /\ hold' = [hold EXCEPT ![u] = Absent]
  /\ UNCHANGED <<now, due, work, tasks, found, polling>>

Tick ==
  /\ now < MaxTime
  /\ now' = now + 1
  /\ UNCHANGED <<due, hold, work, tasks, found, polling>>

-----------------------------------------------------------------------------
(* due_users *)

Scheduled == {u \in Users : due[u] # Absent /\ due[u] <= now}

\* The order of a sorted set.
Before(u, v) == due[u] < due[v] \/ (due[u] = due[v] /\ u < v)

Stale(u)       == hold[u] = Absent /\ ~work[u]
Renewed(u)     == hold[u] > now
Deliverable(u) == ~Stale(u) /\ ~Renewed(u)

\* A page is read while the earlier ones were full and held too few due users.
Scanned(limit) ==
  LET page == [u \in Scheduled |->
                 Cardinality({v \in Scheduled : Before(v, u)}) \div limit]
  IN  {u \in Scheduled :
         /\ page[u] < MaxPages
         /\ Cardinality({v \in Scheduled : page[v] < page[u] /\ Deliverable(v)}) < limit}

\* Mutant: stale entries stay in the sorted set.
RescheduleOnly(scanned) ==
  due' = [u \in Users |-> IF u \in scanned /\ Renewed(u) THEN hold[u] ELSE due[u]]

\* Remove the stale entries met, and move the renewed holds to their deadline.
CleanSchedule(scanned) ==
  due' = [u \in Users |-> IF u \in scanned /\ Stale(u) THEN Absent
                          ELSE IF u \in scanned /\ Renewed(u) THEN hold[u]
                          ELSE due[u]]

\* The first `limit' deliverable users in the order of the sorted set.
DueUsers(limit) ==
  LET scanned     == Scanned(limit)
      deliverable == {u \in scanned : Deliverable(u)}
      position(u) == 1 + Cardinality({v \in deliverable : Before(v, u)})
  IN  /\ CleanSchedule(scanned)
      /\ found' = [u \in Users |-> IF u \in deliverable /\ position(u) <= limit
                                   THEN position(u) ELSE 0]

-----------------------------------------------------------------------------
(* poll_once *)

\* The limit allows for the flushes that run when the query is sent ...
Scan ==
  /\ ~polling
  /\ DueUsers(BatchSize + Cardinality(Active))
  /\ polling' = TRUE
  /\ UNCHANGED <<now, hold, work, tasks>>

Candidates == {u \in Users : found[u] > 0} \ Active

\* ... and the free slots are counted after the answer arrived.
AvailableSlots == BatchSize - Cardinality(Active)

Started ==
  {u \in Candidates :
     Cardinality({v \in Candidates : found[v] < found[u]}) < AvailableSlots}

StartFlushes ==
  /\ polling
  /\ tasks' = [u \in Users |-> IF u \in Started THEN tasks[u] + 1 ELSE tasks[u]]
  /\ found' = Nothing
  /\ polling' = FALSE
  /\ UNCHANGED <<now, due, hold, work>>

\* A flush ends: deferred by a hold, failed, or with an empty queue and, unless
\* its cleanup failed, no schedule.
FlushEnds(u) ==
  /\ tasks[u] > 0
  /\ tasks' = [tasks EXCEPT ![u] = @ - 1]
  /\ \/ hold[u] > now /\ UNCHANGED <<due, hold, work>>
     \/ /\ hold[u] <= now /\ u \in Broken /\ work[u]
        /\ UNCHANGED <<due, hold, work>>
     \/ /\ hold[u] <= now /\ (u \in Healthy \/ ~work[u])
        /\ work' = [work EXCEPT ![u] = FALSE]
        /\ \/ /\ hold' = [hold EXCEPT ![u] = Absent]
              /\ due' = [due EXCEPT ![u] = Absent]
           \/ UNCHANGED <<due, hold>>
  /\ UNCHANGED <<now, found, polling>>

\* The process stops: run() cancels its flushes; a new worker starts.
Restart ==
  /\ now < MaxTime
  /\ tasks' = Nothing /\ found' = Nothing /\ polling' = FALSE
  /\ UNCHANGED <<now, due, hold, work>>

-----------------------------------------------------------------------------
Next ==
  \/ \E u \in Users : Arrive(u) \/ Touch(u) \/ HoldExpires(u) \/ FlushEnds(u)
  \/ Tick \/ Scan \/ StartFlushes \/ Restart

Spec == Init /\ [][Next]_vars

\* run() polls until it is cancelled, the flushes of healthy users end, the
\* clock advances and Redis applies TTLs.  The flush of a broken user may hang:
\* the ownership deadline is an asyncio timeout, which a driver can resist.
Fairness ==
  /\ WF_vars(Scan) /\ WF_vars(StartFlushes)
  /\ \A u \in Healthy : WF_vars(FlushEnds(u))
  /\ \A u \in Users : WF_vars(HoldExpires(u))
  /\ WF_vars(Tick)

FairSpec == Spec /\ Fairness

-----------------------------------------------------------------------------
\* While fewer users than a batch are broken, every other user's notifications
\* are delivered: neither failing or hanging users nor stale entries and renewed
\* holds in front of the sorted set hide the rest of it (ADR-0002).
HealthyAreServed == \A u \in Healthy : work[u] ~> ~work[u]

=============================================================================
