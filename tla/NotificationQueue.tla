------------------------- MODULE NotificationQueue -------------------------
(***************************************************************************)
(* What the delivery of blockchain notifications promises one user         *)
(* (ADR-0001): an accepted event waits in a FIFO queue, is delivered at    *)
(* least once, and leaves the queue only after a delivery.  How often the  *)
(* head is delivered, and late copies of events that already left, are not *)
(* part of the promise.  Holds, leases and workers are invisible here.     *)
(***************************************************************************)
EXTENDS Naturals, Sequences

CONSTANT Events

VARIABLES
  queue,     \* accepted and not yet acknowledged
  accepted,  \* the events in the order of their first acceptance
  shown      \* the events in the order of their first delivery

vars == <<queue, accepted, shown>>

Listed(e, seq) == \E i \in DOMAIN seq : seq[i] = e

Once(seq, e) == IF Listed(e, seq) THEN seq ELSE Append(seq, e)

Init == queue = <<>> /\ accepted = <<>> /\ shown = <<>>

Accept(e) ==
  /\ ~Listed(e, queue)
  /\ queue' = Append(queue, e)
  /\ accepted' = Once(accepted, e)
  /\ UNCHANGED shown

Show ==
  /\ queue # <<>>
  /\ shown' = Once(shown, Head(queue))
  /\ UNCHANGED <<queue, accepted>>

Remove ==
  /\ queue # <<>>
  /\ Listed(Head(queue), shown)
  /\ queue' = Tail(queue)
  /\ UNCHANGED <<accepted, shown>>

Next == (\E e \in Events : Accept(e)) \/ Show \/ Remove

Spec == Init /\ [][Next]_vars

FairSpec == Spec /\ WF_vars(Show) /\ WF_vars(Remove)

=============================================================================
