----------------------------- MODULE EventFifo -----------------------------
(***************************************************************************)
(* What the event queue promises: a bounded FIFO that refuses, and counts, *)
(* the newest event when it is full, and never queues two events under the *)
(* same id.                                                                *)
(***************************************************************************)
EXTENDS Naturals, Sequences, SequencesExt

CONSTANTS Kind, Capacity, Ids

VARIABLES queue, lost

vars == <<queue, lost>>

Init == queue = <<>> /\ lost = 0

Accept(k) ==
    /\ Len(queue) < Capacity
    /\ \E id \in Ids \ {e.id : e \in ToSet(queue)} :
          queue' = Append(queue, [kind |-> k, id |-> id])
    /\ UNCHANGED lost

Refuse ==
    /\ Len(queue) = Capacity
    /\ lost' = lost + 1
    /\ UNCHANGED queue

Take ==
    /\ queue # <<>>
    /\ queue' = Tail(queue)
    /\ UNCHANGED lost

\* An event passed straight through by one caller: posted, and the oldest taken.
AcceptAndTake(k) ==
    /\ Len(queue) < Capacity
    /\ \E id \in Ids \ {e.id : e \in ToSet(queue)} :
          queue' = Tail(Append(queue, [kind |-> k, id |-> id]))
    /\ UNCHANGED lost

Next ==
    \/ \E k \in Kind : Accept(k) \/ AcceptAndTake(k)
    \/ Refuse \/ Take

Spec == Init /\ [][Next]_vars

=============================================================================
