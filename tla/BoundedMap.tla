----------------------------- MODULE BoundedMap -----------------------------
(***************************************************************************)
(* What a small table behind the host-call interface promises its guest: a *)
(* map from Key to Value with at most N entries, and answers that tell the *)
(* truth about it.  An answer that did not fit the guest's buffer is lost: *)
(* then the call may have taken effect or not, but never in part.          *)
(***************************************************************************)
EXTENDS Naturals, FiniteSets

CONSTANTS Key, Value, None, N, PutOp, GetOp, DropOp

VARIABLES map, answer

vars == <<map, answer>>

Present == {k \in Key : map[k] # None}

Lost == answer'.ret = "RESPONSE_TOO_SMALL"
Says(op, code) == answer'.op = op /\ (Lost \/ answer'.code = code)

Init == map = [k \in Key |-> None]

Put ==
    /\ Says(PutOp, "OK") /\ answer'.key \in Key
    /\ answer'.key \in Present \/ Cardinality(Present) < N
    /\ map' = [map EXCEPT ![answer'.key] = answer'.val]

Full ==
    /\ Says(PutOp, "NO_MEMORY")
    /\ answer'.key \notin Present /\ Cardinality(Present) = N
    /\ UNCHANGED map

Drop ==
    /\ Says(DropOp, "OK") /\ answer'.key \in Key
    /\ map' = [map EXCEPT ![answer'.key] = None]

Get ==
    /\ Says(GetOp, "OK")
    /\ answer'.key \in Present
    /\ Lost \/ answer'.data = map[answer'.key]
    /\ UNCHANGED map

Miss ==
    /\ Says(GetOp, "NOT_AVAILABLE")
    /\ answer'.key \notin Present
    /\ UNCHANGED map

\* Any other answer, and any step that is no call on this map, leaves it alone.
Aside ==
    /\ answer'.op \in {PutOp, GetOp, DropOp} /\ ~Lost
          => answer'.code \notin {"OK", "NO_MEMORY", "NOT_AVAILABLE"}
    /\ UNCHANGED map

Next == Put \/ Full \/ Drop \/ Get \/ Miss \/ Aside

Spec == Init /\ [][Next]_vars

=============================================================================
