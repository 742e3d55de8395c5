--------------------------- MODULE UpdateProtocol ---------------------------
(***************************************************************************)
(* What the A/B update promises, in terms of bundles rather than slots:    *)
(* the device trusts at most one bundle and has at most one on trial.  A   *)
(* trial is staged, started once, and ends accepted or rejected; trust     *)
(* moves only to a bundle whose trial was started.                         *)
(***************************************************************************)
CONSTANTS Bundle, NoBundle

VARIABLES
    trusted,   \* the bundle to fall back to, or NoBundle
    trial      \* the candidate: [bundle, started]

vars == <<trusted, trial>>

NoTrial == [bundle |-> NoBundle, started |-> FALSE]

Init == trusted = NoBundle /\ trial = NoTrial

\* A staged candidate that replaces another one abandons that trial.
Stage(b) ==
    /\ trial' = [bundle |-> b, started |-> FALSE]
    /\ UNCHANGED trusted

Start ==
    /\ trial # NoTrial
    /\ ~trial.started
    /\ trial' = [trial EXCEPT !.started = TRUE]
    /\ UNCHANGED trusted

Accept ==
    /\ trial.started
    /\ trusted' = trial.bundle
    /\ trial' = NoTrial

Reject ==
    /\ trial.started
    /\ trial' = NoTrial
    /\ UNCHANGED trusted

Next == (\E b \in Bundle : Stage(b)) \/ Start \/ Accept \/ Reject

Spec == Init /\ [][Next]_vars

=============================================================================
