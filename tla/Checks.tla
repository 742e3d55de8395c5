------------------------------- MODULE Checks -------------------------------
(***************************************************************************)
(* A function that checks its input one condition after another and        *)
(* returns the error of the first that fails, as a sequence of checks.     *)
(***************************************************************************)
EXTENDS Naturals, Sequences, FiniteSetsExt

Check(ok, err) == [ok |-> ok, err |-> err]

FirstError(checks) ==
    LET failing == {i \in DOMAIN checks : ~checks[i].ok}
    IN  IF failing = {} THEN "OK" ELSE checks[Min(failing)].err

=============================================================================
