----------------------------- MODULE MCWdcBoot -----------------------------
(***************************************************************************)
(* Two bundles that verify, the second with a higher security counter, and *)
(* one that does not.                                                      *)
(***************************************************************************)
EXTENDS WdcBoot

CONSTANTS old, new, forged

MCBundle == {old, new, forged}
MCGenuine == {old, new}
MCAccepted == {old, new}
MCCounter == [b \in Bundle |-> CASE b = old -> 1 [] b = new -> 2 [] OTHER -> 3]
=============================================================================
