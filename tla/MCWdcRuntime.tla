---------------------------- MODULE MCWdcRuntime ----------------------------
(* The boot path with the static smoke after the probe, and a log of four. *)
EXTENDS WdcRuntime

=============================================================================
