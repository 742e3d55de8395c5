---------------------------- MODULE MCWdcEvents ----------------------------
(* Three event types, a ring of three, ids that wrap after five events.    *)
EXTENDS WdcEvents

MCKind == {"system_boot", "safety_state_changed", "fault"}

=============================================================================
