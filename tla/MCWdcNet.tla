------------------------------ MODULE MCWdcNet ------------------------------
(* The built-in profile's three network resources, one per operation, and  *)
(* a ring of two; request ids wrap after two.                              *)
EXTENDS WdcNet, TLC

CONSTANTS telemetry, commands, api

MCKind == {"system_boot", "safety_state_changed"} \cup LinkKinds
MCPolicy == telemetry :> [op |-> "publish", max |-> 0]
         @@ commands :> [op |-> "subscribe", max |-> 0]
         @@ api :> [op |-> "http", max |-> 1]

=============================================================================
