---------------------------- MODULE MCWdcSafety ----------------------------
(* The built-in profile, and two applications that share its relay.        *)
EXTENDS WdcSafety, TLC

CONSTANTS relay, led, button, ctl, blink

MCPinOrder == <<relay, led, button>>
MCSafeLevel == relay :> 0 @@ led :> 1
MCApp == {ctl, blink}

\* hz = 2 does not divide Second = 3, hz = 5 exceeds it, hz = 0 is no limit.
MCCaps ==
    ctl   :> << [pin |-> relay, ops |-> {"read", "write"}, hz |-> 2],
                [pin |-> button, ops |-> {"read"}, hz |-> 0] >>
 @@ blink :> << [pin |-> relay, ops |-> {"read"}, hz |-> 5],
                [pin |-> led, ops |-> {"write"}, hz |-> 1] >>

=============================================================================
