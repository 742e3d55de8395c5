--------------------------- MODULE MCWdcHostCall ---------------------------
(* Three short keys and a long one for two slots; values below, at and     *)
(* above the limits; an application with a narrow capability beside a wide *)
(* one, and one with overlapping capabilities and smaller call limits.     *)
EXTENDS WdcHostCall, TLC

CONSTANTS k1, k2, k3, long, t1, t2, t3, once, short, wide, huge, full, tight

MCKey == {k1, k2, k3, long}
MCTimerId == {t1, t2, t3}
MCSize == short :> 1 @@ wide :> 2 @@ huge :> 3
MCCaps ==
    full  :> << [keys |-> {k1}, ops |-> {"write"}, max |-> 1, rated |-> FALSE],
                [keys |-> {k2, k3, long}, ops |-> {"read", "write"}, max |-> 0,
                 rated |-> FALSE] >>
 @@ tight :> << [keys |-> {k2}, ops |-> {"read", "write"}, max |-> 1,
                 rated |-> TRUE],
                [keys |-> {k1, k2}, ops |-> {"write"}, max |-> 2,
                 rated |-> FALSE] >>
MCLimits == full :> [req |-> 0, rsp |-> 9] @@ tight :> [req |-> 3, rsp |-> 2]
MCDefault == [req |-> 4, rsp |-> 3]

Symmetry == Permutations(MCTimerId)

=============================================================================
