----------------------------- MODULE MCWdcCbor -----------------------------
(* Every request of up to four bytes over an alphabet with each major      *)
(* type, immediate and one-byte lengths, nesting, booleans, a tag and a    *)
(* reserved head, some longer ones for the wider lengths and for repeated  *)
(* and nested keys; events and statuses at the boundaries of every width,  *)
(* in buffers from empty to sufficient.                                    *)
EXTENDS WdcCbor

Alphabet == {0, 1, 24, 28, 32, 65, 88, 97, 129, 130, 161, 162, 192, 244, 245}

Short == UNION {[1..n -> Alphabet] : n \in 0..4}

\* Two pairs, or a pair after a nested one, with heads of every width
Heads == {<<1>>, <<24, 1>>, <<25, 0, 1>>, <<26, 0, 0, 0, 1>>,
          <<27, 0, 0, 0, 0, 0, 0, 0, 1>>, <<27, 0, 0, 0, 1, 0, 0, 0, 1>>}
Values == Heads \cup {<<244>>, <<65, 7>>, <<97, 7>>, <<88, 1, 7>>,
                      <<90, 0, 0, 0, 1, 7>>, <<91, 0, 0, 0, 1, 0, 0, 0, 1, 7>>,
                      <<161, 1, 245>>, <<130, 1, 161, 1, 1>>,
                      <<155, 255, 255, 255, 255, 255, 255, 255, 255>>,
                      <<152, 33>>, <<184, 33>>, <<26, 255, 255, 255, 255>>}
Long == {<<162>> \o k1 \o v1 \o k2 \o v2 :
            k1 \in {<<0>>, <<1>>, <<129, 1>>}, v1 \in Values,
            k2 \in Heads, v2 \in {<<244>>, <<65, 9>>, <<2>>}}

Edge32 == {<<>>, <<23>>, <<24>>, <<255>>, <<1, 0>>, <<255, 255>>, <<1, 0, 0>>,
           <<255, 255, 255, 255>>}
Edge64 == Edge32 \cup {<<1, 0, 0, 0, 0>>, [i \in 1..8 |-> 255]}
Payloads == {[i \in 1..n |-> i] : n \in {0, 1, 23, 24, 25}}

Events(R, T, I, E, P) == [type : E, id : I, time : T, resource : R, payload : P]
SomeEvents ==
    LET one == {<<1>>}
    IN  Events(Edge32, Edge64, one, one, {<<>>}) \cup
        Events({<<>>}, one, Edge32, Edge32, {<<>>, <<7>>}) \cup
        Events({<<>>, <<3>>}, one, one, one, Payloads)

Codes == {0, 1, 23, 24, 255, 256, 65536, 2147483647,
          -1, -24, -25, -256, -257, -2147483647 - 1}

MCAbiVersion == <<1, 0, 0>>

MCJobs ==
    [kind : {"request"}, bytes : Short \cup Long] \cup
    [kind : {"event"}, event : SomeEvents, cap : 0..60] \cup
    [kind : {"status"}, code : Codes, cap : 0..7]

=============================================================================
