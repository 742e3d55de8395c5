------------------------------ MODULE WdcCbor ------------------------------
(***************************************************************************)
(* The CBOR subset of the guest interface, byte for byte (wdc_cbor.c, and  *)
(* the event envelope of wdc_event_encode.c): the builder, which writes    *)
(* into a buffer that may be too small, and the reader, which gets bytes   *)
(* from a guest.  Three users: an event is sent in its envelope, a host    *)
(* call's status is answered, and a request is let in by the dispatcher's  *)
(* gate and then read by a handler.                                        *)
(*                                                                         *)
(* An unsigned number, up to 64 bits wide, is the sequence of its digits   *)
(* in base 256, without leading zeros.                                     *)
(***************************************************************************)
EXTENDS Integers, Sequences, SequencesExt, Checks

CONSTANTS
    Jobs,        \* the jobs to look at, [kind, ...]: see the actions
    Keys,        \* the map keys a handler may look for
    AbiVersion,  \* WDC_R4_EVENT_ABI_VERSION, a number
    PayloadMax   \* WDC_EVENT_PAYLOAD_MAX

Byte == 0..255

\* Less than 2^32
IsWord(n) == n \in Nat /\ ((n \div 256) \div 256) \div 256 \in Byte

\* A number of up to n digits
IsNumber(d, n) == d \in Seq(Byte) /\ Len(d) <= n /\ (d # <<>> => d[1] # 0)

\* An envelope with every field at its widest
WidestEnvelope == 41 + PayloadMax

ASSUME CborAssumption ==
    /\ IsNumber(AbiVersion, 4)
    /\ PayloadMax \in Nat /\ IsWord(WidestEnvelope)
    /\ \A j \in Jobs : j.kind \in {"event", "status", "request"}
    /\ \A j \in Jobs : j.kind = "request" => j.bytes \in Seq(Byte) /\ IsWord(Len(j.bytes))

\* What the fields of an event and a status can hold
ASSUME JobAssumption ==
    /\ \A j \in Jobs : j.kind = "event" =>
          /\ j.cap \in Nat
          /\ j.event \in [type : Seq(Byte), id : Seq(Byte), time : Seq(Byte),
                          resource : Seq(Byte), payload : Seq(Byte)]
          /\ IsNumber(j.event.type, 4) /\ IsNumber(j.event.id, 4)
          /\ IsNumber(j.event.time, 8) /\ IsNumber(j.event.resource, 4)
    /\ \A j \in Jobs : j.kind = "status" =>
          /\ j.cap \in Nat /\ j.code \in Int
          /\ LET n == IF j.code >= 0 THEN j.code ELSE -1 - j.code
             IN  ((n \div 256) \div 256) \div 256 \in 0..127

VARIABLES
    job,     \* what is to be written or read
    stage,   \* how far it is
    wire,    \* the bytes handed over: none if the builder failed
    got      \* what the reader made of them

vars == <<job, stage, wire, got>>

Nothing == [status |-> "none"]

Init == job \in Jobs /\ stage = "start" /\ wire = <<>> /\ got = Nothing

-----------------------------------------------------------------------------
(***************************************************************************)
(* Numbers                                                                 *)
(***************************************************************************)

Strip(s) ==
    LET nonzero == {i \in DOMAIN s : s[i] # 0}
    IN  IF nonzero = {} THEN <<>> ELSE SubSeq(s, Min(nonzero), Len(s))

\* The four bytes of a word
Quad(n) ==
    <<((n \div 256) \div 256) \div 256, ((n \div 256) \div 256) % 256,
      (n \div 256) % 256, n % 256>>

Digits(n) == Strip(Quad(n))

Padded(d, n) ==
    [i \in 1..n |-> IF i + Len(d) <= n THEN 0 ELSE d[i + Len(d) - n]]

\* The lowest 32 bits as a number
Number(d) ==
    LET p == Padded(d, 4)
    IN  256 * (256 * (256 * p[1] + p[2]) + p[3]) + p[4]

AtMost(d1, d2) ==
    \/ Len(d1) < Len(d2)
    \/ /\ Len(d1) = Len(d2)
       /\ \A i \in DOMAIN d1 :
             d1[i] > d2[i] => \E j \in 1..i - 1 : d1[j] < d2[j]

Uint32Max == <<255, 255, 255, 255>>
Int32Max == <<127, 255, 255, 255>>

Unsigned == 0
Negative == 1
Bytes == 2
Txt == 3
Array == 4
Map == 5
Tag == 6
Simple == 7

False == 244
True == 245

-----------------------------------------------------------------------------
(***************************************************************************)
(* The builder                                                             *)
(***************************************************************************)

NewBuilder(cap) == [cap |-> cap, bytes |-> <<>>, ok |-> TRUE]

\* put_u8, one byte after another up to the first that does not fit
PutU8s(b, s) ==
    LET n == IF b.ok THEN Min({Len(s), b.cap - Len(b.bytes)}) ELSE 0
    IN  [b EXCEPT !.bytes = @ \o SubSeq(s, 1, n), !.ok = @ /\ n = Len(s)]

\* put_raw: all or nothing
PutRaw(b, s) ==
    IF b.ok /\ Len(b.bytes) <= b.cap - Len(s)
    THEN [b EXCEPT !.bytes = @ \o s]
    ELSE [b EXCEPT !.ok = FALSE]

\* put_type_value, in the shortest of the five forms
PutTypeValue_m1(b, major, d) ==   \* mutant: 24 is an immediate value
    PutU8s(b,
        IF AtMost(d, <<24>>) THEN <<32 * major + Number(d)>>
        ELSE CASE Len(d) = 1 -> <<32 * major + 24>> \o d
               [] Len(d) = 2 -> <<32 * major + 25>> \o d
               [] Len(d) \in 3..4 -> <<32 * major + 26>> \o Padded(d, 4)
               [] Len(d) \in 5..8 -> <<32 * major + 27>> \o Padded(d, 8))
PutTypeValue(b, major, d) ==
    PutU8s(b,
        IF AtMost(d, <<23>>) THEN <<32 * major + Number(d)>>
        ELSE CASE Len(d) = 1 -> <<32 * major + 24>> \o d
               [] Len(d) = 2 -> <<32 * major + 25>> \o d
               [] Len(d) \in 3..4 -> <<32 * major + 26>> \o Padded(d, 4)
               [] Len(d) \in 5..8 -> <<32 * major + 27>> \o Padded(d, 8))

BeginMap(b, pairs) == PutTypeValue(b, Map, Digits(pairs))
PutKey(b, key) == PutTypeValue(b, Unsigned, Digits(key))

\* wdc_cbor_put_key_u32 and _u64, _i32, _bytes and _text
PutKeyUint(b, key, d) == PutTypeValue(PutKey(b, key), Unsigned, d)
PutKeyInt(b, key, n) ==
    IF n >= 0 THEN PutTypeValue(PutKey(b, key), Unsigned, Digits(n))
    ELSE PutTypeValue(PutKey(b, key), Negative, Digits(-1 - n))
PutKeyString(b, key, major, s) ==
    PutRaw(PutTypeValue(PutKey(b, key), major, Digits(Len(s))), s)

-----------------------------------------------------------------------------
(***************************************************************************)
(* The reader.  Offsets count from 0, as in the code.                      *)
(***************************************************************************)

BadItem == [ok |-> FALSE, major |-> Simple, value |-> <<>>, payload |-> <<>>,
            bool |-> "none", next |-> 0]

\* How many bytes hold the value; 28 to 31 are refused.
ArgLen(addl) ==
    CASE addl <= 23 -> 0
      [] addl \in 24..27 -> <<1, 2, 4, 8>>[addl - 23]
      [] OTHER -> -1

\* The head at offset o, whose value is in n bytes
HeadAt(buf, o, n) ==
    IF n = -1 \/ Len(buf) - (o + 1) < n THEN BadItem
    ELSE [BadItem EXCEPT
            !.ok = TRUE,
            !.major = buf[o + 1] \div 32,
            !.value = IF n = 0 THEN Digits(buf[o + 1] % 32)
                      ELSE Strip(SubSeq(buf, o + 2, o + 1 + n)),
            !.next = o + 1 + n]

ReadTypeValue(buf, o) ==
    IF o >= Len(buf) THEN BadItem ELSE HeadAt(buf, o, ArgLen(buf[o + 1] % 32))

\* How many items follow the head of an array or a map of n
Children_m1(major, n) == n   \* mutant: a map's values are not skipped
Children(major, n) == IF major = Map THEN 2 * n ELSE n

\* skip_item: the end of the item at p
Skip(item, p) == IF p # -1 /\ item[p].ok THEN item[p].next ELSE -1

\* The offsets at which n successive items begin and the last one ends; -1
\* after one that cannot be read.
Successive(item, from, n) ==
    LET at[i \in 0..n] == IF i = 0 THEN from ELSE Skip(item, at[i - 1])
    IN  at

\* The payload of a string with head h, and the items of an array or a map,
\* of which the last one ends at last
String(buf, h) ==
    IF AtMost(h.value, Digits(Len(buf) - h.next))
    THEN [h EXCEPT !.payload = SubSeq(buf, h.next + 1, h.next + Number(h.value)),
                   !.next = @ + Number(h.value)]
    ELSE BadItem
Collection(h, last) ==
    IF AtMost(h.value, <<32>>) /\ last # -1 THEN [h EXCEPT !.next = last]
    ELSE BadItem

EndOf(item, h, n) == Successive(item, h.next, n)[n]

\* The item with head h, given those at the offsets behind it
ItemOf(buf, h, item) ==
    CASE ~h.ok \/ h.major = Tag -> BadItem
      [] h.ok /\ h.major \in {Bytes, Txt} -> String(buf, h)
      [] h.ok /\ h.major \in {Array, Map} ->
            Collection(h, EndOf(item, h, Children(h.major, Number(h.value))))
      [] OTHER -> h

Boolean(byte, o) ==
    [BadItem EXCEPT !.ok = TRUE, !.next = o + 1,
                    !.bool = IF byte = True THEN "true" ELSE "false"]

\* read_item, for every offset
ReadItem(buf) ==
    LET item[o \in 0..Len(buf)] ==
            IF o < Len(buf) /\ buf[o + 1] \in {False, True}
            THEN Boolean(buf[o + 1], o)
            ELSE ItemOf(buf, ReadTypeValue(buf, o), item)
    IN  item

\* wdc_cbor_is_empty_or_map
IsEmptyOrMap(buf) ==
    \/ buf = <<>>
    \/ LET m == ReadItem(buf)[0]
       IN  m.ok /\ m.major = Map /\ m.next = Len(buf)

\* find_item returns the value of the first pair with the key.
Chosen_m1(pairs) == Max(pairs)   \* mutant: of the last
Chosen(pairs) == Min(pairs)

Without(status) == [status |-> status, item |-> BadItem]

\* The pairs with the key, of n that begin and end at the offsets at
Named(item, at, n, key) ==
    {i \in 0..n - 1 : /\ at[2 * i + 2] # -1
                      /\ item[at[2 * i]].major = Unsigned
                      /\ item[at[2 * i]].value = Digits(key)}

Scan(len, item, at, n, pairs) ==
    IF pairs # {}
    THEN [status |-> "OK", item |-> item[at[2 * Chosen(pairs) + 1]]]
    ELSE Without(IF at[2 * n] = len THEN "NOT_AVAILABLE" ELSE "BAD_ENCODING")

FindIn(buf, h, item, at, key) ==
    IF buf = <<>> THEN Without("NOT_AVAILABLE")
    ELSE IF ~h.ok \/ h.major # Map \/ ~AtMost(h.value, <<32>>)
    THEN Without("BAD_ENCODING")
    ELSE Scan(Len(buf), item, at, Number(h.value),
              Named(item, at, Number(h.value), key))

FindItem(buf, key) ==
    LET h == ReadTypeValue(buf, 0)
        item == ReadItem(buf)
    IN  FindIn(buf, h, item, Successive(item, h.next, 2 * Number(h.value)), key)

\* wdc_cbor_map_find_u32, _u64, _i32, _bool, _bytes and _text: which items they
\* take, and as what
Types == {"u32", "u64", "i32", "bool", "bytes", "text"}

Takes(type, i) ==
    CASE type = "u32"   -> i.major = Unsigned /\ AtMost(i.value, Uint32Max)
      [] type = "u64"   -> i.major = Unsigned
      [] type = "i32"   -> i.major \in {Unsigned, Negative} /\ AtMost(i.value, Int32Max)
      [] type = "bool"  -> i.bool # "none"
      [] type = "bytes" -> i.major = Bytes
      [] type = "text"  -> i.major = Txt

Taken(type, i) ==
    CASE type \in {"u32", "u64"}    -> i.value
      [] type = "i32" -> IF i.major = Negative THEN -1 - Number(i.value)
                         ELSE Number(i.value)
      [] type = "bool"              -> i.bool
      [] type \in {"bytes", "text"} -> i.payload

As(type, f) ==
    IF f.status # "OK" THEN [status |-> f.status, value |-> <<>>]
    ELSE IF ~Takes(type, f.item)
    THEN [status |-> "BAD_ENCODING", value |-> <<>>]
    ELSE [status |-> "OK", value |-> Taken(type, f.item)]

MapFind(buf, key, type) == As(type, FindItem(buf, key))

-----------------------------------------------------------------------------
(***************************************************************************)
(* An event in its envelope.  Resource 0 is none, as is an empty payload.  *)
(***************************************************************************)

AbiVersionKey == 12
EventTypeKey == 13
EventIdKey == 14
TimestampKey == 15
ResourceKey == 3
PayloadKey == 16
StatusKey == 0

\* wdc_event_encode_cbor, with room for cap bytes
Pairs(e) == 4 + Cardinality({f \in {"resource", "payload"} : e[f] # <<>>})

Envelope(e, cap) ==
    LET head == PutKeyUint(BeginMap(NewBuilder(cap), Pairs(e)), AbiVersionKey, AbiVersion)
        typed == PutKeyUint(PutKeyUint(head, EventTypeKey, e.type), EventIdKey, e.id)
        timed == PutKeyUint(typed, TimestampKey, e.time)
        WithResource(b) ==
            IF e.resource = <<>> THEN b ELSE PutKeyUint(b, ResourceKey, e.resource)
        WithPayload(b) ==
            IF e.payload = <<>> THEN b ELSE PutKeyString(b, PayloadKey, Bytes, e.payload)
    IN  WithPayload(WithResource(timed))

\* wdc_event_decode_envelope, from what it finds
Optional(f) == f.status \in {"OK", "NOT_AVAILABLE"}

Decoded(map, abi, type, id, time, resource, payload) ==
    [status |-> FirstError(<<
        Check(map, "BAD_ENCODING"),
        Check(abi.status = "OK", "BAD_ENCODING"),
        Check(abi.value = AbiVersion, "UNSUPPORTED_ABI"),
        Check("OK" = type.status /\ "OK" = id.status /\ "OK" = time.status,
              "BAD_ENCODING"),
        Check(Optional(resource) /\ Optional(payload), "BAD_ENCODING"),
        Check(Len(payload.value) <= PayloadMax, "BAD_LENGTH")>>),
     event |-> [type |-> type.value, id |-> id.value, time |-> time.value,
                resource |-> resource.value, payload |-> payload.value]]

DecodeEnvelope(buf) ==
    Decoded(IsEmptyOrMap(buf),
            MapFind(buf, AbiVersionKey, "u32"), MapFind(buf, EventTypeKey, "u32"),
            MapFind(buf, EventIdKey, "u32"), MapFind(buf, TimestampKey, "u64"),
            MapFind(buf, ResourceKey, "u32"), MapFind(buf, PayloadKey, "bytes"))

-----------------------------------------------------------------------------

Handed(b) ==
    /\ stage' = IF b.ok THEN "sent" ELSE "too_small"
    /\ wire' = IF b.ok THEN b.bytes ELSE <<>>
    /\ UNCHANGED <<job, got>>

Read(what) ==
    /\ got' = what
    /\ stage' = "done"
    /\ UNCHANGED <<job, wire>>

EncodeEvent ==
    /\ stage = "start" /\ job.kind = "event"
    /\ Len(job.event.payload) <= PayloadMax
    /\ Handed(Envelope(job.event, job.cap))

EventTooLong ==
    /\ stage = "start" /\ job.kind = "event"
    /\ Len(job.event.payload) > PayloadMax
    /\ stage' = "refused" /\ UNCHANGED <<job, wire, got>>

DecodeEvent ==
    /\ stage = "sent" /\ job.kind = "event"
    /\ Read(DecodeEnvelope(wire))

\* response_status
StatusResponse(code, cap) ==
    PutKeyInt(BeginMap(NewBuilder(cap), 1), StatusKey, code)

AnswerStatus ==
    /\ stage = "start" /\ job.kind = "status"
    /\ Handed(StatusResponse(job.code, job.cap))

ReadStatus ==
    /\ stage = "sent" /\ job.kind = "status"
    /\ Read(MapFind(wire, StatusKey, "i32"))

\* wdc_host_call_dispatch
Gate ==
    /\ stage = "start" /\ job.kind = "request"
    /\ IF IsEmptyOrMap(job.bytes) THEN stage' = "sent" /\ wire' = job.bytes
       ELSE stage' = "refused" /\ UNCHANGED wire
    /\ UNCHANGED <<job, got>>

\* A handler, or the authorizer, looks for a key.
Handle(key, type) ==
    LET f == MapFind(wire, key, type)
    IN  /\ stage = "sent" /\ job.kind = "request"
        /\ Read([status |-> f.status, value |-> f.value, key |-> key, type |-> type])

Done == stage \in {"done", "refused", "too_small"} /\ UNCHANGED vars

Next ==
    \/ EncodeEvent \/ EventTooLong \/ DecodeEvent
    \/ AnswerStatus \/ ReadStatus
    \/ Gate \/ \E k \in Keys, t \in Types : Handle(k, t)
    \/ Done

Spec == Init /\ [][Next]_vars

-----------------------------------------------------------------------------
(***************************************************************************)
(* Properties                                                              *)
(***************************************************************************)

\* One head h further: <<offset, items to come>>, the latter -1 after an error
ScanStep(buf, s, h) ==
    CASE s[2] = 0 -> s
      [] s[2] # 0 /\ h.ok /\ h.major \in {Bytes, Txt}
             /\ AtMost(h.value, Digits(Len(buf) - h.next))
           -> <<h.next + Number(h.value), s[2] - 1>>
      [] s[2] # 0 /\ h.ok /\ h.major \in {Array, Map} /\ AtMost(h.value, <<32>>)
           -> <<h.next, s[2] - 1 + (IF h.major = Map THEN 2 ELSE 1) * Number(h.value)>>
      [] s[2] # 0 /\ h.ok /\ h.major \in {Unsigned, Negative, Simple}
           -> <<h.next, s[2] - 1>>
      [] OTHER -> <<Len(buf), -1>>

Scanned(buf, s) == ScanStep(buf, s, ReadTypeValue(buf, s[1]))

\* The end of the item at offset o, without nesting: a count of the items
\* still to come goes up by the children of each head and down by one.
ScanEnd(buf, o) ==
    LET s[k \in 0..Len(buf) - o] ==
            IF k = 0 THEN <<o, 1>>
            ELSE Scanned(buf, s[k - 1])
        last == s[Len(buf) - o]
    IN  IF last[2] = 0 THEN last[1] ELSE -1

\* The recursive reader against a scan that keeps one counter: from every
\* offset, whatever the nesting and the lengths the bytes claim, it takes
\* exactly the bytes of one item, never past the end of the buffer, and
\* refuses what has no end.
ReadIsExact ==
    stage = "start" /\ job.kind = "request" =>
        LET item == ReadItem(job.bytes)
        IN  \A o \in 0..Len(job.bytes) :
               LET end == ScanEnd(job.bytes, o)
               IN  /\ item[o].ok <=> end # -1
                   /\ item[o].ok => item[o].next = end

\* Where n successive items begin and the last one ends, and which of n pairs
\* have the key, by the scan and by their heads
Offsets(buf, from, n) ==
    LET at[i \in 0..n] == IF i = 0 THEN from ELSE ScanEnd(buf, at[i - 1])
    IN  at

WithKey(buf, at, n, key) ==
    {i \in 0..n - 1 : /\ ReadTypeValue(buf, at[2 * i]).major = Unsigned
                      /\ ReadTypeValue(buf, at[2 * i]).value = Digits(key)}

\* A request the gate lets in reads one way only: a handler finds the value of
\* the first pair with its key, also behind nested maps that hold the same key
\* and before a second pair, NOT_AVAILABLE if and only if there is no such
\* pair, and BAD_ENCODING only for a value of another type.
FindsFirst ==
    stage = "done" /\ job.kind = "request" /\ wire # <<>> =>
        LET h == ReadTypeValue(wire, 0)
            n == Number(h.value)
            at == Offsets(wire, h.next, 2 * n)
            head(i) == ReadTypeValue(wire, at[i])
            named == WithKey(wire, at, n, got.key)
            v == 2 * Min(named) + 1
            raw == SubSeq(wire, at[v] + 1, at[v + 1])
        IN  /\ got.status = "NOT_AVAILABLE" <=> named = {}
            /\ named # {} /\ got.type \in {"bytes", "text"} =>
                  /\ got.status = "OK" <=>
                        head(v).major = IF got.type = "bytes" THEN Bytes ELSE Txt
                  /\ got.status = "OK" =>
                        got.value = SubSeq(wire, head(v).next + 1, at[v + 1])
            /\ named # {} /\ got.type = "bool" =>
                  got.status = "OK" <=> raw \in {<<False>>, <<True>>}
            /\ named # {} /\ got.type = "u32" =>
                  /\ got.status = "OK" <=>
                        head(v).major = Unsigned /\ Len(head(v).value) <= 4
                  /\ got.status = "OK" => got.value = head(v).value

\* The length of what is to be written, in a buffer with room for everything
Needed(j) ==
    Len((IF j.kind = "event" THEN Envelope(j.event, WidestEnvelope)
         ELSE StatusResponse(j.code, WidestEnvelope)).bytes)

\* What the builder hands over reads back as what was written, at every width
\* of every number, and is handed over if and only if it fits the buffer.
WrittenIsRead ==
    /\ stage = "done" /\ job.kind = "event" =>
          got = [status |-> "OK", event |-> job.event]
    /\ stage = "done" /\ job.kind = "status" =>
          got = [status |-> "OK", value |-> job.code]
    /\ stage \in {"sent", "too_small"} /\ job.kind # "request" =>
          (stage = "sent" <=> Needed(job) <= job.cap)

=============================================================================
