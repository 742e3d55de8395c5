------------------------------ MODULE WdcCaps ------------------------------
(***************************************************************************)
(* The capabilities of a bundle: what wdc_caps_parse_manifest_json         *)
(* (wdc_caps.c) makes of the manifest's "capabilities" array under a       *)
(* device profile.  The JSON text is abstracted to a sequence of entries   *)
(* as they are written: kind, resource and operations are names, some of   *)
(* them unknown; a limit is the number its first digits make, -1 if it is  *)
(* absent or does not begin with a digit.                                  *)
(***************************************************************************)
EXTENDS Integers, Checks, SequencesExt

CONSTANTS
    Profile,        \* sequence of the profile's resources [kind, name, id]
    Word,           \* 2^32
    MaxCaps,        \* WDC_CAPS_MAX_CAPABILITIES
    ArenaBytes,     \* WDC_CAPS_STRING_ARENA_BYTES
    NameBytes       \* NameBytes[n]: what a copy of the name n takes

ASSUME CapsAssumption ==
    /\ Word \in Nat /\ MaxCaps \in Nat /\ ArenaBytes \in Nat
    /\ Profile \in Seq([kind : STRING, name : STRING, id : Nat \ {0}])

\* wdc_resource_kind_from_string and wdc_cap_op_from_string
Kinds == {"gpio", "sensor", "i2c", "network", "ble", "config", "storage",
          "diagnostics", "clock"}
CapOps == {"read", "write", "subscribe", "publish", "request", "notify"}

\* The kinds whose names are not looked up in the profile.
Unbound == {"config", "storage", "diagnostics", "clock"}

\* wdc_profile_find_resource_by_name: the first that matches, 0 if none does.
ResourceId_m1(kind, name) ==    \* mutant: the name alone
    LET match == {i \in DOMAIN Profile : Profile[i].name = name}
    IN  IF match = {} THEN 0 ELSE Profile[Min(match)].id
ResourceId(kind, name) ==
    LET match == {i \in DOMAIN Profile :
                     Profile[i].kind = kind /\ Profile[i].name = name}
    IN  IF match = {} THEN 0 ELSE Profile[Min(match)].id

\* parse_optional_u32 over extract_uint_value: the digits, modulo 2^32.
Limit(written) == IF written < 0 THEN 0 ELSE written % Word

\* parse_ops_array: an unknown operation adds no bit.
Ops(entry) == entry.ops \cap CapOps

ArenaUsed(entries) ==
    FoldSeq(LAMBDA e, n : n + NameBytes[e.resource], 0, entries)

\* The checks of the array's i-th entry.
EntryStatus(entries, i) ==
    LET e == entries[i]
    IN  FirstError(<<
            Check(i <= MaxCaps, "NO_MEMORY"),
            Check(e.kind \in Kinds, "BAD_ENCODING"),
            Check(Ops(e) # {}, "BAD_ENCODING"),
            Check(ArenaUsed(SubSeq(entries, 1, i)) <= ArenaBytes, "NO_MEMORY"),
            Check(e.kind \in Unbound \/ ResourceId(e.kind, e.resource) # 0,
                  "INVALID_RESOURCE")>>)

\* wdc_caps_parse_manifest_json: its status ...
CapsStatus(entries) ==
    FirstError([i \in DOMAIN entries |->
                    Check(EntryStatus(entries, i) = "OK", EntryStatus(entries, i))]
               \o <<Check(entries # <<>>, "BAD_ENCODING")>>)

\* ... and the capability set.
CapabilitySet(entries) ==
    [i \in DOMAIN entries |->
        LET e == entries[i]
        IN  [kind     |-> e.kind,
             resource |-> IF e.kind \in Unbound
                          THEN 0 ELSE ResourceId(e.kind, e.resource),
             name     |-> e.resource,
             ops      |-> Ops(e),
             payload  |-> Limit(e.payload),
             rate     |-> Limit(e.rate)]]

=============================================================================
