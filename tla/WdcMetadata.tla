---------------------------- MODULE WdcMetadata ----------------------------
(***************************************************************************)
(* WdcBundleMetadataV1, the record the shell keeps in the wasm_meta        *)
(* partition, and the operations wdc_bundle.c and wdc_security.c define on *)
(* it.                                                                     *)
(*                                                                         *)
(* Data abstraction.  A bundle is a model value; it stands for its payload *)
(* hash, and its manifest's security_counter is Counter[b].  A slot record *)
(* therefore needs the bundle it describes and a state: version, counter   *)
(* and hash are all functions of the bundle, because mark_verified is the  *)
(* only writer of the three.  The CRC is not a field: a record is either   *)
(* sealed or rejected as a whole, which WdcOtaJournal models with a flag.  *)
(***************************************************************************)
EXTENDS Naturals

CONSTANTS
    Bundle,     \* the signed bundles that exist
    NoBundle,   \* a slot record, or a slot partition, that holds none
    Counter     \* the manifest's security_counter of each bundle

ASSUME BundleAssumption ==
    /\ NoBundle \notin Bundle
    /\ Counter \in [Bundle -> Nat]

Slots == {"a", "b"}
NoSlot == "none"

\* WdcSlotState
SlotStates == {"empty", "downloaded", "verified", "pending",
               "running_pending", "confirmed", "failed"}

\* The values of last_failure_reason, WDC_OK and the WDC_ERR_* codes.
Reasons == {"OK", "TIMEOUT", "NOT_SYNCHRONIZED", "INVALID_STATE",
            "IO", "CONTRACT_VIOLATION", "GUEST"}

SlotRecord == [state : SlotStates, bundle : Bundle \cup {NoBundle}]

Metadata ==
    [active   : Slots \cup {NoSlot},   \* active_slot
     lastGood : Slots \cup {NoSlot},   \* last_good_slot
     slot     : [Slots -> SlotRecord], \* slot_a, slot_b
     boots    : Nat,                   \* candidate_boot_count
     faults   : Nat,                   \* candidate_fault_count
     reason   : Reasons,               \* last_failure_reason
     gen      : Nat]                   \* metadata_generation

-----------------------------------------------------------------------------

\* wdc_bundle_metadata_init
MetadataInit ==
    [active   |-> NoSlot,
     lastGood |-> NoSlot,
     slot     |-> [s \in Slots |-> [state |-> "empty", bundle |-> NoBundle]],
     boots    |-> 0,
     faults   |-> 0,
     reason   |-> "OK",
     gen      |-> 0]

\* wdc_bundle_metadata_mark_verified, for a bundle whose verification passed.
\* The code looks at neither active_slot nor last_good_slot.
MarkVerified_m1(m, s, b) ==   \* mutant: the generation stays
    [m EXCEPT !.slot[s] = [state |-> "verified", bundle |-> b]]
MarkVerified(m, s, b) ==
    [m EXCEPT !.slot[s] = [state |-> "verified", bundle |-> b],
              !.gen = @ + 1]

SecurityCounter(r) == IF r.bundle = NoBundle THEN 0 ELSE Counter[r.bundle]

\* wdc_security_metadata_security_floor: the largest counter among the slots
\* that are not empty, whatever else their state is.
SecurityFloor(m) ==
    LET OfSlot(s) == IF m.slot[s].state # "empty"
                     THEN SecurityCounter(m.slot[s]) ELSE 0
    IN  IF OfSlot("a") >= OfSlot("b") THEN OfSlot("a") ELSE OfSlot("b")

=============================================================================
