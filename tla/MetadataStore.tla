--------------------------- MODULE MetadataStore ---------------------------
(***************************************************************************)
(* What the callers of wdc_ota_read_metadata and wdc_ota_write_metadata    *)
(* rely on: one metadata value, replaced atomically.  A write that returns *)
(* OK has taken effect; one that returns an I/O error, or that a power     *)
(* loss cuts short, took effect completely or not at all.                  *)
(***************************************************************************)
EXTENDS Naturals

CONSTANTS
    Metadata,      \* the metadata values, records with a generation field gen
    MetadataInit   \* what a store that was never written holds

VARIABLES
    cur,    \* the value a read returns
    call    \* the write in progress: [open, arg, status]

vars == <<cur, call>>

NoCall == [open |-> FALSE, arg |-> MetadataInit, status |-> "none"]

Init == cur = MetadataInit /\ call = NoCall

\* A caller passes a successor of what is stored, or the stored value itself.
Write(m) ==
    /\ ~call.open
    /\ m.gen > cur.gen \/ m = cur
    /\ call' = [open |-> TRUE, arg |-> m, status |-> "none"]
    /\ UNCHANGED cur

Finish(status) ==
    /\ call.open
    /\ call.status = "none"
    /\ cur' \in {cur, call.arg}
    /\ status = "OK" => cur' = call.arg
    /\ call' = [open |-> TRUE, arg |-> call.arg, status |-> status]

Return ==
    /\ call.open
    /\ call.status # "none"
    /\ call' = NoCall
    /\ UNCHANGED cur

PowerLoss == call' = NoCall /\ UNCHANGED cur

Next ==
    \/ \E m \in Metadata : Write(m)
    \/ \E status \in {"OK", "IO"} : Finish(status)
    \/ Return
    \/ PowerLoss

Spec == Init /\ [][Next]_vars

=============================================================================
