--------------------------- MODULE WdcOtaJournal ---------------------------
(***************************************************************************)
(* The two-record metadata journal of wdc_ota.c (ESP_PLATFORM build): one  *)
(* record per flash sector, each with magic, version, generation, CRC and  *)
(* commit marker.  A write picks the sector that does not hold the best    *)
(* record, erases it and programs it; power may fail, and the flash driver *)
(* may report an error, between or inside these steps.                     *)
(*                                                                         *)
(* A sector whose contents metadata_record_valid rejects (erased, partly   *)
(* erased or partly programmed: the commit marker is the record's last     *)
(* word and the CRC covers the rest) is Torn; all such contents behave     *)
(* alike.                                                                  *)
(***************************************************************************)
EXTENDS Naturals

CONSTANTS
    Metadata,      \* metadata values; only their gen field is looked at
    MetadataInit   \* wdc_bundle_metadata_init

ASSUME JournalAssumption ==
    /\ MetadataInit \in Metadata
    /\ \A m \in Metadata : m.gen \in Nat

VARIABLES
    rec,   \* the two journal sectors
    job    \* the running call of wdc_ota_write_metadata

vars == <<rec, job>>

Index == {0, 1}
Torn == [ok |-> FALSE, meta |-> MetadataInit]

\* metadata_record_from_metadata: a record carrying the caller's generation.
RecordOf(m) == [ok |-> TRUE, meta |-> m]

Record == [ok : BOOLEAN, meta : Metadata]

Phases == {"idle", "scan", "erase", "program", "done"}

IdleJob == [phase |-> "idle", target |-> 0, next |-> MetadataInit,
            status |-> "none"]

Job == [phase : Phases, target : Index, next : Metadata,
        status : {"none", "OK", "IO"}]

-----------------------------------------------------------------------------

\* metadata_record_valid
Valid(r, i) == r[i].ok

AnyValid(r) == Valid(r, 0) \/ Valid(r, 1)

\* The index select_best_metadata_record returns.
BestIndex_m1(r) ==   \* mutant: the older of two valid records
    IF \/ ~AnyValid(r)
       \/ Valid(r, 0) /\ (~Valid(r, 1) \/ r[0].meta.gen < r[1].meta.gen)
    THEN 0 ELSE 1
BestIndex_m2(r) == IF Valid(r, 1) /\ ~Valid(r, 0) THEN 1 ELSE 0   \* mutant: 0 first
BestIndex(r) ==
    IF \/ ~AnyValid(r)
       \/ Valid(r, 0) /\ (~Valid(r, 1) \/ r[0].meta.gen >= r[1].meta.gen)
    THEN 0 ELSE 1

\* The metadata select_best_metadata_record returns, which is what
\* wdc_ota_read_metadata reads.
Best(r) == IF AnyValid(r) THEN r[BestIndex(r)].meta ELSE MetadataInit

\* The sector wdc_ota_write_metadata replaces.
TargetIndex_m1(r) == IF AnyValid(r) THEN BestIndex(r) + 1 ELSE 0   \* mutant
TargetIndex_m2(r) == 0                   \* mutant: always the first sector
TargetIndex_m3(r) == BestIndex(r)        \* mutant: the best record in place
TargetIndex(r) ==
    IF AnyValid(r) THEN (IF BestIndex(r) = 0 THEN 1 ELSE 0) ELSE 0

Init ==
    /\ rec = [i \in Index |-> Torn]
    /\ job = IdleJob

-----------------------------------------------------------------------------
(***************************************************************************)
(* wdc_ota_write_metadata(m), one action for each point where the flash is *)
(* touched and power can be lost.                                          *)
(***************************************************************************)

Write(m) ==
    /\ job.phase = "idle"
    /\ job' = [IdleJob EXCEPT !.phase = "scan", !.next = m]
    /\ UNCHANGED rec

\* Both records are read; a value already stored is not written again.
ScanUnchanged ==
    /\ job.phase = "scan"
    /\ job.next = Best(rec)
    /\ job' = [job EXCEPT !.phase = "done", !.status = "OK"]
    /\ UNCHANGED rec

ScanChanged ==
    /\ job.phase = "scan"
    /\ job.next # Best(rec)
    /\ job' = [job EXCEPT !.phase = "erase", !.target = TargetIndex(rec)]
    /\ UNCHANGED rec

ScanFails ==
    /\ job.phase = "scan"
    /\ job' = [job EXCEPT !.phase = "done", !.status = "IO"]
    /\ UNCHANGED rec

Erase ==
    /\ job.phase = "erase"
    /\ rec' = [rec EXCEPT ![job.target] = Torn]
    /\ job' = [job EXCEPT !.phase = "program"]

\* A failed erase leaves the sector alone or spoils it.
EraseFails ==
    /\ job.phase = "erase"
    /\ \/ UNCHANGED rec
       \/ rec' = [rec EXCEPT ![job.target] = Torn]
    /\ job' = [job EXCEPT !.phase = "done", !.status = "IO"]

Program ==
    /\ job.phase = "program"
    /\ rec' = [rec EXCEPT ![job.target] = RecordOf(job.next)]
    /\ job' = [job EXCEPT !.phase = "done", !.status = "OK"]

\* A failed write leaves a partial record, or all of it.
ProgramFails ==
    /\ job.phase = "program"
    /\ \/ UNCHANGED rec
       \/ rec' = [rec EXCEPT ![job.target] = RecordOf(job.next)]
    /\ job' = [job EXCEPT !.phase = "done", !.status = "IO"]

Return ==
    /\ job.phase = "done"
    /\ job' = IdleJob
    /\ UNCHANGED rec

\* Power fails; a sector being erased may already be spoilt.  A sector being
\* programmed is still Torn: the case of a complete record is Program.
PowerLoss ==
    /\ \/ UNCHANGED rec
       \/ /\ job.phase = "erase"
          /\ rec' = [rec EXCEPT ![job.target] = Torn]
    /\ job' = IdleJob

Step ==
    \/ ScanUnchanged \/ ScanChanged \/ ScanFails
    \/ Erase \/ EraseFails \/ Program \/ ProgramFails

\* Callers read the metadata, change it with operations that each increment
\* metadata_generation, and write the result (WdcBoot shows that they do).
Fresh(m) == m.gen > Best(rec).gen \/ m = Best(rec)

Next ==
    \/ \E m \in Metadata : Fresh(m) /\ Write(m)
    \/ Step
    \/ Return
    \/ PowerLoss

Spec == Init /\ [][Next]_vars

-----------------------------------------------------------------------------
(***************************************************************************)
(* Properties                                                              *)
(***************************************************************************)

\* The two sectors hold a record or nothing readable; a call is in one of the
\* phases of wdc_ota_write_metadata, and has a status exactly when it is done.
TypeOK ==
    /\ rec \in [Index -> Record]
    /\ job \in Job
    /\ job.status # "none" <=> job.phase = "done"
    /\ job.phase = "idle" => job = IdleJob

\* A call of wdc_ota_write_metadata that returned OK is what the next
\* wdc_ota_read_metadata reads, whichever sector it went to.
AckedIsDurable ==
    job.phase = "done" /\ job.status = "OK" => Best(rec) = job.next

\* No step of a write, no driver error and no power loss inside one takes away
\* the last valid record ("Power loss during metadata update recovers one
\* valid record", contract 001).
RecordNeverLost == [][AnyValid(rec) => AnyValid(rec')]_vars

\* The sector does not hold what a reader would be given.
Spare(r, i) == AnyValid(r) => i # BestIndex(r)

\* While a sector is being replaced the other one holds the best record and an
\* older generation than the one to be written.  With TypeOK and
\* AckedIsDurable this is inductive.
TargetIsSpare ==
    /\ job.phase \in {"scan", "erase", "program"}
         => job.next.gen > Best(rec).gen \/ job.next = Best(rec)
    /\ job.phase \in {"erase", "program"}
         => /\ job.next # Best(rec)
            /\ Spare(rec, job.target)
    /\ job.phase = "program" => rec[job.target] = Torn

IInv == TypeOK /\ AckedIsDurable /\ TargetIsSpare

Store == INSTANCE MetadataStore WITH
    cur <- Best(rec),
    call <- [open   |-> job.phase # "idle",
             arg    |-> job.next,
             status |-> job.status]

\* The journal is an atomic store: every step is a step of MetadataStore or
\* leaves the value a reader sees, and the call's outcome, alone.
ImplementsStore == Store!Spec

=============================================================================
