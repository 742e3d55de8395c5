------------------------ MODULE WdcOtaJournalProofs ------------------------
(***************************************************************************)
(* The journal is an atomic store, for any set of metadata values and any  *)
(* generations.  IInv is inductive: what has to be known at each flash     *)
(* operation is that the sector touched is not the one a reader would      *)
(* pick, and that the record about to be written will win over it.         *)
(***************************************************************************)
EXTENDS WdcOtaJournal, TLAPS

\* What a reader sees is always a metadata value.
LEMMA BestType == TypeOK => Best(rec) \in Metadata
BY JournalAssumption DEF TypeOK, Best, BestIndex, AnyValid, Valid, Record, Index

\* Spoiling the spare sector does not change what a reader sees, keeps a valid
\* record if there is one, and leaves the same sector spare.
LEMMA SpareTorn ==
    ASSUME TypeOK, NEW i \in Index, Spare(rec, i),
           NEW r, r = [rec EXCEPT ![i] = Torn]
    PROVE  /\ r \in [Index -> Record]
           /\ Best(r) = Best(rec)
           /\ Spare(r, i)
           /\ AnyValid(rec) => AnyValid(r)
           /\ r[i] = Torn
BY JournalAssumption
   DEF TypeOK, Best, BestIndex, Spare, AnyValid, Valid, Record, Index, Torn

\* Programming the spare sector with a newer value makes that value the one a
\* reader sees.
LEMMA SpareProgrammed ==
    ASSUME TypeOK, NEW i \in Index, Spare(rec, i),
           NEW m \in Metadata, m.gen > Best(rec).gen,
           NEW r, r = [rec EXCEPT ![i] = RecordOf(m)]
    PROVE  /\ r \in [Index -> Record]
           /\ Best(r) = m
           /\ AnyValid(r)
BY JournalAssumption
   DEF TypeOK, Best, BestIndex, Spare, AnyValid, Valid, Record, Index, RecordOf

-----------------------------------------------------------------------------

LEMMA InitInv == Init => IInv
BY JournalAssumption
   DEF Init, IInv, TypeOK, AckedIsDurable, TargetIsSpare, Record, Torn,
       Job, IdleJob, Phases, Index

\* One step per action.
LEMMA StepInv == IInv /\ [Next]_vars => IInv'
<1> SUFFICES ASSUME IInv, [Next]_vars PROVE IInv'
  OBVIOUS
<1> USE DEF IInv
<1>t. Best(rec) \in Metadata /\ Torn \in Record /\ IdleJob \in Job
  BY BestType, JournalAssumption DEF Torn, Record, IdleJob, Job, Phases, Index
<1>1. CASE \E m \in Metadata : Fresh(m) /\ Write(m)
  <2> PICK m \in Metadata : Fresh(m) /\ Write(m)
    BY <1>1
  <2> QED
    BY <1>t DEF Fresh, Write, TypeOK, AckedIsDurable, TargetIsSpare, Best,
       BestIndex, AnyValid, Valid, IdleJob, Job, Phases
<1>2. CASE ScanUnchanged
  BY <1>2, <1>t DEF ScanUnchanged, TypeOK, AckedIsDurable, TargetIsSpare, Job, Phases
<1>3. CASE ScanChanged
  <2>1. TargetIndex(rec) \in Index /\ Spare(rec, TargetIndex(rec))
    BY DEF TargetIndex, Spare, Index
  <2> QED
    BY <1>3, <1>t, <2>1 DEF ScanChanged, TypeOK, AckedIsDurable, TargetIsSpare,
       Job, Phases
<1>4. CASE ScanFails
  BY <1>4, <1>t DEF ScanFails, TypeOK, AckedIsDurable, TargetIsSpare, Job, Phases
<1>5. CASE Erase
  <2>1. /\ rec' \in [Index -> Record]
        /\ Best(rec') = Best(rec)
        /\ Spare(rec', job.target)
        /\ rec'[job.target] = Torn
    BY <1>5, SpareTorn DEF Erase, TypeOK, TargetIsSpare, Job
  <2> QED
    BY <1>5, <2>1 DEF Erase, TypeOK, AckedIsDurable, TargetIsSpare, Job, Phases
<1>6. CASE EraseFails
  <2>1. rec' \in [Index -> Record]
    BY <1>6, SpareTorn DEF EraseFails, TypeOK, TargetIsSpare, Job
  <2> QED
    BY <1>6, <2>1 DEF EraseFails, TypeOK, AckedIsDurable, TargetIsSpare, Job, Phases
<1>7. CASE Program
  <2>1. /\ job.target \in Index /\ Spare(rec, job.target)
        /\ job.next \in Metadata /\ job.next.gen > Best(rec).gen
    BY <1>7 DEF Program, TypeOK, TargetIsSpare, Job
  <2>2. rec' = [rec EXCEPT ![job.target] = RecordOf(job.next)]
    BY <1>7 DEF Program
  <2>3. rec' \in [Index -> Record] /\ Best(rec') = job.next
    BY <2>1, <2>2, SpareProgrammed
  <2> QED
    BY <1>7, <2>3 DEF Program, TypeOK, AckedIsDurable, TargetIsSpare, Job, Phases
<1>8. CASE ProgramFails
  <2>1. rec' \in [Index -> Record]
    <3>1. /\ job.target \in Index /\ Spare(rec, job.target)
          /\ job.next \in Metadata /\ job.next.gen > Best(rec).gen
      BY <1>8 DEF ProgramFails, TypeOK, TargetIsSpare, Job
    <3> QED
      BY <1>8, <3>1, SpareProgrammed DEF ProgramFails, TypeOK
  <2> QED
    BY <1>8, <2>1 DEF ProgramFails, TypeOK, AckedIsDurable, TargetIsSpare, Job, Phases
<1>9. CASE Return
  BY <1>9, <1>t DEF Return, TypeOK, AckedIsDurable, TargetIsSpare, IdleJob
<1>10. CASE PowerLoss
  <2>1. rec' \in [Index -> Record]
    BY <1>10, SpareTorn DEF PowerLoss, TypeOK, TargetIsSpare, Job
  <2> QED
    BY <1>10, <1>t, <2>1 DEF PowerLoss, TypeOK, AckedIsDurable, TargetIsSpare, IdleJob
<1>11. CASE UNCHANGED vars
  BY <1>11 DEF vars, TypeOK, AckedIsDurable, TargetIsSpare
<1> QED
  BY <1>1, <1>2, <1>3, <1>4, <1>5, <1>6, <1>7, <1>8, <1>9, <1>10, <1>11
     DEF Next, Step

\* A step inside a call leaves what a reader sees, or makes it the value being
\* written.
LEMMA StepOutcome ==
    ASSUME IInv, Step
    PROVE  /\ job.phase \in {"scan", "erase", "program"}
           /\ job'.phase # "idle" /\ job'.next = job.next
           /\ Best(rec') \in {Best(rec), job.next}
<1> USE DEF IInv
<1>1. CASE ScanUnchanged \/ ScanChanged \/ ScanFails
  BY <1>1 DEF ScanUnchanged, ScanChanged, ScanFails, TypeOK, Job
<1>2. CASE Erase \/ EraseFails
  <2>1. /\ job.phase = "erase" /\ job'.phase # "idle" /\ job'.next = job.next
        /\ rec' = rec \/ rec' = [rec EXCEPT ![job.target] = Torn]
    BY <1>2 DEF Erase, EraseFails, TypeOK, Job
  <2>2. job.target \in Index /\ Spare(rec, job.target)
    BY <2>1 DEF TypeOK, TargetIsSpare, Job
  <2> QED
    BY <2>1, <2>2, SpareTorn
<1>3. CASE Program \/ ProgramFails
  <2>1. /\ job.phase = "program" /\ job'.phase # "idle" /\ job'.next = job.next
        /\ \/ rec' = rec
           \/ rec' = [rec EXCEPT ![job.target] = RecordOf(job.next)]
    BY <1>3 DEF Program, ProgramFails, TypeOK, Job
  <2>2. /\ job.target \in Index /\ Spare(rec, job.target)
        /\ job.next \in Metadata /\ job.next.gen > Best(rec).gen
    BY <2>1 DEF TypeOK, TargetIsSpare, Job
  <2> QED
    BY <2>1, <2>2, SpareProgrammed
<1> QED
  BY <1>1, <1>2, <1>3 DEF Step

\* Losing power ends the call and changes nothing a reader sees.
LEMMA PowerLossOutcome ==
    ASSUME IInv, PowerLoss
    PROVE  job' = IdleJob /\ Best(rec') = Best(rec)
BY SpareTorn DEF IInv, PowerLoss, TypeOK, TargetIsSpare, Job

\* The inductive invariant: types, durability of acknowledged writes, and that
\* the sector being replaced is never the one a reader would pick.
THEOREM JournalInv == Spec => []IInv
<1> QED
  BY InitInv, StepInv, PTL DEF Spec

\* wdc_ota_write_metadata keeps the types of the flash records and of its
\* locals.
THEOREM JournalTypeOK == Spec => []TypeOK
<1>1. IInv => TypeOK
  BY DEF IInv
<1> QED
  BY <1>1, JournalInv, PTL

\* A write that returned OK is what wdc_ota_read_metadata reads.
THEOREM JournalDurable == Spec => []AckedIsDurable
<1>1. IInv => AckedIsDurable
  BY DEF IInv
<1> QED
  BY <1>1, JournalInv, PTL

\* The sector under replacement is the spare one, and loses to nothing once
\* programmed.
THEOREM JournalSpare == Spec => []TargetIsSpare
<1>1. IInv => TargetIsSpare
  BY DEF IInv
<1> QED
  BY <1>1, JournalInv, PTL

\* No step of wdc_ota_write_metadata, no driver error and no power loss takes
\* away the last valid record.
THEOREM JournalRecordNeverLost == Spec => RecordNeverLost
<1>1. IInv /\ [Next]_vars => [AnyValid(rec) => AnyValid(rec')]_vars
  <2> SUFFICES ASSUME IInv, Next PROVE AnyValid(rec) => AnyValid(rec')
    OBVIOUS
  <2> USE DEF IInv
  <2>1. CASE Erase \/ EraseFails \/ PowerLoss
    BY <2>1, SpareTorn
       DEF Erase, EraseFails, PowerLoss, TypeOK, TargetIsSpare, Job
  <2>2. CASE Program \/ ProgramFails
    BY <2>2, SpareProgrammed DEF Program, ProgramFails, TypeOK, TargetIsSpare, Job
  <2>3. CASE UNCHANGED rec
    BY <2>3
  <2> QED
    BY <2>1, <2>2, <2>3
       DEF Next, Step, Write, ScanUnchanged, ScanChanged, ScanFails, Return
<1> QED
  BY <1>1, JournalInv, PTL DEF RecordNeverLost, Spec

-----------------------------------------------------------------------------
(***************************************************************************)
(* Refinement of MetadataStore.                                            *)
(***************************************************************************)

LEMMA InitStore == Init => Store!Init
<1> SUFFICES ASSUME Init PROVE Store!Init
  OBVIOUS
<1>1. (job.phase # "idle") = FALSE
  BY DEF Init, IdleJob
<1>2. job.next = MetadataInit /\ job.status = "none"
  BY DEF Init, IdleJob
<1>3. Best(rec) = MetadataInit
  BY DEF Init, Best, AnyValid, Valid, Torn, Index
<1> QED
  BY <1>1, <1>2, <1>3 DEF Store!Init, Store!NoCall

\* Every journal step is a step of the store, or one it does not see.
LEMMA StepStore == IInv /\ [Next]_vars => [Store!Next]_(Store!vars)
<1> SUFFICES ASSUME IInv, [Next]_vars
             PROVE  Store!Next \/ UNCHANGED Store!vars
  OBVIOUS
<1> USE DEF IInv
<1>1. CASE \E m \in Metadata : Fresh(m) /\ Write(m)
  <2> PICK m \in Metadata : Fresh(m) /\ Write(m)
    BY <1>1
  <2>1. /\ (job.phase # "idle") = FALSE /\ (job'.phase # "idle") = TRUE
        /\ job'.next = m /\ job'.status = "none" /\ rec' = rec
        /\ m.gen > Best(rec).gen \/ m = Best(rec)
    BY DEF Fresh, Write, IdleJob
  <2>2. Store!Write(m)
    BY <2>1 DEF Store!Write
  <2> QED
    BY <2>2 DEF Store!Next
<1>2. CASE ScanUnchanged \/ ScanFails \/ EraseFails \/ Program \/ ProgramFails
  <2>1. /\ (job.phase # "idle") = TRUE /\ (job'.phase # "idle") = TRUE
        /\ job.status = "none" /\ job'.status \in {"OK", "IO"}
        /\ job'.next = job.next
    BY <1>2 DEF ScanUnchanged, ScanFails, EraseFails, Program, ProgramFails,
       TypeOK, Job, Phases
  <2>2. /\ Best(rec') \in {Best(rec), job.next}
        /\ job'.status = "OK" => Best(rec') = job.next
    <3>1. CASE ScanUnchanged \/ ScanFails
      BY <3>1 DEF ScanUnchanged, ScanFails, TypeOK, Job
    <3>2. CASE EraseFails
      BY <3>2, SpareTorn DEF EraseFails, TypeOK, TargetIsSpare, Job
    <3>3. CASE Program \/ ProgramFails
      <4>1. /\ job.target \in Index /\ Spare(rec, job.target)
            /\ job.next \in Metadata /\ job.next.gen > Best(rec).gen
        BY <3>3 DEF Program, ProgramFails, TypeOK, TargetIsSpare, Job
      <4>2. \/ rec' = rec /\ job'.status = "IO"
            \/ rec' = [rec EXCEPT ![job.target] = RecordOf(job.next)]
        BY <3>3 DEF Program, ProgramFails, TypeOK, Job
      <4> QED
        BY <4>1, <4>2, SpareProgrammed DEF TypeOK
    <3> QED
      BY <1>2, <3>1, <3>2, <3>3
  <2>3. Store!Finish(job'.status)
    BY <2>1, <2>2 DEF Store!Finish
  <2> QED
    BY <2>1, <2>3 DEF Store!Next
<1>3. CASE ScanChanged \/ Erase
  <2>1. /\ (job.phase # "idle") = TRUE /\ (job'.phase # "idle") = TRUE
        /\ job'.status = job.status /\ job'.next = job.next
    BY <1>3 DEF ScanChanged, Erase, TypeOK, Job, Phases
  <2>2. Best(rec') = Best(rec)
    BY <1>3, SpareTorn DEF ScanChanged, Erase, TypeOK, TargetIsSpare, Job
  <2> QED
    BY <2>1, <2>2 DEF Store!vars
<1>4. CASE Return
  <2>1. /\ (job.phase # "idle") = TRUE /\ (job'.phase # "idle") = FALSE
        /\ job.status # "none" /\ job'.status = "none"
        /\ job'.next = MetadataInit /\ rec' = rec
    BY <1>4 DEF Return, TypeOK, IdleJob
  <2>2. Store!Return
    BY <2>1 DEF Store!Return, Store!NoCall
  <2> QED
    BY <2>2 DEF Store!Next
<1>5. CASE PowerLoss
  <2>1. /\ (job'.phase # "idle") = FALSE
        /\ job'.status = "none" /\ job'.next = MetadataInit
    BY <1>5 DEF PowerLoss, IdleJob
  <2>2. Best(rec') = Best(rec)
    BY <1>5, SpareTorn DEF PowerLoss, TypeOK, TargetIsSpare, Job
  <2>3. Store!PowerLoss
    BY <2>1, <2>2 DEF Store!PowerLoss, Store!NoCall
  <2> QED
    BY <2>3 DEF Store!Next
<1>6. CASE UNCHANGED vars
  BY <1>6 DEF vars, Store!vars
<1> QED
  BY <1>1, <1>2, <1>3, <1>4, <1>5, <1>6 DEF Next, Step

\* The journal implements the atomic metadata store its callers rely on.
THEOREM JournalImplementsStore == Spec => ImplementsStore
<1> QED
  BY InitStore, StepStore, JournalInv, PTL DEF Spec, ImplementsStore, Store!Spec

=============================================================================
