--------------------------- MODULE WdcBootProofs ---------------------------
(***************************************************************************)
(* Proofs about the boot path (WdcBoot).                                   *)
(***************************************************************************)
EXTENDS WdcBoot, TLAPS

-----------------------------------------------------------------------------
(***************************************************************************)
(* What the metadata operations return.                                    *)
(***************************************************************************)

\* The active slot of m is not waiting for its trial.
NotPending(m) == m.active \in Slots => m.slot[m.active].state # "pending"

\* n describes the same bundles as m and confirms none that m does not.
ConfirmsNoMore(m, n) ==
    \A s \in Slots : /\ n.slot[s].bundle = m.slot[s].bundle
                     /\ n.slot[s].state = "confirmed"
                          => m.slot[s].state = "confirmed"

\* wdc_bundle_metadata_init returns a metadata record.
LEMMA MetadataInitType == MetadataInit \in Metadata
BY DEF MetadataInit, Metadata, SlotRecord, Slots, NoSlot, SlotStates, Reasons

\* The types of the fields of WdcBundleMetadataV1.
LEMMA MetadataType ==
    ASSUME NEW m \in Metadata
    PROVE  /\ m.active \in Slots \cup {NoSlot} /\ m.lastGood \in Slots \cup {NoSlot}
           /\ m.slot \in [Slots -> SlotRecord] /\ m.boots \in Nat
           /\ m.faults \in Nat /\ m.reason \in Reasons /\ m.gen \in Nat
           /\ m.gen + 1 \in Nat /\ m.faults + 1 \in Nat /\ m.boots + 1 \in Nat
           /\ "OK" \in Reasons /\ NoSlot \notin Slots
<1>1. m.boots \in Nat /\ m.faults \in Nat /\ m.gen \in Nat
  BY DEF Metadata
<1> QED
  BY <1>1 DEF Metadata, Reasons, Slots, NoSlot

\* Choosing the active slot changes nothing else.
LEMMA ChooseActive ==
    ASSUME NEW m \in Metadata, NEW a \in Slots \cup {NoSlot},
           NEW n, n = [m EXCEPT !.active = a]
    PROVE  /\ n \in Metadata
           /\ n.active = a /\ n.lastGood = m.lastGood
           /\ n.slot = m.slot /\ n.gen = m.gen
BY DEF Metadata

\* rollback_to_last_good: the next generation, no slot newly confirmed, and
\* what becomes active is confirmed or nothing.
LEMMA RollbackFacts ==
    ASSUME NEW m \in Metadata, NEW s \in Slots, NEW reason \in Reasons
    PROVE  LET r == RollbackToLastGood(m, s, reason)
           IN  /\ r.meta \in Metadata
               /\ r.decision \in Decisions
               /\ r.decision.changed /\ ~r.decision.probation
               /\ r.meta.gen = m.gen + 1
               /\ ConfirmsNoMore(m, r.meta)
               /\ NotPending(r.meta)
<1>1. /\ m.slot \in [Slots -> SlotRecord] /\ m.lastGood \in Slots \cup {NoSlot}
      /\ m.gen + 1 \in Nat /\ m.faults + 1 \in Nat
      /\ "failed" \in SlotStates /\ NoSlot \notin Slots
  BY MetadataType DEF SlotStates
<1>2. PICK slot : slot = [m.slot EXCEPT ![s].state = "failed"]
  OBVIOUS
<1>3. /\ slot \in [Slots -> SlotRecord]
      /\ \A x \in Slots : /\ slot[x].bundle = m.slot[x].bundle
                          /\ slot[x].state = IF x = s THEN "failed"
                                                      ELSE m.slot[x].state
  BY <1>1, <1>2 DEF SlotRecord
<1>4. PICK f : f = [m EXCEPT !.slot = slot, !.faults = @ + 1, !.reason = reason,
                             !.gen = @ + 1]
  OBVIOUS
<1>5. /\ f \in Metadata /\ f.slot = slot /\ f.gen = m.gen + 1
      /\ f.lastGood = m.lastGood
  BY <1>1, <1>3, <1>4 DEF Metadata
<1>6. f = [m EXCEPT !.slot[s].state = "failed", !.faults = @ + 1,
                    !.reason = reason, !.gen = @ + 1]
  BY <1>2, <1>4 DEF Metadata
<1>7. CASE FallbackIsValid(f)
  <2>1. f.lastGood \in Slots /\ slot[f.lastGood].state = "confirmed"
    BY <1>7, <1>5 DEF FallbackIsValid, SlotIsConfirmed
  <2>2. PICK n : n = [f EXCEPT !.active = f.lastGood]
    OBVIOUS
  <2>3. /\ n \in Metadata /\ n.active = f.lastGood
        /\ n.slot = slot /\ n.gen = m.gen + 1
    BY <1>5, <2>1, <2>2, ChooseActive
  <2>4. PICK d : d = Decision("rollback_to_last_good", f.lastGood, FALSE, TRUE)
    OBVIOUS
  <2>5. d \in Decisions /\ d.changed /\ ~d.probation
    BY <2>1, <2>4 DEF Decision, Decisions, DecisionKinds
  <2>6. RollbackToLastGood(m, s, reason) = [meta |-> n, decision |-> d]
    BY <1>6, <1>7, <2>2, <2>4 DEF RollbackToLastGood
  <2> QED
    BY <1>3, <2>1, <2>3, <2>5, <2>6 DEF ConfirmsNoMore, NotPending
<1>8. CASE ~FallbackIsValid(f)
  <2>1. PICK n : n = [f EXCEPT !.active = NoSlot]
    OBVIOUS
  <2>2. /\ n \in Metadata /\ n.active = NoSlot
        /\ n.slot = slot /\ n.gen = m.gen + 1
    BY <1>5, <2>1, ChooseActive
  <2>3. PICK d : d = Decision("fault_no_fallback", NoSlot, FALSE, TRUE)
    OBVIOUS
  <2>4. d \in Decisions /\ d.changed /\ ~d.probation
    BY <2>3 DEF Decision, Decisions, DecisionKinds
  <2>5. RollbackToLastGood(m, s, reason) = [meta |-> n, decision |-> d]
    BY <1>6, <1>8, <2>1, <2>3 DEF RollbackToLastGood
  <2> QED
    BY <1>1, <1>3, <2>2, <2>4, <2>5 DEF ConfirmsNoMore, NotPending
<1> QED
  BY <1>7, <1>8

\* wdc_activation_on_boot changes the metadata exactly when it says so, and
\* then to the next generation; a probation run is of the active slot, which
\* is recorded as started, and (under the default policy) was waiting.
LEMMA OnBootFacts ==
    ASSUME NEW m \in Metadata
    PROVE  LET r == OnBoot(m)
               d == r.decision
           IN  /\ r.meta \in Metadata
               /\ d \in Decisions
               /\ IF d.changed THEN r.meta.gen = m.gen + 1 ELSE r.meta = m
               /\ ConfirmsNoMore(m, r.meta)
               /\ NotPending(r.meta)
               /\ d.probation => /\ d.slot \in Slots
                                 /\ r.meta.active = d.slot
                                 /\ r.meta.slot[d.slot].state = "running_pending"
                                 /\ FailRunningOnBoot =>
                                       /\ m.active = d.slot
                                       /\ m.slot[d.slot].state = "pending"
<1>1. /\ m.slot \in [Slots -> SlotRecord] /\ m.boots \in Nat /\ m.gen \in Nat
      /\ m.lastGood \in Slots \cup {NoSlot} /\ m.active \in Slots \cup {NoSlot}
      /\ m.gen + 1 \in Nat /\ m.boots + 1 \in Nat
      /\ "running_pending" \in SlotStates /\ NoSlot \notin Slots
  BY MetadataType DEF SlotStates
<1>2. CASE m.active = NoSlot
  <2>0. OnBoot(m) = OnBootNoActive(m)
    BY <1>1, <1>2 DEF OnBoot
  <2>1. CASE FallbackIsValid(m)
    <3>0. PICK n : n = [m EXCEPT !.active = m.lastGood, !.gen = @ + 1]
      OBVIOUS
    <3>1. m.lastGood \in Slots /\ m.slot[m.lastGood].state = "confirmed"
      BY <2>1 DEF FallbackIsValid, SlotIsConfirmed
    <3>2. /\ n \in Metadata /\ n.slot = m.slot /\ n.active = m.lastGood
          /\ n.gen = m.gen + 1
      BY <1>1, <3>0, <3>1 DEF Metadata
    <3>3. OnBoot(m) = [meta |-> n, decision |->
                       Decision("run_confirmed", m.lastGood, FALSE, TRUE)]
      BY <2>0, <2>1, <3>0 DEF OnBootNoActive
    <3>4. Decision("run_confirmed", m.lastGood, FALSE, TRUE) \in Decisions
      BY <3>1 DEF Decision, Decisions, DecisionKinds
    <3> QED
      BY <3>1, <3>2, <3>3, <3>4 DEF ConfirmsNoMore, NotPending, Decision
  <2>2. CASE ~FallbackIsValid(m)
    <3>1. OnBoot(m) = [meta |-> m, decision |->
                       Decision("no_bundle", NoSlot, FALSE, FALSE)]
      BY <2>0, <2>2 DEF OnBootNoActive
    <3>2. Decision("no_bundle", NoSlot, FALSE, FALSE) \in Decisions
      BY DEF Decision, Decisions, DecisionKinds
    <3> QED
      BY <1>1, <1>2, <3>1, <3>2 DEF ConfirmsNoMore, NotPending, Decision
  <2> QED
    BY <2>1, <2>2
<1>3. CASE m.active \in Slots /\ m.slot[m.active].state = "confirmed"
  <2>0. OnBoot(m) = OnBootConfirmed(m)
    BY <1>1, <1>3 DEF OnBoot
  <2>1. CASE m.lastGood # m.active
    <3>0. PICK n : n = [m EXCEPT !.lastGood = m.active, !.gen = @ + 1]
      OBVIOUS
    <3>1. /\ n \in Metadata /\ n.slot = m.slot /\ n.active = m.active
          /\ n.gen = m.gen + 1
      BY <1>1, <1>3, <3>0 DEF Metadata
    <3>2. OnBoot(m) = [meta |-> n, decision |->
                       Decision("run_confirmed", m.active, FALSE, TRUE)]
      BY <2>0, <2>1, <3>0 DEF OnBootConfirmed
    <3>3. Decision("run_confirmed", m.active, FALSE, TRUE) \in Decisions
      BY <1>3 DEF Decision, Decisions, DecisionKinds
    <3> QED
      BY <1>3, <3>1, <3>2, <3>3 DEF ConfirmsNoMore, NotPending, Decision
  <2>2. CASE m.lastGood = m.active
    <3>1. OnBoot(m) = [meta |-> m, decision |->
                       Decision("run_confirmed", m.active, FALSE, FALSE)]
      BY <2>0, <2>2 DEF OnBootConfirmed
    <3>2. Decision("run_confirmed", m.active, FALSE, FALSE) \in Decisions
      BY <1>3 DEF Decision, Decisions, DecisionKinds
    <3> QED
      BY <1>3, <3>1, <3>2 DEF ConfirmsNoMore, NotPending, Decision
  <2> QED
    BY <2>1, <2>2
<1>r. /\ "TIMEOUT" \in Reasons /\ "NOT_SYNCHRONIZED" \in Reasons
      /\ "INVALID_STATE" \in Reasons
  BY DEF Reasons
<1>4. CASE m.active \in Slots /\ m.slot[m.active].state = "pending"
  <2>0. OnBoot(m) = OnBootPending(m)
    BY <1>1, <1>4 DEF OnBoot
  <2>1. CASE m.boots >= BootBudget
    <3>1. OnBoot(m) = RollbackToLastGood(m, m.active, "TIMEOUT")
      BY <2>0, <2>1 DEF OnBootPending
    <3> QED
      BY <1>4, <1>r, <3>1, RollbackFacts
  <2>2. CASE ~(m.boots >= BootBudget)
    <3>1. PICK slot : slot = [m.slot EXCEPT ![m.active].state = "running_pending"]
      OBVIOUS
    <3>2. /\ slot \in [Slots -> SlotRecord]
          /\ \A x \in Slots : /\ slot[x].bundle = m.slot[x].bundle
                              /\ slot[x].state = IF x = m.active
                                                 THEN "running_pending"
                                                 ELSE m.slot[x].state
      BY <1>1, <1>4, <3>1 DEF SlotRecord
    <3>3. PICK n : n = [m EXCEPT !.boots = @ + 1, !.slot = slot, !.gen = @ + 1]
      OBVIOUS
    <3>4. /\ n \in Metadata /\ n.slot = slot /\ n.active = m.active
          /\ n.gen = m.gen + 1
      BY <1>1, <3>2, <3>3 DEF Metadata
    <3>5. n = [m EXCEPT !.boots = @ + 1,
                        !.slot[m.active].state = "running_pending",
                        !.gen = @ + 1]
      BY <3>1, <3>3 DEF Metadata
    <3>6. PICK d : d = Decision("run_candidate", m.active, TRUE, TRUE)
      OBVIOUS
    <3>7. /\ d \in Decisions /\ d.slot = m.active /\ d.probation /\ d.changed
      BY <1>4, <3>6 DEF Decision, Decisions, DecisionKinds
    <3>8. OnBoot(m) = [meta |-> n, decision |-> d]
      BY <2>0, <2>2, <3>5, <3>6 DEF OnBootPending
    <3> QED
      BY <1>4, <3>2, <3>4, <3>7, <3>8 DEF ConfirmsNoMore, NotPending
  <2> QED
    BY <2>1, <2>2
<1>5. CASE m.active \in Slots /\ m.slot[m.active].state = "running_pending"
  <2>0. OnBoot(m) = OnBootRunningPending(m)
    BY <1>1, <1>5 DEF OnBoot
  <2>1. CASE FailRunningOnBoot
    <3>1. OnBoot(m) = RollbackToLastGood(m, m.active, "NOT_SYNCHRONIZED")
      BY <2>0, <2>1 DEF OnBootRunningPending
    <3> QED
      BY <1>5, <1>r, <3>1, RollbackFacts
  <2>2. CASE ~FailRunningOnBoot
    <3> DEFINE d == Decision("run_candidate", m.active, TRUE, FALSE)
    <3>1. OnBoot(m) = [meta |-> m, decision |-> d]
      BY <2>0, <2>2 DEF OnBootRunningPending
    <3>2. /\ d \in Decisions /\ d.slot = m.active /\ d.changed = FALSE
      BY <1>5 DEF Decision, Decisions, DecisionKinds
    <3> HIDE DEF d
    <3> QED
      BY <1>5, <2>2, <3>1, <3>2 DEF ConfirmsNoMore, NotPending
  <2> QED
    BY <2>1, <2>2
<1>6. CASE /\ m.active \in Slots
           /\ m.slot[m.active].state \notin {"confirmed", "pending", "running_pending"}
  <2>1. OnBoot(m) = RollbackToLastGood(m, m.active, "INVALID_STATE")
    BY <1>1, <1>6 DEF OnBoot
  <2> QED
    BY <1>6, <1>r, <2>1, RollbackFacts
<1> QED
  BY <1>1, <1>2, <1>3, <1>4, <1>5, <1>6

\* wdc_activation_confirm confirms the slot it is given and no other.
LEMMA ConfirmFacts ==
    ASSUME NEW m \in Metadata, NEW s \in Slots
    PROVE  LET n == Confirm(m, s)
           IN  /\ n \in Metadata
               /\ n.gen = m.gen + 1
               /\ n.active = m.active
               /\ n.slot[s].state = "confirmed"
               /\ \A x \in Slots : /\ n.slot[x].bundle = m.slot[x].bundle
                                   /\ x # s => n.slot[x] = m.slot[x]
<1>1. /\ m.slot \in [Slots -> SlotRecord] /\ m.gen + 1 \in Nat
      /\ "OK" \in Reasons /\ "confirmed" \in SlotStates
  BY MetadataType DEF SlotStates
<1>2. PICK slot : slot = [m.slot EXCEPT ![s].state = "confirmed"]
  OBVIOUS
<1>3. /\ slot \in [Slots -> SlotRecord] /\ slot[s].state = "confirmed"
      /\ \A x \in Slots : /\ slot[x].bundle = m.slot[x].bundle
                          /\ x # s => slot[x] = m.slot[x]
  BY <1>1, <1>2 DEF SlotRecord
<1>4. PICK n : n = [m EXCEPT !.slot = slot, !.lastGood = s, !.boots = 0,
                             !.faults = 0, !.reason = "OK", !.gen = @ + 1]
  OBVIOUS
<1>5. /\ n \in Metadata /\ n.active = m.active /\ n.slot = slot
      /\ n.gen = m.gen + 1
  BY <1>1, <1>3, <1>4 DEF Metadata
<1>6. Confirm(m, s) = n
  BY <1>2, <1>4 DEF Confirm, Metadata
<1> QED
  BY <1>3, <1>5, <1>6

\* wdc_activation_prepare_pending confirms nothing and makes the slot active.
LEMMA PrepareFacts ==
    ASSUME NEW m \in Metadata, NEW s \in Slots
    PROVE  LET n == PreparePending(m, s)
           IN  /\ n \in Metadata
               /\ n.gen = m.gen + 1
               /\ n.active = s
               /\ ConfirmsNoMore(m, n)
<1>1. /\ m.slot \in [Slots -> SlotRecord] /\ m.gen + 1 \in Nat
      /\ m.active \in Slots \cup {NoSlot} /\ m.lastGood \in Slots \cup {NoSlot}
      /\ "OK" \in Reasons /\ "pending" \in SlotStates
  BY MetadataType DEF SlotStates
<1>2. PICK slot : slot = [m.slot EXCEPT ![s].state = "pending"]
  OBVIOUS
<1>3. /\ slot \in [Slots -> SlotRecord]
      /\ \A x \in Slots : /\ slot[x].bundle = m.slot[x].bundle
                          /\ slot[x].state = IF x = s THEN "pending"
                                                      ELSE m.slot[x].state
  BY <1>1, <1>2 DEF SlotRecord
<1>4. PICK l \in Slots \cup {NoSlot} :
         l = IF SlotIsConfirmed(m, m.active) THEN m.active ELSE m.lastGood
  BY <1>1
<1>5. PICK n : n = [m EXCEPT !.lastGood = l, !.slot = slot, !.active = s,
                             !.boots = 0, !.faults = 0, !.reason = "OK",
                             !.gen = @ + 1]
  OBVIOUS
<1>6. n \in Metadata /\ n.active = s /\ n.slot = slot /\ n.gen = m.gen + 1
  BY <1>1, <1>3, <1>5 DEF Metadata
<1>7. PreparePending(m, s) = n
  BY <1>2, <1>4, <1>5 DEF PreparePending, Metadata
<1> QED
  BY <1>3, <1>6, <1>7 DEF ConfirmsNoMore

\* wdc_bundle_metadata_mark_verified rewrites one slot record.
LEMMA MarkFacts ==
    ASSUME NEW m \in Metadata, NEW s \in Slots, NEW b \in Bundle
    PROVE  LET n == MarkVerified(m, s, b)
           IN  /\ n \in Metadata
               /\ n.gen = m.gen + 1
               /\ n.active = m.active
               /\ n.slot[s].state = "verified"
               /\ \A x \in Slots : x # s => n.slot[x] = m.slot[x]
<1>1. /\ m.slot \in [Slots -> SlotRecord] /\ m.gen + 1 \in Nat
      /\ "verified" \in SlotStates
  BY MetadataType DEF SlotStates
<1>2. PICK slot : slot = [m.slot EXCEPT ![s] = [state |-> "verified", bundle |-> b]]
  OBVIOUS
<1>3. /\ slot \in [Slots -> SlotRecord] /\ slot[s].state = "verified"
      /\ \A x \in Slots : x # s => slot[x] = m.slot[x]
  BY <1>1, <1>2 DEF SlotRecord
<1>4. PICK n : n = [m EXCEPT !.slot = slot, !.gen = @ + 1]
  OBVIOUS
<1>5. /\ n \in Metadata /\ n.active = m.active /\ n.slot = slot
      /\ n.gen = m.gen + 1
  BY <1>1, <1>3, <1>4 DEF Metadata
<1>6. MarkVerified(m, s, b) = n
  BY <1>2, <1>4 DEF MarkVerified, Metadata
<1> QED
  BY <1>3, <1>5, <1>6

-----------------------------------------------------------------------------
(***************************************************************************)
(* The journal, as the boot path uses it.                                  *)
(***************************************************************************)

JP == INSTANCE WdcOtaJournalProofs

\* The journal's parameters are as it assumes.
LEMMA JournalAssumptionHolds == JP!JournalAssumption
BY MetadataInitType DEF JP!JournalAssumption, Metadata

\* The two instances of the journal are the same module.
LEMMA SameInv ==
    /\ Journal!IInv <=> JP!IInv
    /\ Journal!IInv' <=> JP!IInv'
BY DEF Journal!IInv, JP!IInv, Journal!TypeOK, JP!TypeOK,
   Journal!AckedIsDurable, JP!AckedIsDurable, Journal!TargetIsSpare,
   JP!TargetIsSpare, Journal!Spare, JP!Spare, Journal!Best, JP!Best,
   Journal!BestIndex, JP!BestIndex, Journal!AnyValid, JP!AnyValid,
   Journal!Valid, JP!Valid, Journal!Index, JP!Index, Journal!Record,
   JP!Record, Journal!Job, JP!Job, Journal!Phases, JP!Phases, Journal!Torn,
   JP!Torn, Journal!IdleJob, JP!IdleJob

\* In both a reader sees the same value ...
LEMMA SameBest == \A r : Journal!Best(r) = JP!Best(r)
BY DEF Journal!Best, JP!Best, Journal!BestIndex, JP!BestIndex,
   Journal!AnyValid, JP!AnyValid, Journal!Valid, JP!Valid

\* ... and the steps are the same.
LEMMA SameSteps ==
    /\ Journal!Step => JP!Step
    /\ Journal!Return => JP!Return
    /\ Journal!PowerLoss => JP!PowerLoss
    /\ \A m : Journal!Write(m) => JP!Write(m)
    /\ Journal!IdleJob = JP!IdleJob
BY SameBest DEF Journal!Step, JP!Step, Journal!Return, JP!Return,
   Journal!PowerLoss, JP!PowerLoss, Journal!Write, JP!Write,
   Journal!ScanUnchanged, JP!ScanUnchanged, Journal!ScanChanged, JP!ScanChanged,
   Journal!ScanFails, JP!ScanFails, Journal!Erase, JP!Erase,
   Journal!EraseFails, JP!EraseFails, Journal!Program, JP!Program,
   Journal!ProgramFails, JP!ProgramFails, Journal!TargetIndex, JP!TargetIndex,
   Journal!BestIndex, JP!BestIndex, Journal!AnyValid, JP!AnyValid,
   Journal!Valid, JP!Valid, Journal!Torn, JP!Torn, Journal!RecordOf,
   JP!RecordOf, Journal!IdleJob, JP!IdleJob

\* What a reader sees is a metadata record, and its floor is a counter.
LEMMA StoredType ==
    ASSUME Journal!IInv
    PROVE  /\ Stored \in Metadata
           /\ PolicyFloor(Stored) \in Nat
<1>1. Stored \in Metadata
  BY SameInv, SameBest, JP!BestType, JournalAssumptionHolds DEF JP!IInv, Stored
<1>2. \A s \in Slots : /\ Stored.slot[s].bundle \in Bundle \cup {NoBundle}
                       /\ SecurityCounter(Stored.slot[s]) \in Nat
  BY <1>1, MetadataType, BundleAssumption DEF SlotRecord, SecurityCounter
<1>3. SecurityFloor(Stored) \in Nat
  BY <1>2 DEF SecurityFloor, Slots
<1> QED
  BY <1>1, <1>3 DEF PolicyFloor

\* A call of wdc_ota_write_metadata with a newer record starts.
LEMMA JournalWrite ==
    ASSUME Journal!IInv, NEW m \in Metadata, m.gen > Stored.gen,
           Journal!Write(m)
    PROVE  /\ Journal!IInv' /\ Stored' = Stored
           /\ job.phase = "idle" /\ job'.phase = "scan" /\ job'.next = m
<1>1. JP!Write(m) /\ JP!Fresh(m)
  BY SameSteps, SameBest DEF JP!Fresh, Stored
<1>2. Journal!IInv'
  BY <1>1, SameInv, JP!StepInv, JournalAssumptionHolds DEF JP!Next
<1> QED
  BY <1>2 DEF Journal!Write, Journal!IdleJob, Stored

\* It takes one of its steps.
LEMMA JournalStep ==
    ASSUME Journal!IInv, Journal!Step
    PROVE  /\ Journal!IInv'
           /\ Writing /\ job'.phase # "idle" /\ job'.next = job.next
           /\ Stored' \in {Stored, job.next}
<1>1. JP!IInv /\ JP!Step
  BY SameInv, SameSteps
<1>2. Journal!IInv'
  BY <1>1, SameInv, JP!StepInv, JournalAssumptionHolds DEF JP!Next
<1>3. /\ job.phase \in {"scan", "erase", "program"}
      /\ job'.phase # "idle" /\ job'.next = job.next
      /\ JP!Best(rec') \in {JP!Best(rec), job.next}
  BY <1>1, JP!StepOutcome, JournalAssumptionHolds
<1> QED
  BY <1>2, <1>3, SameBest DEF Stored, Writing

\* It returns, with the value stored if it says so.
LEMMA JournalReturn ==
    ASSUME Journal!IInv, Journal!Return
    PROVE  /\ Journal!IInv' /\ Stored' = Stored
           /\ job.phase = "done" /\ job'.phase = "idle"
           /\ job.status = "OK" => Stored = job.next
<1>1. JP!IInv /\ JP!Return
  BY SameInv, SameSteps
<1>2. Journal!IInv'
  BY <1>1, SameInv, JP!StepInv, JournalAssumptionHolds DEF JP!Next
<1> QED
  BY <1>2 DEF Journal!Return, Journal!IdleJob, Stored, Journal!IInv,
     Journal!AckedIsDurable

\* It is cut off.
LEMMA JournalPowerLoss ==
    ASSUME Journal!IInv, Journal!PowerLoss
    PROVE  /\ Journal!IInv' /\ Stored' = Stored
           /\ job'.phase = "idle"
<1>1. JP!IInv /\ JP!PowerLoss
  BY SameInv, SameSteps
<1>2. Journal!IInv'
  BY <1>1, SameInv, JP!StepInv, JournalAssumptionHolds DEF JP!Next
<1>3. job' = JP!IdleJob /\ JP!Best(rec') = JP!Best(rec)
  BY <1>1, JP!PowerLossOutcome, JournalAssumptionHolds
<1> QED
  BY <1>2, <1>3, SameBest DEF Stored, JP!IdleJob

\* It is not running, or does nothing.
LEMMA JournalIdle ==
    ASSUME Journal!IInv, UNCHANGED <<rec, job>>
    PROVE  Journal!IInv' /\ Stored' = Stored
<1>1. JP!IInv /\ UNCHANGED JP!vars
  BY SameInv DEF JP!vars
<1>2. Journal!IInv'
  BY <1>1, SameInv, JP!StepInv, JournalAssumptionHolds
<1> QED
  BY <1>2 DEF Stored

-----------------------------------------------------------------------------
(***************************************************************************)
(* The inductive invariant.                                                *)
(***************************************************************************)

\* The boot path's locals, before and after it runs.
LEMMA LocalsType == MetadataInit \in Metadata /\ NoDecision \in Decisions
BY MetadataInitType
   DEF NoDecision, Decision, Decisions, DecisionKinds

\* A power-on device satisfies it.
LEMMA BootInitInv == Init => IInv
<1> SUFFICES ASSUME Init PROVE IInv
  OBVIOUS
<1>1. JP!Init
  BY DEF Init, Journal!Init, JP!Init, Journal!Index, JP!Index, Journal!Torn,
     JP!Torn, Journal!IdleJob, JP!IdleJob
<1>2. Journal!IInv
  BY <1>1, SameInv, JP!InitInv, JournalAssumptionHolds
<1>3. Stored = MetadataInit /\ job.phase = "idle"
  BY DEF Init, Stored, Journal!Init, Journal!Best, Journal!AnyValid,
     Journal!Valid, Journal!Torn, Journal!Index, Journal!IdleJob
<1>4. /\ Stored.active \notin Slots
      /\ \A s \in Slots : Stored.slot[s].state # "confirmed"
  BY <1>3 DEF MetadataInit, Slots, NoSlot
<1>5. TypeOK
  BY <1>2, LocalsType, BootAssumption
     DEF Init, TypeOK, Journal!IInv, PCs, AppStates
<1>6. BootShape
  BY <1>3 DEF Init, BootShape
<1>7. TrialsCounted
  BY <1>3, <1>4 DEF Init, TrialsCounted, PendingUntried, Writing
<1>8. ConfirmationsProven
  BY <1>3, <1>4 DEF Init, ConfirmationsProven, ConfirmedProven, Writing
<1> QED
  BY <1>2, <1>5, <1>6, <1>7, <1>8 DEF IInv

\* What a write may carry: it confirms nothing unproven, and if it leaves a
\* slot waiting that slot has not run.
Storable(m) ==
    /\ m \in Metadata
    /\ m.gen > Stored.gen
    /\ ConfirmedProven(m)
    /\ FailRunningOnBoot => PendingUntried(m)

\* The operations of wdc_activation.c that neither prepare nor confirm a slot
\* return such a record.
LEMMA StorableNoMore ==
    ASSUME IInv, NEW m \in Metadata, m.gen = Stored.gen + 1,
           ConfirmsNoMore(Stored, m), NotPending(m)
    PROVE  Storable(m)
<1>1. Stored.gen \in Nat
  BY StoredType, MetadataType DEF IInv
<1> QED
  BY <1>1 DEF IInv, Storable, ConfirmationsProven, ConfirmedProven,
     ConfirmsNoMore, NotPending, PendingUntried

\* What starting, running, ending or losing a write does to the parts of the
\* invariant that speak of the history, when the history itself stays.
LEMMA HistoryKept ==
    ASSUME IInv, UNCHANGED history,
           Stored' = Stored \/ (Writing /\ Stored' = job.next),
           \/ Writing' => Writing /\ job'.next = job.next
           \/ Storable(job'.next)
    PROVE  /\ ConfirmationsProven'
           /\ FailRunningOnBoot =>
                /\ \A s \in Slots : tries'[s] <= 1
                /\ PendingUntried(Stored)'
                /\ Writing' => PendingUntried(job.next)'
<1>1. tries' = tries /\ proven' = proven
  BY DEF history
<1>2. ConfirmationsProven'
  BY <1>1 DEF IInv, ConfirmationsProven, ConfirmedProven, Storable
<1>3. ASSUME FailRunningOnBoot
      PROVE  /\ \A s \in Slots : tries'[s] <= 1
             /\ PendingUntried(Stored)'
             /\ Writing' => PendingUntried(job.next)'
  BY <1>1, <1>3 DEF IInv, TrialsCounted, PendingUntried, Storable
<1> QED
  BY <1>2, <1>3

\* fail_runtime, from either of the two places it is called in.
LEMMA FailRuntimeInv ==
    ASSUME IInv, pc \in {"decided", "executing"}, dec.slot \in Slots,
           NEW reason \in Reasons, FailRuntime(reason)
    PROVE  IInv'
<1>1. /\ Stored \in Metadata /\ ram = Stored /\ job.phase = "idle"
      /\ ~Writing /\ UNCHANGED history
  BY StoredType DEF IInv, BootShape, Writing, FailRuntime
<1>2. CASE ram' = RecordFault(ram, dec.slot, reason).meta /\ Journal!Write(ram')
           /\ pc' = "faulting" /\ UNCHANGED <<dec, floor>>
  <2>1. Storable(ram')
    BY <1>1, <1>2, RollbackFacts, StorableNoMore DEF RecordFault
  <2>2. /\ Journal!IInv' /\ Stored' = Stored
        /\ job'.phase = "scan" /\ job'.next = ram'
    BY <1>2, <2>1, JournalWrite DEF IInv, Storable
  <2>3. TypeOK'
    BY <1>2, <2>1, <2>2 DEF IInv, TypeOK, Storable, FailRuntime, Journal!IInv,
       PCs, AppStates, history
  <2>4. BootShape'
    BY <1>2, <2>2 DEF BootShape
  <2>5. ConfirmationsProven' /\ TrialsCounted'
    BY <1>1, <1>2, <2>1, <2>2, HistoryKept DEF TrialsCounted
  <2> QED
    BY <2>2, <2>3, <2>4, <2>5 DEF IInv
<1>3. CASE UNCHANGED <<rec, job>> /\ BootReturns
  <2>1. Journal!IInv' /\ Stored' = Stored
    BY <1>3, JournalIdle DEF IInv
  <2>2. TypeOK'
    BY <1>3, <2>1, LocalsType DEF IInv, TypeOK, FailRuntime, BootReturns,
       Journal!IInv, PCs, AppStates, history
  <2>3. BootShape'
    BY <1>1, <1>3 DEF BootShape, BootReturns
  <2>4. ConfirmationsProven' /\ TrialsCounted'
    BY <1>1, <1>3, <2>1, HistoryKept DEF TrialsCounted, Writing, BootReturns
  <2> QED
    BY <2>1, <2>2, <2>3, <2>4 DEF IInv
<1> QED
  BY <1>2, <1>3 DEF FailRuntime

\* Steps that leave the flash and the history alone and end the boot path,
\* start it over, or do not move it.
LEMMA QuietInv ==
    ASSUME IInv, UNCHANGED <<rec, job, history>>,
           \/ BootReadFails \/ NoBundleMode \/ GuestDrivesOutput \/ Reboot
           \/ \E s \in Slots : EraseImage(s)
           \/ \E s \in Slots, b \in Bundle : DownloadImage(s, b)
           \/ UNCHANGED vars
    PROVE  IInv'
<1>1. Journal!IInv' /\ Stored' = Stored /\ UNCHANGED history
  BY JournalIdle DEF IInv
<1>2. ConfirmationsProven' /\ (pc' = pc /\ dec' = dec => TrialsCounted')
      /\ (pc' \notin {"deciding", "decided"} => TrialsCounted')
  BY <1>1, HistoryKept DEF TrialsCounted, IInv, Writing, history
<1>3. CASE BootReadFails \/ NoBundleMode \/ Reboot
  <2>1. pc' \in {"off", "up"} /\ pc \in {"off", "up", "decided"}
    BY <1>3 DEF BootReadFails, NoBundleMode, Reboot, BootReturns, Restart
  <2>2. TypeOK'
    BY <1>1, <1>3, LocalsType DEF IInv, TypeOK, Journal!IInv, PCs, AppStates,
       BootReadFails, NoBundleMode, Reboot, BootReturns, Restart, flash, history
  <2>3. BootShape'
    BY <2>1 DEF IInv, BootShape
  <2> QED
    BY <1>1, <1>2, <2>1, <2>2, <2>3 DEF IInv
<1>4. CASE GuestDrivesOutput \/ UNCHANGED vars
  <2>1. /\ UNCHANGED <<image, pc, ram, dec, floor, app, installs, tries, proven>>
        /\ outputs' \in {"unsafe", outputs}
    BY <1>4 DEF GuestDrivesOutput, vars, flash, locals, history
  <2>2. TypeOK'
    BY <1>1, <2>1 DEF IInv, TypeOK, Journal!IInv
  <2>3. BootShape'
    BY <1>1, <2>1 DEF IInv, BootShape
  <2> QED
    BY <1>1, <1>2, <2>1, <2>2, <2>3 DEF IInv
<1>5. CASE \/ \E s \in Slots : EraseImage(s)
           \/ \E s \in Slots, b \in Bundle : DownloadImage(s, b)
  <2>1. /\ UNCHANGED <<pc, ram, dec, floor, app, outputs, installs, tries, proven>>
        /\ pc = "up"
        /\ \E s \in Slots, b \in Bundle \cup {NoBundle} :
               image' = [image EXCEPT ![s] = b]
    BY <1>5 DEF EraseImage, DownloadImage, locals, history
  <2>2. TypeOK'
    BY <1>1, <2>1 DEF IInv, TypeOK, Journal!IInv
  <2>3. BootShape'
    BY <1>1, <2>1 DEF IInv, BootShape
  <2> QED
    BY <1>1, <1>2, <2>1, <2>2, <2>3 DEF IInv
<1> QED
  BY <1>3, <1>4, <1>5

\* Steps of a write that is running, its return, and its end in a power loss.
LEMMA WriteInv ==
    ASSUME IInv,
           \/ FlashStep \/ DecisionStored \/ DecisionNotStored
           \/ OutcomeWritten \/ InstallWritten \/ PowerLoss
    PROVE  IInv'
<1>1. CASE FlashStep
  <2>1. /\ Journal!IInv' /\ Writing /\ job'.phase # "idle"
        /\ job'.next = job.next /\ Stored' \in {Stored, job.next}
    BY <1>1, JournalStep DEF IInv, FlashStep
  <2>2. UNCHANGED <<image, pc, ram, dec, floor, app, outputs, installs, tries,
                    proven>>
    BY <1>1 DEF FlashStep, locals, history
  <2>3. TypeOK'
    BY <2>1, <2>2 DEF IInv, TypeOK, Journal!IInv
  <2>4. BootShape'
    BY <2>1, <2>2 DEF IInv, BootShape, Writing
  <2>5. ConfirmationsProven' /\ TrialsCounted'
    BY <2>1, <2>2, HistoryKept DEF TrialsCounted, IInv, history
  <2> QED
    BY <2>1, <2>3, <2>4, <2>5 DEF IInv
<1>2. CASE \/ DecisionStored \/ DecisionNotStored
           \/ OutcomeWritten \/ InstallWritten
  <2>1. /\ Journal!IInv' /\ Stored' = Stored
        /\ job.phase = "done" /\ job'.phase = "idle"
        /\ job.status = "OK" => Stored = job.next
    BY <1>2, JournalReturn DEF IInv, DecisionStored, DecisionNotStored,
       OutcomeWritten, InstallWritten
  <2>2. /\ UNCHANGED <<image, app, outputs, installs, tries, proven>>
        /\ \/ /\ pc = "deciding" /\ pc' = "decided" /\ job.status = "OK"
              /\ UNCHANGED <<ram, dec, floor>>
           \/ pc' = "up" /\ UNCHANGED <<ram, dec, floor>>
           \/ BootReturns
    BY <1>2 DEF DecisionStored, DecisionNotStored, OutcomeWritten,
       InstallWritten, locals, history
  <2>3. TypeOK'
    BY <2>1, <2>2, LocalsType DEF IInv, TypeOK, Journal!IInv, BootReturns, PCs
  <2>4. BootShape'
    BY <2>1, <2>2 DEF IInv, BootShape, BootReturns
  <2>5. ConfirmationsProven' /\ TrialsCounted'
    BY <2>1, <2>2, HistoryKept
       DEF TrialsCounted, IInv, Writing, history, BootReturns
  <2> QED
    BY <2>1, <2>3, <2>4, <2>5 DEF IInv
<1>3. CASE PowerLoss
  <2>1. Journal!IInv' /\ Stored' = Stored /\ job'.phase = "idle"
    BY <1>3, JournalPowerLoss DEF IInv, PowerLoss
  <2>2. TypeOK'
    BY <1>3, <2>1, LocalsType DEF IInv, TypeOK, Journal!IInv, PowerLoss,
       Restart, PCs, AppStates, history
  <2>3. BootShape'
    BY <1>3, <2>1 DEF BootShape, PowerLoss, Restart
  <2>4. ConfirmationsProven' /\ TrialsCounted'
    BY <1>3, <2>1, HistoryKept DEF TrialsCounted, Writing, PowerLoss, Restart
  <2> QED
    BY <2>1, <2>2, <2>3, <2>4 DEF IInv
<1> QED
  BY <1>1, <1>2, <1>3

\* The boot decision: what is written when it changes the metadata.
LEMMA BootDecideInv ==
    ASSUME IInv, BootDecide
    PROVE  IInv'
<1> DEFINE r == OnBoot(Stored)
<1>1. Stored \in Metadata /\ PolicyFloor(Stored) \in Nat /\ UNCHANGED history
  BY StoredType DEF IInv, BootDecide
<1>2. PICK m, d : m = r.meta /\ d = r.decision
  OBVIOUS
<1>3. /\ m \in Metadata /\ d \in Decisions
      /\ IF d.changed THEN m.gen = Stored.gen + 1 ELSE m = Stored
      /\ ConfirmsNoMore(Stored, m) /\ NotPending(m)
      /\ d.probation => /\ d.slot \in Slots /\ m.active = d.slot
                        /\ m.slot[d.slot].state = "running_pending"
                        /\ FailRunningOnBoot =>
                              /\ Stored.active = d.slot
                              /\ Stored.slot[d.slot].state = "pending"
  BY <1>1, <1>2, OnBootFacts
<1>4. /\ ram' = m /\ dec' = d /\ floor' = PolicyFloor(Stored)
      /\ app' = "boot_safe" /\ outputs' = "safe" /\ pc = "off"
      /\ \/ d.changed /\ Journal!Write(m) /\ pc' = "deciding"
         \/ ~d.changed /\ UNCHANGED <<rec, job>> /\ pc' = "decided"
      /\ UNCHANGED <<image, installs, tries, proven>>
  BY <1>2 DEF BootDecide, history
<1> HIDE DEF r
<1>5. FailRunningOnBoot /\ d.probation => tries[d.slot] = 0
  BY <1>3 DEF IInv, TrialsCounted, PendingUntried
<1>6. CASE d.changed /\ Journal!Write(m) /\ pc' = "deciding"
  <2>1. Storable(m)
    BY <1>3, <1>6, StorableNoMore
  <2>2. /\ Journal!IInv' /\ Stored' = Stored
        /\ job'.phase = "scan" /\ job'.next = m
    BY <1>6, <2>1, JournalWrite DEF IInv, Storable
  <2>3. TypeOK'
    BY <1>1, <1>3, <1>4, <1>6, <2>2
       DEF IInv, TypeOK, Journal!IInv, PCs, AppStates
  <2>4. BootShape'
    BY <1>3, <1>4, <1>6, <2>2 DEF BootShape
  <2>5. ConfirmationsProven' /\ TrialsCounted'
    BY <1>1, <1>4, <1>5, <2>1, <2>2, HistoryKept DEF TrialsCounted
  <2> QED
    BY <2>2, <2>3, <2>4, <2>5 DEF IInv
<1>7. CASE ~d.changed /\ UNCHANGED <<rec, job>> /\ pc' = "decided"
  <2>1. Journal!IInv' /\ Stored' = Stored
    BY <1>7, JournalIdle DEF IInv
  <2>2. TypeOK'
    BY <1>1, <1>3, <1>4, <1>7, <2>1
       DEF IInv, TypeOK, Journal!IInv, PCs, AppStates
  <2>3. BootShape'
    BY <1>3, <1>4, <1>7, <2>1 DEF IInv, BootShape
  <2>4. ConfirmationsProven' /\ TrialsCounted'
    BY <1>1, <1>4, <1>5, <1>7, <2>1, HistoryKept DEF TrialsCounted, Writing
  <2> QED
    BY <2>1, <2>2, <2>3, <2>4 DEF IInv
<1> QED
  BY <1>4, <1>6, <1>7

\* The candidate starts: it was waiting, so this is its first run.
LEMMA StartAppInv ==
    ASSUME IInv, StartApp
    PROVE  IInv'
<1>1. /\ Journal!IInv' /\ Stored' = Stored /\ rec' = rec /\ job' = job
  BY JournalIdle DEF IInv, StartApp, flash
<1>2. /\ pc = "decided" /\ pc' = "executing" /\ app' = "running"
      /\ UNCHANGED <<image, ram, dec, floor, outputs, installs, proven>>
      /\ dec.slot # NoSlot /\ BundleIsExpected
      /\ tries' = [tries EXCEPT ![dec.slot] = IF dec.probation THEN @ + 1 ELSE @]
  BY DEF StartApp, flash, locals
<1>3. /\ dec.slot \in Slots /\ dec.probation \in BOOLEAN
      /\ tries \in [Slots -> Nat] /\ ram = Stored
      /\ dec.probation => /\ Stored.active = dec.slot
                          /\ Stored.slot[dec.slot].state = "running_pending"
  BY <1>2 DEF IInv, TypeOK, Decisions, BootShape
<1>4. TypeOK'
  BY <1>1, <1>2, <1>3 DEF IInv, TypeOK, Journal!IInv, PCs, AppStates
<1>5. BootShape'
  BY <1>1, <1>2, <1>3, BootAssumption
     DEF IInv, BootShape, BundleIsExpected, Admitted
<1>6. ConfirmationsProven'
  BY <1>1, <1>2 DEF IInv, ConfirmationsProven, ConfirmedProven, Writing
<1>7. TrialsCounted'
  <2>1. CASE FailRunningOnBoot
    <3>1. ~Writing'
      BY <1>1, <1>2 DEF IInv, BootShape, Writing
    <3>2. \A s \in Slots : tries'[s] <= 1
      BY <1>2, <1>3, <2>1 DEF IInv, TrialsCounted
    <3>3. PendingUntried(Stored)'
      BY <1>1, <1>2, <1>3, <2>1 DEF IInv, TrialsCounted, PendingUntried
    <3> QED
      BY <1>2, <3>1, <3>2, <3>3 DEF TrialsCounted
  <2> QED
    BY <2>1 DEF TrialsCounted
<1> QED
  BY <1>1, <1>4, <1>5, <1>6, <1>7 DEF IInv

\* The candidate passes: it is proven before its confirmation is written.
LEMMA LifecycleSucceedsInv ==
    ASSUME IInv, LifecycleSucceeds
    PROVE  IInv'
<1>1. /\ Stored \in Metadata /\ ram = Stored /\ ~Writing /\ job.phase = "idle"
      /\ pc = "executing" /\ dec.slot \in Slots /\ image[dec.slot] \in Bundle
      /\ image[dec.slot] = Stored.slot[dec.slot].bundle
      /\ UNCHANGED <<image, app, outputs, installs, tries>>
  BY StoredType DEF IInv, BootShape, Writing, LifecycleSucceeds
<1>2. CASE /\ ram' = Confirm(ram, dec.slot) /\ Journal!Write(ram')
           /\ pc' = "confirming" /\ proven' = proven \cup {image[dec.slot]}
           /\ CanConfirm(ram, dec.slot) /\ UNCHANGED <<dec, floor>>
  <2>1. PICK n : n = Confirm(Stored, dec.slot)
    OBVIOUS
  <2>2. /\ n \in Metadata /\ n.gen = Stored.gen + 1
        /\ n.active = dec.slot /\ n.slot[dec.slot].state = "confirmed"
        /\ \A x \in Slots : /\ n.slot[x].bundle = Stored.slot[x].bundle
                            /\ x # dec.slot => n.slot[x] = Stored.slot[x]
    BY <1>1, <1>2, <2>1, ConfirmFacts DEF CanConfirm
  <2>3. n.gen > Stored.gen
    BY <1>1, <2>2, MetadataType
  <2>4. /\ Journal!IInv' /\ Stored' = Stored /\ ram' = n
        /\ job'.phase = "scan" /\ job'.next = n
    BY <1>1, <1>2, <2>1, <2>2, <2>3, JournalWrite DEF IInv
  <2>5. TypeOK'
    BY <1>1, <1>2, <2>2, <2>4 DEF IInv, TypeOK, Journal!IInv, PCs
  <2>6. BootShape'
    BY <1>2, <2>4 DEF BootShape
  <2>7. ConfirmationsProven'
    BY <1>1, <1>2, <2>2, <2>4 DEF IInv, ConfirmationsProven, ConfirmedProven
  <2>8. TrialsCounted'
    BY <1>1, <1>2, <2>2, <2>4 DEF IInv, TrialsCounted, PendingUntried
  <2> QED
    BY <2>4, <2>5, <2>6, <2>7, <2>8 DEF IInv
<1>3. CASE BootReturns /\ UNCHANGED <<rec, job, proven>>
  <2>1. Journal!IInv' /\ Stored' = Stored
    BY <1>3, JournalIdle DEF IInv
  <2>2. TypeOK'
    BY <1>1, <1>3, <2>1, LocalsType
       DEF IInv, TypeOK, Journal!IInv, BootReturns, PCs
  <2>3. BootShape'
    BY <1>1, <1>3 DEF BootShape, BootReturns
  <2>4. ConfirmationsProven' /\ TrialsCounted'
    BY <1>1, <1>3, <2>1, HistoryKept
       DEF TrialsCounted, Writing, history, BootReturns
  <2> QED
    BY <2>1, <2>2, <2>3, <2>4 DEF IInv
<1> QED
  BY <1>2, <1>3 DEF LifecycleSucceeds

\* The installer's two writes.
LEMMA InstallInv ==
    ASSUME IInv, NEW s \in Slots, InstallMark(s) \/ InstallPrepare(s)
    PROVE  IInv'
<1>1. /\ Stored \in Metadata /\ Stored.gen \in Nat
      /\ pc = "up" /\ pc' = "installing"
      /\ s # Stored.active
      /\ UNCHANGED <<image, ram, dec, floor, app, outputs, proven>>
  BY StoredType, MetadataType
     DEF IInv, InstallMark, InstallPrepare, Inactive, locals, history
<1>2. CASE InstallMark(s)
  <2>1. PICK n : n = MarkVerified(Stored, s, image[s])
    OBVIOUS
  <2>2. /\ Journal!Write(n) /\ image[s] \in Bundle /\ UNCHANGED history
        /\ installs' = installs + 1 /\ installs < MaxInstalls
    BY <1>2, <2>1, BootAssumption DEF InstallMark, Admitted
  <2>3. /\ n \in Metadata /\ n.gen = Stored.gen + 1 /\ n.active = Stored.active
        /\ n.slot[s].state = "verified"
        /\ \A x \in Slots : x # s => n.slot[x] = Stored.slot[x]
    BY <1>1, <2>1, <2>2, MarkFacts
  <2>4. Storable(n)
    BY <1>1, <2>3 DEF IInv, Storable, ConfirmationsProven, ConfirmedProven,
       TrialsCounted, PendingUntried
  <2>5. /\ Journal!IInv' /\ Stored' = Stored
        /\ job'.phase = "scan" /\ job'.next = n
    BY <2>2, <2>4, JournalWrite DEF IInv, Storable
  <2>6. TypeOK'
    BY <1>1, <2>2, <2>5, BootAssumption
       DEF IInv, TypeOK, Journal!IInv, PCs, history
  <2>7. BootShape'
    BY <1>1, <2>5 DEF BootShape
  <2>8. ConfirmationsProven' /\ TrialsCounted'
    BY <1>1, <2>2, <2>4, <2>5, HistoryKept DEF TrialsCounted
  <2> QED
    BY <2>5, <2>6, <2>7, <2>8 DEF IInv
<1>3. CASE InstallPrepare(s)
  <2>1. PICK n : n = PreparePending(Stored, s)
    OBVIOUS
  <2>2. /\ Journal!Write(n) /\ installs' = installs
        /\ tries' = [tries EXCEPT ![s] = 0]
    BY <1>3, <2>1 DEF InstallPrepare
  <2>3. /\ n \in Metadata /\ n.gen = Stored.gen + 1 /\ n.active = s
        /\ ConfirmsNoMore(Stored, n) /\ n.gen > Stored.gen
    BY <1>1, <2>1, PrepareFacts
  <2>4. /\ Journal!IInv' /\ Stored' = Stored
        /\ job'.phase = "scan" /\ job'.next = n
    BY <2>2, <2>3, JournalWrite DEF IInv
  <2>5. TypeOK'
    BY <1>1, <2>2, <2>4 DEF IInv, TypeOK, Journal!IInv, PCs
  <2>6. BootShape'
    BY <1>1, <2>4 DEF BootShape
  <2>7. ConfirmationsProven'
    BY <1>1, <2>3, <2>4
       DEF IInv, ConfirmationsProven, ConfirmedProven, ConfirmsNoMore
  <2>8. tries \in [Slots -> Nat] /\ tries'[s] = 0
        /\ \A x \in Slots : tries'[x] = 0 \/ tries'[x] = tries[x]
    BY <2>2 DEF IInv, TypeOK
  <2>9. TrialsCounted'
    BY <1>1, <2>3, <2>4, <2>8 DEF IInv, TrialsCounted, PendingUntried
  <2> QED
    BY <2>4, <2>5, <2>6, <2>7, <2>9 DEF IInv
<1> QED
  BY <1>2, <1>3

\* The invariant is inductive: one step per action.
LEMMA BootStepInv == IInv /\ [Next]_vars => IInv'
<1> SUFFICES ASSUME IInv, [Next]_vars PROVE IInv'
  OBVIOUS
<1>1. CASE BootDecide
  BY <1>1, BootDecideInv
<1>2. CASE \/ FlashStep \/ DecisionStored \/ DecisionNotStored
           \/ OutcomeWritten \/ InstallWritten \/ PowerLoss
  BY <1>2, WriteInv
<1>3. CASE SlotUnreadable \/ SlotRejected \/ LifecycleFails
  <2>1. /\ pc \in {"decided", "executing"} /\ dec.slot \in Slots
        /\ \E reason \in Reasons : FailRuntime(reason)
    BY <1>3 DEF IInv, TypeOK, BootShape, Decisions, Reasons, SlotUnreadable,
       SlotRejected, LifecycleFails
  <2> QED
    BY <2>1, FailRuntimeInv
<1>4. CASE StartApp
  BY <1>4, StartAppInv
<1>5. CASE LifecycleSucceeds
  BY <1>5, LifecycleSucceedsInv
<1>6. CASE \E s \in Slots : InstallMark(s) \/ InstallPrepare(s)
  BY <1>6, InstallInv
<1>7. CASE \/ BootReadFails \/ NoBundleMode \/ GuestDrivesOutput \/ Reboot
           \/ \E s \in Slots : EraseImage(s)
           \/ \E s \in Slots, b \in Bundle : DownloadImage(s, b)
           \/ UNCHANGED vars
  <2>1. UNCHANGED <<rec, job, history>>
    BY <1>7 DEF BootReadFails, NoBundleMode, GuestDrivesOutput, Reboot, Restart,
       EraseImage, DownloadImage, vars, flash, history
  <2> QED
    BY <1>7, <2>1, QuietInv
<1> QED
  BY <1>1, <1>2, <1>3, <1>4, <1>5, <1>6, <1>7 DEF Next, BootStep, Install

\* Where the boot path is, what it wrote and what it found out agree, whatever
\* power losses and flash errors do to it.
THEOREM BootInv == Spec => []IInv
<1> QED
  BY BootInitInv, BootStepInv, PTL DEF Spec

\* The boot path, the installer and the journal keep the types of the
\* structures they work on.
THEOREM BootTypeOK == Spec => []TypeOK
<1>1. IInv => TypeOK
  BY DEF IInv
<1> QED
  BY <1>1, BootInv, PTL

\* The boot path and the installer only pass wdc_ota_write_metadata records
\* that will win over what is stored: the obligation the journal's theorems
\* put on its callers.
THEOREM BootWritesAreNewer == Spec => []WritesAreNewer
<1>1. IInv => WritesAreNewer
  BY DEF IInv, Journal!IInv, Journal!TargetIsSpare, WritesAreNewer, Stored
<1> QED
  BY <1>1, BootInv, PTL

\* Under the default policy a candidate is started at most once for each time
\* wdc_activation_prepare_pending selected it.
THEOREM BootCandidateRunsOnce == Spec => []CandidateRunsOnce
<1>1. IInv => CandidateRunsOnce
  BY DEF IInv, TrialsCounted, CandidateRunsOnce
<1> QED
  BY <1>1, BootInv, PTL

\* A slot is stored as confirmed only if its own bundle passed probation.
THEOREM BootConfirmedWasProven == Spec => []ConfirmedWasProven
<1>1. IInv => ConfirmedWasProven
  BY DEF IInv, ConfirmationsProven, ConfirmedProven, ConfirmedWasProven
<1> QED
  BY <1>1, BootInv, PTL

-----------------------------------------------------------------------------
(***************************************************************************)
(* The A/B update as a whole: the fallback is never lost, the anti-rollback*)
(* floor never drops, a rollback is not turned away by the verify policy,  *)
(* and slots, journal and crashes together implement UpdateProtocol.       *)
(*                                                                         *)
(* All four say what one write of the metadata may do, so the invariant    *)
(* carries one relation, Update, between what is stored and what is about  *)
(* to be stored.  The operations of wdc_activation.c establish it when a   *)
(* write starts; the journal makes the write atomic.                       *)
(***************************************************************************)

\* The refinement mapping of Protocol, for a metadata record.
Trusted(m) ==
    IF FallbackIsValid(m) THEN m.slot[m.lastGood].bundle ELSE NoBundle

NoTrial == [bundle |-> NoBundle, started |-> FALSE]

Trial(m) ==
    IF m.active \in Slots /\ OnProbation(m, m.active)
    THEN [bundle  |-> m.slot[m.active].bundle,
          started |-> m.slot[m.active].state = "running_pending"]
    ELSE NoTrial

\* What every stored record satisfies and UpdateProtocol rests on: a confirmed
\* active slot is the fallback itself, so preparing a candidate does not move
\* the fallback; a waiting candidate has not been booted, so it is never timed
\* out before its trial; a slot on its way to confirmation describes a bundle.
Coherent(m) ==
    /\ SlotIsConfirmed(m, m.active) => m.lastGood = m.active
    /\ m.active \in Slots /\ m.slot[m.active].state = "pending" => m.boots = 0
    /\ \A s \in Slots :
          m.slot[s].state \in {"verified", "pending", "running_pending"}
             => m.slot[s].bundle \in Bundle

\* A step of UpdateProtocol, or none.
ProtocolStep(m, n) ==
    \/ Trusted(n) = Trusted(m) /\ Trial(n) = Trial(m)
    \/ /\ Trusted(n) = Trusted(m)
       /\ \E b \in Bundle : Trial(n) = [bundle |-> b, started |-> FALSE]
    \/ /\ Trusted(n) = Trusted(m)
       /\ \E b \in Bundle : /\ Trial(m) = [bundle |-> b, started |-> FALSE]
                            /\ Trial(n) = [bundle |-> b, started |-> TRUE]
    \/ /\ Trial(m).started /\ Trial(n) = NoTrial
       /\ Trusted(n) \in {Trusted(m), Trial(m).bundle}

\* The counter a slot contributes to wdc_security_metadata_security_floor.
SlotFloor(m, s) ==
    IF m.slot[s].state # "empty" THEN SecurityCounter(m.slot[s]) ELSE 0

\* m's fallback can be run.
ReadyIn(m) ==
    FallbackIsValid(m) /\ image[m.lastGood] = m.slot[m.lastGood].bundle

Update(m, n) ==
    /\ Coherent(n)
    /\ ProtocolStep(m, n)
    /\ AntiRollback => \A s \in Slots : SlotFloor(n, s) >= SlotFloor(m, s)
    /\ ReadyIn(m) => ReadyIn(n)

-----------------------------------------------------------------------------
(***************************************************************************)
(* What the operations do to a slot's state, the fallback and the trial.   *)
(***************************************************************************)

\* n is m with slot s in state st.
Moves(m, n, s, st) ==
    /\ n.lastGood = m.lastGood
    /\ \A x \in Slots : /\ n.slot[x].bundle = m.slot[x].bundle
                        /\ n.slot[x].state = IF x = s THEN st ELSE m.slot[x].state

\* A slot's counter is a number that depends on the bundle only.
LEMMA SlotFloorFacts ==
    ASSUME NEW m \in Metadata, NEW s \in Slots
    PROVE  /\ SlotFloor(m, s) \in Nat
           /\ m.slot[s].state \in SlotStates
           /\ m.slot[s].bundle \in Bundle \cup {NoBundle}
<1>1. m.slot[s] \in SlotRecord
  BY MetadataType
<1>2. /\ m.slot[s].state \in SlotStates
      /\ m.slot[s].bundle \in Bundle \cup {NoBundle}
  BY <1>1 DEF SlotRecord
<1> QED
  BY <1>2, BundleAssumption DEF SlotFloor, SecurityCounter

\* The floor is the larger of the two slots'.
LEMMA FloorGrows ==
    ASSUME NEW m \in Metadata, NEW n \in Metadata,
           \A s \in Slots : SlotFloor(n, s) >= SlotFloor(m, s)
    PROVE  SecurityFloor(n) >= SecurityFloor(m)
<1>1. \A s \in Slots : SlotFloor(n, s) \in Nat /\ SlotFloor(m, s) \in Nat
  BY SlotFloorFacts
<1>2. /\ SlotFloor(n, "a") >= SlotFloor(m, "a")
      /\ SlotFloor(n, "b") >= SlotFloor(m, "b")
      /\ SlotFloor(n, "a") \in Nat /\ SlotFloor(m, "a") \in Nat
      /\ SlotFloor(n, "b") \in Nat /\ SlotFloor(m, "b") \in Nat
  BY <1>1 DEF Slots
<1> QED
  BY <1>2 DEF SecurityFloor, SlotFloor

\* No operation but mark_verified changes a bundle, and none empties a slot.
LEMMA MoveKeepsFloor ==
    ASSUME NEW m \in Metadata, NEW n \in Metadata, NEW s, NEW st, st # "empty",
           Moves(m, n, s, st)
    PROVE  \A x \in Slots : SlotFloor(n, x) >= SlotFloor(m, x)
<1> SUFFICES ASSUME NEW x \in Slots PROVE SlotFloor(n, x) >= SlotFloor(m, x)
  OBVIOUS
<1>1. SlotFloor(n, x) \in Nat /\ SlotFloor(m, x) \in Nat
  BY SlotFloorFacts
<1>2. /\ n.slot[x].bundle = m.slot[x].bundle
      /\ m.slot[x].state # "empty" => n.slot[x].state # "empty"
  BY DEF Moves
<1> QED
  BY <1>1, <1>2 DEF SlotFloor, SecurityCounter

\* A record that becomes itself.
LEMMA SameUpdates ==
    ASSUME NEW m \in Metadata, Coherent(m)
    PROVE  Update(m, m)
<1>1. \A s \in Slots : SlotFloor(m, s) >= SlotFloor(m, s)
  BY SlotFloorFacts
<1> QED
  BY <1>1 DEF Update, ProtocolStep

\* Failing a slot that is neither confirmed nor waiting ends its trial, and
\* the device falls back, or to nothing.
LEMMA FailUpdates ==
    ASSUME NEW m \in Metadata, NEW n \in Metadata, Coherent(m),
           m.active \in Slots, Moves(m, n, m.active, "failed"),
           m.slot[m.active].state \notin {"confirmed", "pending"},
           n.active = IF FallbackIsValid(n) THEN n.lastGood ELSE NoSlot
    PROVE  Update(m, n)
<1>1. /\ FallbackIsValid(n) <=> FallbackIsValid(m)
      /\ FallbackIsValid(m) => m.lastGood # m.active
      /\ Trusted(n) = Trusted(m) /\ (ReadyIn(m) => ReadyIn(n))
  BY DEF Moves, FallbackIsValid, SlotIsConfirmed, Trusted, ReadyIn
<1>2. NoSlot \notin Slots
  BY DEF NoSlot, Slots
<1>3. Trial(n) = NoTrial /\ Coherent(n)
  BY <1>1, <1>2 DEF Moves, FallbackIsValid, SlotIsConfirmed, Coherent, Trial,
     OnProbation
<1>4. Trial(m).started \/ Trial(m) = NoTrial
  BY DEF Trial, OnProbation
<1>5. \A s \in Slots : SlotFloor(n, s) >= SlotFloor(m, s)
  BY MoveKeepsFloor
<1> QED
  BY <1>1, <1>3, <1>4, <1>5 DEF Update, ProtocolStep

\* Starting the candidate.
LEMMA StartUpdates ==
    ASSUME NEW m \in Metadata, NEW n \in Metadata, Coherent(m),
           m.active \in Slots, m.slot[m.active].state = "pending",
           Moves(m, n, m.active, "running_pending"), n.active = m.active
    PROVE  Update(m, n)
<1>1. /\ Trusted(n) = Trusted(m) /\ (ReadyIn(m) => ReadyIn(n))
  BY DEF Moves, FallbackIsValid, SlotIsConfirmed, Trusted, ReadyIn
<1>2. Coherent(n)
  BY DEF Moves, SlotIsConfirmed, Coherent
<1>3. m.slot[m.active].bundle \in Bundle
  BY DEF Coherent
<1>4. /\ Trial(m) = [bundle |-> m.slot[m.active].bundle, started |-> FALSE]
      /\ Trial(n) = [bundle |-> m.slot[m.active].bundle, started |-> TRUE]
  BY DEF Trial, OnProbation, Moves
<1>5. \A s \in Slots : SlotFloor(n, s) >= SlotFloor(m, s)
  BY MoveKeepsFloor
<1> QED
  BY <1>1, <1>2, <1>3, <1>4, <1>5 DEF Update, ProtocolStep

\* With nothing active, the fallback becomes active.
LEMMA ResumeUpdates ==
    ASSUME NEW m \in Metadata, NEW n \in Metadata, Coherent(m),
           m.active = NoSlot, FallbackIsValid(m), n.active = m.lastGood,
           n.lastGood = m.lastGood, n.slot = m.slot
    PROVE  Update(m, n)
<1>1. /\ Trusted(n) = Trusted(m) /\ (ReadyIn(m) => ReadyIn(n))
  BY DEF FallbackIsValid, SlotIsConfirmed, Trusted, ReadyIn
<1>2. NoSlot \notin Slots
  BY DEF NoSlot, Slots
<1>3. Coherent(n) /\ Trial(m) = NoTrial /\ Trial(n) = NoTrial
  BY <1>2 DEF FallbackIsValid, SlotIsConfirmed, Coherent, Trial, OnProbation
<1>4. \A s \in Slots : SlotFloor(n, s) >= SlotFloor(m, s)
  BY SlotFloorFacts DEF SlotFloor
<1> QED
  BY <1>1, <1>3, <1>4 DEF Update, ProtocolStep

\* Confirming the candidate: its image is the bundle its record describes.
LEMMA ConfirmUpdates ==
    ASSUME NEW m \in Metadata, NEW n \in Metadata, Coherent(m),
           m.active \in Slots, m.slot[m.active].state = "running_pending",
           n.active = m.active, n.lastGood = m.active,
           n.slot[m.active].state = "confirmed",
           \A x \in Slots : /\ n.slot[x].bundle = m.slot[x].bundle
                            /\ x # m.active => n.slot[x] = m.slot[x],
           image[m.active] = m.slot[m.active].bundle
    PROVE  Update(m, n)
<1>1. /\ Trusted(n) = m.slot[m.active].bundle /\ ReadyIn(n)
  BY DEF FallbackIsValid, SlotIsConfirmed, Trusted, ReadyIn
<1>2. /\ Trial(m) = [bundle |-> m.slot[m.active].bundle, started |-> TRUE]
      /\ Trial(n) = NoTrial
  BY DEF Trial, OnProbation
<1>3. Coherent(n)
  BY DEF SlotIsConfirmed, Coherent
<1>4. ASSUME NEW s \in Slots PROVE SlotFloor(n, s) >= SlotFloor(m, s)
  <2>1. SlotFloor(n, s) \in Nat /\ SlotFloor(m, s) \in Nat
    BY SlotFloorFacts
  <2>2. n.slot[s].bundle = m.slot[s].bundle
    OBVIOUS
  <2>3. m.slot[s].state # "empty" => n.slot[s].state # "empty"
    OBVIOUS
  <2> QED
    BY <2>1, <2>2, <2>3 DEF SlotFloor, SecurityCounter
<1> QED
  BY <1>1, <1>2, <1>3, <1>4 DEF Update, ProtocolStep

\* Preparing a verified slot that is neither active nor the fallback stages
\* its bundle, and keeps the fallback: a confirmed active slot already is it.
LEMMA PrepareUpdates ==
    ASSUME NEW m \in Metadata, NEW n \in Metadata, Coherent(m),
           NEW s \in Slots, s # m.active, s # m.lastGood,
           m.slot[s].state = "verified",
           Moves(m, n, s, "pending"), n.active = s, n.boots = 0
    PROVE  Update(m, n)
<1>1. /\ Trusted(n) = Trusted(m) /\ (ReadyIn(m) => ReadyIn(n))
  BY DEF Moves, FallbackIsValid, SlotIsConfirmed, Trusted, ReadyIn
<1>2. Coherent(n)
  BY DEF Moves, SlotIsConfirmed, Coherent
<1>3. m.slot[s].bundle \in Bundle
  BY DEF Coherent
<1>4. Trial(n) = [bundle |-> m.slot[s].bundle, started |-> FALSE]
  BY DEF Trial, OnProbation, Moves
<1>5. \A x \in Slots : SlotFloor(n, x) >= SlotFloor(m, x)
  BY MoveKeepsFloor
<1> QED
  BY <1>1, <1>2, <1>3, <1>4, <1>5 DEF Update, ProtocolStep

\* Marking such a slot verified, with a bundle the verify policy admits.
LEMMA MarkUpdates ==
    ASSUME NEW m \in Metadata, NEW n \in Metadata, Coherent(m),
           NEW s \in Slots, s # m.active, s # m.lastGood,
           NEW b \in Bundle, Admitted(b, PolicyFloor(m)),
           n.active = m.active, n.lastGood = m.lastGood, n.boots = m.boots,
           n.slot[s].state = "verified", n.slot[s].bundle = b,
           \A x \in Slots : x # s => n.slot[x] = m.slot[x]
    PROVE  Update(m, n)
<1>1. /\ Trusted(n) = Trusted(m) /\ (ReadyIn(m) => ReadyIn(n))
      /\ Trial(n) = Trial(m)
  BY DEF FallbackIsValid, SlotIsConfirmed, Trusted, ReadyIn, Trial, OnProbation
<1>2. Coherent(n)
  BY DEF SlotIsConfirmed, Coherent
<1>3. ASSUME AntiRollback, NEW x \in Slots
      PROVE  SlotFloor(n, x) >= SlotFloor(m, x)
  <2>1. SlotFloor(n, x) \in Nat /\ SlotFloor(m, x) \in Nat
    BY SlotFloorFacts
  <2>2. CASE x # s
    BY <2>1, <2>2 DEF SlotFloor
  <2>3. CASE x = s
    <3>1. SlotFloor(m, "a") \in Nat /\ SlotFloor(m, "b") \in Nat
      BY SlotFloorFacts DEF Slots
    <3>2. SecurityFloor(m) = IF SlotFloor(m, "a") >= SlotFloor(m, "b")
                             THEN SlotFloor(m, "a") ELSE SlotFloor(m, "b")
      BY DEF SecurityFloor, SlotFloor
    <3>3. SecurityFloor(m) \in Nat /\ SecurityFloor(m) >= SlotFloor(m, s)
      BY <3>1, <3>2 DEF Slots
    <3>4. Counter[b] >= SecurityFloor(m) /\ Counter[b] \in Nat
      BY <1>3, BundleAssumption DEF Admitted, PolicyFloor
    <3>5. SlotFloor(n, s) = Counter[b]
      BY BundleAssumption DEF SlotFloor, SecurityCounter
    <3> QED
      BY <2>1, <2>3, <3>3, <3>4, <3>5
  <2> QED
    BY <2>2, <2>3
<1> QED
  BY <1>1, <1>2, <1>3 DEF Update, ProtocolStep

-----------------------------------------------------------------------------
(***************************************************************************)
(* The operations themselves.                                              *)
(***************************************************************************)

\* rollback_to_last_good fails the slot it is given, keeps the fallback and
\* makes it active if it is still valid; that is the slot it says to run.
LEMMA RollbackMoves ==
    ASSUME NEW m \in Metadata, NEW s \in Slots, NEW reason
    PROVE  LET r == RollbackToLastGood(m, s, reason)
               n == r.meta
           IN  /\ Moves(m, n, s, "failed")
               /\ n.active = IF FallbackIsValid(n) THEN n.lastGood ELSE NoSlot
               /\ r.decision.kind = "rollback_to_last_good"
                    => r.decision.slot = n.lastGood
<1>1. m.slot \in [Slots -> SlotRecord]
  BY MetadataType
<1>2. PICK slot : slot = [m.slot EXCEPT ![s].state = "failed"]
  OBVIOUS
<1>3. \A x \in Slots : /\ slot[x].bundle = m.slot[x].bundle
                       /\ slot[x].state = IF x = s THEN "failed"
                                                   ELSE m.slot[x].state
  BY <1>1, <1>2 DEF SlotRecord
<1>4. PICK f : f = [m EXCEPT !.slot[s].state = "failed", !.faults = @ + 1,
                             !.reason = reason, !.gen = @ + 1]
  OBVIOUS
<1>5. f.slot = slot /\ f.lastGood = m.lastGood
  BY <1>2, <1>4 DEF Metadata
<1>6. \A a : LET n == [f EXCEPT !.active = a]
             IN  n.slot = slot /\ n.lastGood = m.lastGood /\ n.active = a
  BY <1>4, <1>5 DEF Metadata
<1>7. CASE FallbackIsValid(f)
  <2>1. PICK n : n = [f EXCEPT !.active = f.lastGood]
    OBVIOUS
  <2>2. n.slot = slot /\ n.lastGood = m.lastGood /\ n.active = m.lastGood
    BY <1>5, <1>6, <2>1
  <2>3. FallbackIsValid(n)
    BY <1>5, <1>7, <2>2 DEF FallbackIsValid, SlotIsConfirmed
  <2>4. PICK d : d = Decision("rollback_to_last_good", f.lastGood, FALSE, TRUE)
    OBVIOUS
  <2>5. d.slot = m.lastGood
    BY <1>5, <2>4 DEF Decision
  <2>6. RollbackToLastGood(m, s, reason) = [meta |-> n, decision |-> d]
    BY <1>4, <1>7, <2>1, <2>4 DEF RollbackToLastGood
  <2> QED
    BY <1>3, <2>2, <2>3, <2>5, <2>6 DEF Moves
<1>8. CASE ~FallbackIsValid(f)
  <2>1. PICK n : n = [f EXCEPT !.active = NoSlot]
    OBVIOUS
  <2>2. n.slot = slot /\ n.lastGood = m.lastGood /\ n.active = NoSlot
    BY <1>5, <1>6, <2>1
  <2>3. ~FallbackIsValid(n)
    BY <1>5, <1>8, <2>2 DEF FallbackIsValid, SlotIsConfirmed
  <2>4. PICK d : d = Decision("fault_no_fallback", NoSlot, FALSE, TRUE)
    OBVIOUS
  <2>5. d.kind # "rollback_to_last_good"
    BY <2>4 DEF Decision
  <2>6. RollbackToLastGood(m, s, reason) = [meta |-> n, decision |-> d]
    BY <1>4, <1>8, <2>1, <2>4 DEF RollbackToLastGood
  <2> QED
    BY <1>3, <2>2, <2>3, <2>5, <2>6 DEF Moves
<1> QED
  BY <1>7, <1>8

\* wdc_activation_on_boot: whatever the stored record, the one it returns is
\* an update of it, and a rollback runs the fallback.
LEMMA OnBootUpdates ==
    ASSUME NEW m \in Metadata, Coherent(m)
    PROVE  LET r == OnBoot(m)
           IN  /\ Update(m, r.meta)
               /\ r.decision.kind = "rollback_to_last_good"
                    => r.decision.slot = r.meta.lastGood
<1>1. /\ m.active \in Slots \cup {NoSlot} /\ NoSlot \notin Slots
      /\ m.slot \in [Slots -> SlotRecord] /\ m.boots \in Nat
  BY MetadataType
<1>2. OnBoot(m).meta \in Metadata
  BY OnBootFacts
<1>3. CASE m.active = NoSlot
  <2>1. OnBoot(m) = OnBootNoActive(m)
    BY <1>1, <1>3 DEF OnBoot
  <2>2. CASE FallbackIsValid(m)
    <3>1. PICK n : n = [m EXCEPT !.active = m.lastGood, !.gen = @ + 1]
      OBVIOUS
    <3>2. n.active = m.lastGood /\ n.lastGood = m.lastGood /\ n.slot = m.slot
      BY <3>1 DEF Metadata
    <3>3. PICK d : d = Decision("run_confirmed", m.lastGood, FALSE, TRUE)
      OBVIOUS
    <3>4. d.kind # "rollback_to_last_good"
      BY <3>3 DEF Decision
    <3>5. OnBoot(m) = [meta |-> n, decision |-> d]
      BY <2>1, <2>2, <3>1, <3>3 DEF OnBootNoActive
    <3>6. n \in Metadata
      BY <1>2, <3>5
    <3>7. Update(m, n)
      BY <1>3, <2>2, <3>2, <3>6, ResumeUpdates
    <3> QED
      BY <3>4, <3>5, <3>7
  <2>3. CASE ~FallbackIsValid(m)
    <3>1. OnBoot(m) = [meta |-> m, decision |->
                       Decision("no_bundle", NoSlot, FALSE, FALSE)]
      BY <2>1, <2>3 DEF OnBootNoActive
    <3> QED
      BY <3>1, SameUpdates DEF Decision
  <2> QED
    BY <2>2, <2>3
<1>4. CASE m.active \in Slots /\ m.slot[m.active].state = "confirmed"
  <2>1. OnBoot(m) = OnBootConfirmed(m)
    BY <1>1, <1>4 DEF OnBoot
  <2>2. m.lastGood = m.active
    BY <1>4 DEF Coherent, SlotIsConfirmed
  <2>3. OnBoot(m) = [meta |-> m, decision |->
                     Decision("run_confirmed", m.active, FALSE, FALSE)]
    BY <2>1, <2>2 DEF OnBootConfirmed
  <2> QED
    BY <2>3, SameUpdates DEF Decision
<1>5. CASE m.active \in Slots /\ m.slot[m.active].state = "pending"
  <2>1. OnBoot(m) = OnBootPending(m)
    BY <1>1, <1>5 DEF OnBoot
  <2>2. ~(m.boots >= BootBudget)
    BY <1>5, PolicyAssumption DEF Coherent, BootBudget
  <2>3. PICK n : n = [m EXCEPT !.boots = @ + 1,
                               !.slot[m.active].state = "running_pending",
                               !.gen = @ + 1]
    OBVIOUS
  <2>4. PICK slot : slot = [m.slot EXCEPT ![m.active].state = "running_pending"]
    OBVIOUS
  <2>5. n.slot = slot /\ n.lastGood = m.lastGood /\ n.active = m.active
    BY <2>3, <2>4 DEF Metadata
  <2>6. \A x \in Slots : /\ slot[x].bundle = m.slot[x].bundle
                         /\ slot[x].state = IF x = m.active THEN "running_pending"
                                            ELSE m.slot[x].state
    BY <1>1, <1>5, <2>4 DEF SlotRecord
  <2>7. PICK d : d = Decision("run_candidate", m.active, TRUE, TRUE)
    OBVIOUS
  <2>8. d.kind # "rollback_to_last_good"
    BY <2>7 DEF Decision
  <2>9. OnBoot(m) = [meta |-> n, decision |-> d]
    BY <2>1, <2>2, <2>3, <2>7 DEF OnBootPending
  <2>10. n \in Metadata
    BY <1>2, <2>9
  <2>11. Moves(m, n, m.active, "running_pending")
    BY <2>5, <2>6 DEF Moves
  <2>12. Update(m, n)
    BY <1>5, <2>5, <2>10, <2>11, StartUpdates
  <2> QED
    BY <2>8, <2>9, <2>12
<1>6. CASE /\ m.active \in Slots
           /\ m.slot[m.active].state \notin {"confirmed", "pending"}
  <2>1. ASSUME NEW reason \in Reasons,
               OnBoot(m) = RollbackToLastGood(m, m.active, reason)
        PROVE  /\ Update(m, OnBoot(m).meta)
               /\ OnBoot(m).decision.kind = "rollback_to_last_good"
                    => OnBoot(m).decision.slot = OnBoot(m).meta.lastGood
    <3>1. PICK n, d : n = OnBoot(m).meta /\ d = OnBoot(m).decision
      OBVIOUS
    <3>2. /\ Moves(m, n, m.active, "failed")
          /\ n.active = IF FallbackIsValid(n) THEN n.lastGood ELSE NoSlot
          /\ d.kind = "rollback_to_last_good" => d.slot = n.lastGood
      BY <1>6, <2>1, <3>1, RollbackMoves
    <3>3. Update(m, n)
      BY <1>2, <1>6, <3>1, <3>2, FailUpdates
    <3> QED
      BY <3>1, <3>2, <3>3
  <2>2. CASE m.slot[m.active].state = "running_pending" /\ ~FailRunningOnBoot
    <3>1. OnBoot(m) = [meta |-> m, decision |->
                       Decision("run_candidate", m.active, TRUE, FALSE)]
      BY <1>1, <1>6, <2>2 DEF OnBoot, OnBootRunningPending
    <3> QED
      BY <3>1, SameUpdates DEF Decision
  <2>3. CASE m.slot[m.active].state = "running_pending" /\ FailRunningOnBoot
    <3>1. OnBoot(m) = RollbackToLastGood(m, m.active, "NOT_SYNCHRONIZED")
      BY <1>1, <1>6, <2>3 DEF OnBoot, OnBootRunningPending
    <3>2. "NOT_SYNCHRONIZED" \in Reasons
      BY DEF Reasons
    <3> QED
      BY <2>1, <3>1, <3>2
  <2>4. CASE m.slot[m.active].state # "running_pending"
    <3>1. OnBoot(m) = RollbackToLastGood(m, m.active, "INVALID_STATE")
      BY <1>1, <1>6, <2>4 DEF OnBoot
    <3>2. "INVALID_STATE" \in Reasons
      BY DEF Reasons
    <3> QED
      BY <2>1, <3>1, <3>2
  <2> QED
    BY <2>2, <2>3, <2>4
<1> QED
  BY <1>1, <1>3, <1>4, <1>5, <1>6

\* wdc_activation_record_fault, for the candidate on trial.
LEMMA FaultUpdates ==
    ASSUME NEW m \in Metadata, Coherent(m), m.active \in Slots,
           m.slot[m.active].state = "running_pending", NEW reason \in Reasons
    PROVE  Update(m, RecordFault(m, m.active, reason).meta)
<1>1. PICK n : n = RecordFault(m, m.active, reason).meta
  OBVIOUS
<1>2. n \in Metadata
  BY <1>1, RollbackFacts DEF RecordFault
<1>3. /\ Moves(m, n, m.active, "failed")
      /\ n.active = IF FallbackIsValid(n) THEN n.lastGood ELSE NoSlot
  BY <1>1, RollbackMoves DEF RecordFault
<1> QED
  BY <1>1, <1>2, <1>3, FailUpdates

\* wdc_activation_confirm, for a candidate whose image is its record's bundle.
LEMMA ConfirmedUpdates ==
    ASSUME NEW m \in Metadata, Coherent(m), m.active \in Slots,
           m.slot[m.active].state = "running_pending",
           image[m.active] = m.slot[m.active].bundle
    PROVE  Update(m, Confirm(m, m.active))
<1>1. PICK n : n = Confirm(m, m.active)
  OBVIOUS
<1>2. /\ n \in Metadata /\ n.active = m.active
      /\ n.slot[m.active].state = "confirmed"
      /\ \A x \in Slots : /\ n.slot[x].bundle = m.slot[x].bundle
                          /\ x # m.active => n.slot[x] = m.slot[x]
  BY <1>1, ConfirmFacts
<1>3. n.lastGood = m.active
  BY <1>1 DEF Confirm, Metadata
<1> QED
  BY <1>1, <1>2, <1>3, ConfirmUpdates

\* wdc_activation_prepare_pending, for a slot that is not in use.
LEMMA PreparedUpdates ==
    ASSUME NEW m \in Metadata, Coherent(m), NEW s \in Slots,
           s # m.active, s # m.lastGood, CanPreparePending(m, s)
    PROVE  Update(m, PreparePending(m, s))
<1>1. PICK n : n = PreparePending(m, s)
  OBVIOUS
<1>2. n \in Metadata /\ n.active = s
  BY <1>1, PrepareFacts
<1>3. PICK slot : slot = [m.slot EXCEPT ![s].state = "pending"]
  OBVIOUS
<1>4. (IF SlotIsConfirmed(m, m.active) THEN m.active ELSE m.lastGood) = m.lastGood
  BY DEF Coherent
<1>5. n.slot = slot /\ n.boots = 0 /\ n.lastGood = m.lastGood
  BY <1>1, <1>3, <1>4 DEF PreparePending, Metadata
<1>6. m.slot \in [Slots -> SlotRecord]
  BY MetadataType
<1>7. \A x \in Slots : /\ slot[x].bundle = m.slot[x].bundle
                       /\ slot[x].state = IF x = s THEN "pending"
                                                   ELSE m.slot[x].state
  BY <1>3, <1>6 DEF SlotRecord
<1>8. Moves(m, n, s, "pending")
  BY <1>5, <1>7 DEF Moves
<1>9. m.slot[s].state = "verified"
  BY DEF CanPreparePending
<1> QED
  BY <1>1, <1>2, <1>5, <1>8, <1>9, PrepareUpdates

\* wdc_bundle_metadata_mark_verified, for such a slot and an admitted bundle.
LEMMA MarkedUpdates ==
    ASSUME NEW m \in Metadata, Coherent(m), NEW s \in Slots,
           s # m.active, s # m.lastGood,
           NEW b \in Bundle, Admitted(b, PolicyFloor(m))
    PROVE  Update(m, MarkVerified(m, s, b))
<1>1. PICK n : n = MarkVerified(m, s, b)
  OBVIOUS
<1>2. /\ n \in Metadata /\ n.active = m.active
      /\ n.slot[s].state = "verified"
      /\ \A x \in Slots : x # s => n.slot[x] = m.slot[x]
  BY <1>1, MarkFacts
<1>3. m.slot \in [Slots -> SlotRecord]
  BY MetadataType
<1>4. n.lastGood = m.lastGood /\ n.boots = m.boots /\ n.slot[s].bundle = b
  BY <1>1, <1>3 DEF MarkVerified, Metadata
<1> QED
  BY <1>1, <1>2, <1>4, MarkUpdates

-----------------------------------------------------------------------------
(***************************************************************************)
(* The inductive invariant.                                                *)
(***************************************************************************)

\* What is stored is coherent, and what is being written is an update of it.
UpdatesOnly ==
    Coherent(Stored) /\ (Writing => Update(Stored, job.next))

\* What the verify policy let through, and what a rollback runs.
AdmittedOnly ==
    /\ proven \subseteq Accepted
    /\ pc = "executing" => image[dec.slot] \in Accepted
    /\ ~AntiRollback => floor = 0
    /\ pc \in {"deciding", "decided"} /\ dec.kind = "rollback_to_last_good"
         => dec.slot = ram.lastGood

\* A blank device: nothing stored, nothing running.
LEMMA UpdateInit == Init => UpdatesOnly /\ AdmittedOnly
<1> SUFFICES ASSUME Init PROVE UpdatesOnly /\ AdmittedOnly
  OBVIOUS
<1>1. Stored = MetadataInit /\ job.phase = "idle"
  BY DEF Init, Stored, Journal!Init, Journal!Best, Journal!AnyValid,
     Journal!Valid, Journal!Torn, Journal!Index, Journal!IdleJob
<1>2. Coherent(MetadataInit)
  BY DEF Coherent, MetadataInit, SlotIsConfirmed, Slots, NoSlot
<1> QED
  BY <1>1, <1>2 DEF Init, UpdatesOnly, AdmittedOnly, Writing

\* A write that starts: what it carries is an update of what is stored.
LEMMA UpdateStarts ==
    ASSUME IInv, UpdatesOnly, NEW n \in Metadata, n.gen > Stored.gen,
           Journal!Write(n), UNCHANGED image, Update(Stored, n)
    PROVE  UpdatesOnly'
<1>1. Stored' = Stored /\ job'.next = n
  BY JournalWrite DEF IInv
<1> QED
  BY <1>1 DEF UpdatesOnly, Update, ReadyIn

\* The boot decision.
LEMMA DecideUpdates ==
    ASSUME IInv, UpdatesOnly, AdmittedOnly, BootDecide
    PROVE  UpdatesOnly' /\ AdmittedOnly'
<1>1. Stored \in Metadata /\ Stored.gen \in Nat /\ Coherent(Stored)
  BY StoredType, MetadataType DEF IInv, UpdatesOnly
<1>2. PICK m, d : m = OnBoot(Stored).meta /\ d = OnBoot(Stored).decision
  OBVIOUS
<1>3. /\ m \in Metadata /\ d \in Decisions
      /\ IF d.changed THEN m.gen = Stored.gen + 1 ELSE m = Stored
      /\ Update(Stored, m)
      /\ d.kind = "rollback_to_last_good" => d.slot = m.lastGood
  BY <1>1, <1>2, OnBootFacts, OnBootUpdates
<1>4. /\ ram' = m /\ dec' = d /\ floor' = PolicyFloor(Stored)
      /\ \/ d.changed /\ Journal!Write(m) /\ pc' = "deciding"
         \/ ~d.changed /\ UNCHANGED <<rec, job>> /\ pc' = "decided"
      /\ UNCHANGED <<image, proven>>
  BY <1>2 DEF BootDecide, history
<1>5. AdmittedOnly'
  BY <1>3, <1>4 DEF AdmittedOnly, PolicyFloor
<1>6. CASE d.changed /\ Journal!Write(m)
  BY <1>1, <1>3, <1>4, <1>5, <1>6, UpdateStarts
<1>7. CASE UNCHANGED <<rec, job>>
  BY <1>4, <1>5, <1>7, JournalIdle DEF IInv, UpdatesOnly, Update, ReadyIn, Writing
<1> QED
  BY <1>4, <1>5, <1>6, <1>7

\* fail_runtime and the end of a successful lifecycle: the outcome written is
\* that of the candidate on trial.
LEMMA OutcomeUpdates ==
    ASSUME IInv, UpdatesOnly, AdmittedOnly,
           \/ SlotUnreadable \/ SlotRejected \/ LifecycleFails
           \/ LifecycleSucceeds
    PROVE  UpdatesOnly' /\ AdmittedOnly'
<1>1. /\ Stored \in Metadata /\ Stored.gen \in Nat /\ Coherent(Stored)
      /\ ram = Stored /\ dec.slot \in Slots /\ UNCHANGED image
      /\ pc \in {"decided", "executing"} /\ ~Writing
      /\ dec.probation => /\ Stored.active = dec.slot
                          /\ Stored.slot[dec.slot].state = "running_pending"
      /\ pc = "executing" => image[dec.slot] = Stored.slot[dec.slot].bundle
  BY StoredType, MetadataType
     DEF IInv, TypeOK, UpdatesOnly, BootShape, Decisions, Writing, SlotUnreadable,
         SlotRejected, LifecycleFails, LifecycleSucceeds, FailRuntime
<1>2. ASSUME NEW reason \in Reasons, FailRuntime(reason)
      PROVE  UpdatesOnly' /\ AdmittedOnly'
  <2>1. CASE /\ dec.probation
             /\ ram' = RecordFault(ram, dec.slot, reason).meta
             /\ Journal!Write(ram') /\ pc' = "faulting"
             /\ UNCHANGED <<dec, floor>>
    <3>1. ram' \in Metadata /\ ram'.gen = Stored.gen + 1
      BY <1>1, <2>1, RollbackFacts DEF RecordFault
    <3>2. Update(Stored, ram')
      BY <1>1, <2>1, FaultUpdates
    <3>3. UpdatesOnly'
      BY <1>1, <2>1, <3>1, <3>2, UpdateStarts
    <3> QED
      BY <1>2, <2>1, <3>3 DEF AdmittedOnly, FailRuntime, history
  <2>2. CASE UNCHANGED <<rec, job>> /\ BootReturns
    <3>1. UpdatesOnly'
      BY <1>1, <2>2, JournalIdle DEF IInv, UpdatesOnly, Writing
    <3> QED
      BY <1>2, <2>2, <3>1 DEF AdmittedOnly, FailRuntime, history, BootReturns
  <2> QED
    BY <1>2, <2>1, <2>2 DEF FailRuntime
<1>3. CASE SlotUnreadable \/ SlotRejected \/ LifecycleFails
  BY <1>2, <1>3 DEF SlotUnreadable, SlotRejected, LifecycleFails, Reasons
<1>4. CASE LifecycleSucceeds
  <2>1. pc = "executing" /\ image[dec.slot] \in Accepted
    BY <1>4 DEF LifecycleSucceeds, AdmittedOnly
  <2>2. CASE /\ dec.probation
             /\ ram' = Confirm(ram, dec.slot) /\ Journal!Write(ram')
             /\ pc' = "confirming" /\ proven' = proven \cup {image[dec.slot]}
             /\ UNCHANGED <<dec, floor>>
    <3>1. ram' \in Metadata /\ ram'.gen = Stored.gen + 1
      BY <1>1, <2>2, ConfirmFacts
    <3>2. Update(Stored, ram')
      BY <1>1, <2>1, <2>2, ConfirmedUpdates
    <3>3. UpdatesOnly'
      BY <1>1, <2>2, <3>1, <3>2, UpdateStarts
    <3> QED
      BY <2>1, <2>2, <3>3 DEF AdmittedOnly
  <2>3. CASE BootReturns /\ UNCHANGED <<rec, job, proven>>
    <3>1. UpdatesOnly'
      BY <1>1, <2>3, JournalIdle DEF IInv, UpdatesOnly, Writing
    <3> QED
      BY <2>3, <3>1 DEF AdmittedOnly, BootReturns
  <2> QED
    BY <1>4, <2>2, <2>3 DEF LifecycleSucceeds
<1> QED
  BY <1>3, <1>4

\* The installer's two writes.
LEMMA InstallUpdates ==
    ASSUME IInv, UpdatesOnly, AdmittedOnly, NEW s \in Slots,
           InstallMark(s) \/ InstallPrepare(s)
    PROVE  UpdatesOnly' /\ AdmittedOnly'
<1>1. /\ Stored \in Metadata /\ Stored.gen \in Nat /\ Coherent(Stored)
      /\ s # Stored.active /\ s # Stored.lastGood
      /\ pc' = "installing"
      /\ UNCHANGED <<image, ram, dec, floor, proven>>
  BY StoredType, MetadataType
     DEF IInv, UpdatesOnly, InstallMark, InstallPrepare, Inactive, locals, history
<1>2. AdmittedOnly'
  BY <1>1 DEF AdmittedOnly
<1>3. CASE InstallMark(s)
  <2>1. PICK n : n = MarkVerified(Stored, s, image[s])
    OBVIOUS
  <2>2. /\ Journal!Write(n) /\ image[s] \in Bundle
        /\ Admitted(image[s], PolicyFloor(Stored))
    BY <1>3, <2>1, BootAssumption DEF InstallMark, Admitted
  <2>3. n \in Metadata /\ n.gen = Stored.gen + 1
    BY <1>1, <2>1, <2>2, MarkFacts
  <2>4. Update(Stored, n)
    BY <1>1, <2>1, <2>2, MarkedUpdates
  <2> QED
    BY <1>1, <1>2, <2>2, <2>3, <2>4, UpdateStarts
<1>4. CASE InstallPrepare(s)
  <2>1. PICK n : n = PreparePending(Stored, s)
    OBVIOUS
  <2>2. Journal!Write(n) /\ CanPreparePending(Stored, s)
    BY <1>4, <2>1 DEF InstallPrepare
  <2>3. n \in Metadata /\ n.gen = Stored.gen + 1
    BY <1>1, <2>1, PrepareFacts
  <2>4. Update(Stored, n)
    BY <1>1, <2>1, <2>2, PreparedUpdates
  <2> QED
    BY <1>1, <1>2, <2>2, <2>3, <2>4, UpdateStarts
<1> QED
  BY <1>3, <1>4

\* Steps of the boot path that start no write.
LEMMA QuietUpdates ==
    ASSUME IInv, UpdatesOnly, AdmittedOnly,
           \/ BootReadFails \/ NoBundleMode \/ StartApp \/ GuestDrivesOutput
           \/ Reboot
           \/ \E s \in Slots : EraseImage(s)
           \/ \E s \in Slots, b \in Bundle : DownloadImage(s, b)
           \/ UNCHANGED vars
    PROVE  UpdatesOnly' /\ AdmittedOnly'
<1>1. UNCHANGED <<rec, job, proven>>
  BY DEF BootReadFails, NoBundleMode, StartApp, GuestDrivesOutput, Reboot,
     Restart, EraseImage, DownloadImage, flash, history, vars
<1>2. Stored' = Stored
  BY <1>1, JournalIdle DEF IInv
<1>3. Writing => UNCHANGED image
  BY DEF IInv, BootShape, Writing, BootReadFails, NoBundleMode, StartApp,
     GuestDrivesOutput, Reboot, Restart, EraseImage, DownloadImage, flash, vars
<1>4. UpdatesOnly'
  BY <1>1, <1>2, <1>3 DEF UpdatesOnly, Update, ReadyIn, Writing
<1>5. CASE BootReadFails \/ NoBundleMode \/ Reboot
  BY <1>1, <1>4, <1>5
     DEF AdmittedOnly, BootReadFails, NoBundleMode, Reboot, Restart, BootReturns
<1>6. CASE StartApp
  BY <1>1, <1>4, <1>6
     DEF AdmittedOnly, StartApp, BundleIsExpected, Admitted, flash, locals
<1>7. CASE GuestDrivesOutput \/ UNCHANGED vars
  BY <1>1, <1>4, <1>7 DEF AdmittedOnly, GuestDrivesOutput, flash, locals, vars
<1>8. CASE \/ \E s \in Slots : EraseImage(s)
           \/ \E s \in Slots, b \in Bundle : DownloadImage(s, b)
  <2>1. pc = "up" /\ UNCHANGED <<pc, ram, dec, floor>>
    BY <1>8 DEF EraseImage, DownloadImage, locals
  <2> QED
    BY <1>1, <1>4, <2>1 DEF AdmittedOnly
<1> QED
  BY <1>5, <1>6, <1>7, <1>8

\* A running write: it stores the update, or leaves what was stored.
LEMMA WriteUpdates ==
    ASSUME IInv, UpdatesOnly, AdmittedOnly,
           \/ FlashStep \/ DecisionStored \/ DecisionNotStored
           \/ OutcomeWritten \/ InstallWritten \/ PowerLoss
    PROVE  UpdatesOnly' /\ AdmittedOnly'
<1>1. CASE FlashStep
  <2>1. /\ Writing /\ job'.next = job.next /\ Stored' \in {Stored, job.next}
        /\ UNCHANGED <<image, pc, ram, dec, floor, proven>>
    BY <1>1, JournalStep DEF IInv, FlashStep, locals, history
  <2>2. Stored' \in Metadata /\ Coherent(Stored') /\ Update(Stored, job.next)
    <3>1. Stored \in Metadata /\ job.next \in Metadata
      BY StoredType DEF IInv, Journal!IInv, Journal!TypeOK, Journal!Job
    <3> QED
      BY <2>1, <3>1 DEF UpdatesOnly, Update
  <2>3. Stored' = job.next => Update(Stored', job.next)
    BY <2>2, SameUpdates
  <2>4. UpdatesOnly'
    BY <2>1, <2>2, <2>3 DEF UpdatesOnly, Update, ReadyIn
  <2> QED
    BY <2>1, <2>4 DEF AdmittedOnly
<1>2. CASE \/ DecisionStored \/ DecisionNotStored
           \/ OutcomeWritten \/ InstallWritten
  <2>1. Stored' = Stored /\ job'.phase = "idle"
    BY <1>2, JournalReturn DEF IInv, DecisionStored, DecisionNotStored,
       OutcomeWritten, InstallWritten
  <2>2. /\ UNCHANGED <<image, proven>>
        /\ \/ /\ pc = "deciding" /\ pc' = "decided" /\ UNCHANGED <<ram, dec, floor>>
           \/ pc' = "up" /\ UNCHANGED <<ram, dec, floor>>
           \/ BootReturns
    BY <1>2 DEF DecisionStored, DecisionNotStored, OutcomeWritten,
       InstallWritten, locals, history
  <2>3. UpdatesOnly'
    BY <2>1 DEF UpdatesOnly, Writing
  <2> QED
    BY <2>2, <2>3 DEF AdmittedOnly, BootReturns
<1>3. CASE PowerLoss
  <2>1. Stored' = Stored /\ job'.phase = "idle"
    BY <1>3, JournalPowerLoss DEF IInv, PowerLoss
  <2>2. UpdatesOnly'
    BY <2>1 DEF UpdatesOnly, Writing
  <2> QED
    BY <1>3, <2>2 DEF AdmittedOnly, PowerLoss, Restart, history
<1> QED
  BY <1>1, <1>2, <1>3

\* One step per action.
LEMMA UpdateStepInv ==
    IInv /\ UpdatesOnly /\ AdmittedOnly /\ [Next]_vars
        => UpdatesOnly' /\ AdmittedOnly'
<1> SUFFICES ASSUME IInv, UpdatesOnly, AdmittedOnly, [Next]_vars
             PROVE  UpdatesOnly' /\ AdmittedOnly'
  OBVIOUS
<1>2. CASE BootDecide
  BY <1>2, DecideUpdates
<1>3. CASE \/ FlashStep \/ DecisionStored \/ DecisionNotStored
           \/ OutcomeWritten \/ InstallWritten \/ PowerLoss
  BY <1>3, WriteUpdates
<1>4. CASE \/ SlotUnreadable \/ SlotRejected \/ LifecycleFails
           \/ LifecycleSucceeds
  BY <1>4, OutcomeUpdates
<1>5. CASE \E s \in Slots : InstallMark(s) \/ InstallPrepare(s)
  BY <1>5, InstallUpdates
<1>6. CASE \/ BootReadFails \/ NoBundleMode \/ StartApp \/ GuestDrivesOutput
           \/ Reboot
           \/ \E s \in Slots : EraseImage(s)
           \/ \E s \in Slots, b \in Bundle : DownloadImage(s, b)
           \/ UNCHANGED vars
  BY <1>6, QuietUpdates
<1> QED
  BY <1>2, <1>3, <1>4, <1>5, <1>6 DEF Next, BootStep, Install

\* The invariant of the update holds in every reachable state.
THEOREM UpdateInv == Spec => [](UpdatesOnly /\ AdmittedOnly)
<1> QED
  BY UpdateInit, UpdateStepInv, BootInv, PTL DEF Spec

-----------------------------------------------------------------------------
(***************************************************************************)
(* What follows from it.                                                   *)
(***************************************************************************)

\* What a step does to the stored record: nothing, or the update that was
\* being written.  The images move only while nothing is being written, and
\* not in the fallback's slot.
LEMMA StoredStep ==
    ASSUME IInv, UpdatesOnly, [Next]_vars
    PROVE  \/ /\ Stored' = Stored
              /\ FallbackReady => FallbackReady'
           \/ /\ Stored' \in Metadata /\ Update(Stored, Stored')
              /\ UNCHANGED image
<1>1. Stored \in Metadata
  BY StoredType DEF IInv
<1>2. CASE FlashStep
  <2>1. /\ Writing /\ Stored' \in {Stored, job.next} /\ UNCHANGED image
    BY <1>2, JournalStep DEF IInv, FlashStep
  <2>2. job.next \in Metadata /\ Update(Stored, job.next)
    BY <2>1 DEF IInv, Journal!IInv, Journal!TypeOK, Journal!Job, UpdatesOnly
  <2> QED
    BY <2>1, <2>2 DEF FallbackReady
<1>3. ASSUME NEW s \in Slots, EraseImage(s) \/ \E b \in Bundle : DownloadImage(s, b)
      PROVE  Stored' = Stored /\ (FallbackReady => FallbackReady')
  <2>1. /\ UNCHANGED <<rec, job>> /\ s # Stored.lastGood
        /\ \E b : image' = [image EXCEPT ![s] = b]
    BY <1>3 DEF EraseImage, DownloadImage, Inactive
  <2>2. Stored' = Stored /\ image \in [Slots -> Bundle \cup {NoBundle}]
    BY <2>1, JournalIdle DEF IInv, TypeOK
  <2> QED
    BY <2>1, <2>2 DEF FallbackReady, FallbackIsValid, SlotIsConfirmed
<1>4. ASSUME Stored' = Stored, UNCHANGED image
      PROVE  FallbackReady => FallbackReady'
  BY <1>4 DEF FallbackReady
<1>5. CASE PowerLoss
  BY <1>4, <1>5, JournalPowerLoss DEF IInv, PowerLoss, Restart
<1>6. CASE \/ DecisionStored \/ DecisionNotStored
           \/ OutcomeWritten \/ InstallWritten
  BY <1>4, <1>6, JournalReturn DEF IInv, DecisionStored, DecisionNotStored,
     OutcomeWritten, InstallWritten
<1>7. CASE \/ BootDecide \/ SlotUnreadable \/ SlotRejected \/ LifecycleFails
           \/ LifecycleSucceeds
           \/ \E s \in Slots : InstallMark(s) \/ InstallPrepare(s)
  <2>1. UNCHANGED <<rec, image>>
    BY <1>7 DEF BootDecide, SlotUnreadable, SlotRejected, LifecycleFails,
       LifecycleSucceeds, FailRuntime, InstallMark, InstallPrepare, Journal!Write
  <2> QED
    BY <1>4, <2>1 DEF Stored
<1>8. CASE \/ BootReadFails \/ NoBundleMode \/ StartApp \/ GuestDrivesOutput
           \/ Reboot \/ UNCHANGED vars
  <2>1. UNCHANGED <<rec, image>>
    BY <1>8 DEF BootReadFails, NoBundleMode, StartApp, GuestDrivesOutput, Reboot,
       Restart, flash, vars
  <2> QED
    BY <1>4, <2>1 DEF Stored
<1> QED
  BY <1>2, <1>3, <1>5, <1>6, <1>7, <1>8 DEF Next, BootStep, Install

\* Once there is a confirmed bundle with its image in place there always is
\* one: no download, failed candidate, flash error or power loss takes the
\* fallback away, for any set of bundles and any number of installs.
THEOREM UpdateFallback == Spec => FallbackNeverLost
<1>1. IInv /\ UpdatesOnly /\ [Next]_vars => [FallbackReady => FallbackReady']_vars
  <2> SUFFICES ASSUME IInv, UpdatesOnly, [Next]_vars, FallbackReady
               PROVE  FallbackReady'
    OBVIOUS
  <2>1. CASE Stored' = Stored /\ (FallbackReady => FallbackReady')
    BY <2>1
  <2>2. CASE Update(Stored, Stored') /\ UNCHANGED image
    BY <2>2 DEF Update, ReadyIn, FallbackReady
  <2> QED
    BY <2>1, <2>2, StoredStep
<1> QED
  BY <1>1, BootInv, UpdateInv, PTL DEF Spec, FallbackNeverLost

\* The anti-rollback floor never drops: although it is recomputed from slots
\* that installs overwrite, a slot is only overwritten by a bundle that was
\* admitted against the floor itself.
THEOREM UpdateFloor == Spec => FloorNeverDrops
<1>1. IInv /\ UpdatesOnly /\ [Next]_vars
        => [AntiRollback => SecurityFloor(Stored') >= SecurityFloor(Stored)]_vars
  <2> SUFFICES ASSUME IInv, UpdatesOnly, [Next]_vars, AntiRollback
               PROVE  SecurityFloor(Stored') >= SecurityFloor(Stored)
    OBVIOUS
  <2>1. Stored \in Metadata
    BY StoredType DEF IInv
  <2>2. CASE Stored' = Stored
    <3>1. SecurityFloor(Stored) >= SecurityFloor(Stored)
      BY <2>1, FloorGrows, SlotFloorFacts
    <3> QED
      BY <2>2, <3>1
  <2>3. CASE Stored' \in Metadata /\ Update(Stored, Stored')
    BY <2>1, <2>3, FloorGrows DEF Update
  <2> QED
    BY <2>2, <2>3, StoredStep
<1> QED
  BY <1>1, BootInv, UpdateInv, PTL DEF Spec, FloorNeverDrops

\* Where the profile has no anti-rollback floor, a boot that rolls back to the
\* last confirmed slot finds its intact bundle admitted.  (With the floor it
\* need not: the run floor_blocks_fallback.)
THEOREM UpdateRollbackAdmitted ==
    ASSUME ~AntiRollback
    PROVE  Spec => []RollbackIsAdmitted
<1>1. ASSUME IInv, AdmittedOnly PROVE RollbackIsAdmitted
  <2> SUFFICES ASSUME pc = "decided", dec.kind = "rollback_to_last_good",
                      FallbackReady
               PROVE  Admitted(image[dec.slot], floor)
    BY DEF RollbackIsAdmitted
  <2>1. floor = 0 /\ dec.slot = Stored.lastGood /\ proven \subseteq Accepted
    BY <1>1 DEF IInv, BootShape, AdmittedOnly
  <2>2. /\ Stored.lastGood \in Slots
        /\ Stored.slot[Stored.lastGood].state = "confirmed"
        /\ image[dec.slot] = Stored.slot[Stored.lastGood].bundle
    BY <2>1 DEF FallbackReady, FallbackIsValid, SlotIsConfirmed
  <2>3. image[dec.slot] \in Accepted
    BY <1>1, <2>1, <2>2 DEF IInv, ConfirmationsProven, ConfirmedProven
  <2>4. Counter[image[dec.slot]] \in Nat
    BY <2>3, BundleAssumption, BootAssumption
  <2> QED
    BY <2>1, <2>3, <2>4 DEF Admitted
<1> QED
  BY <1>1, BootInv, UpdateInv, PTL

\* Starting a trial changes its started field and nothing else.
LEMMA TrialStarted ==
    ASSUME NEW b, NEW f, NEW g
    PROVE  [[bundle |-> b, started |-> f] EXCEPT !.started = g]
             = [bundle |-> b, started |-> g]
OBVIOUS

\* Slots, journal, flash errors, crashes and all, the device implements the
\* update protocol: a trial is staged, started once, and accepted or rejected,
\* and trust moves only to a bundle whose trial was started.
THEOREM UpdateImplements == Spec => ImplementsProtocol
<1>1. Init => Protocol!Init
  <2> SUFFICES ASSUME Init PROVE Protocol!Init
    OBVIOUS
  <2>1. Stored = MetadataInit
    BY DEF Init, Stored, Journal!Init, Journal!Best, Journal!AnyValid,
       Journal!Valid, Journal!Torn, Journal!Index, Journal!IdleJob
  <2>2. MetadataInit.active \notin Slots /\ MetadataInit.lastGood \notin Slots
    BY DEF MetadataInit, Slots, NoSlot
  <2> QED
    BY <2>1, <2>2 DEF Protocol!Init, Protocol!NoTrial, FallbackIsValid,
       SlotIsConfirmed
<1>2. IInv /\ UpdatesOnly /\ [Next]_vars => [Protocol!Next]_(Protocol!vars)
  <2> SUFFICES ASSUME IInv, UpdatesOnly, [Next]_vars
               PROVE  [Protocol!Next]_(Protocol!vars)
    OBVIOUS
  <2>1. CASE Stored' = Stored
    BY <2>1 DEF Protocol!vars
  <2>2. CASE Update(Stored, Stored')
    <3>1. ProtocolStep(Stored, Stored')
      BY <2>2 DEF Update
    <3>2. CASE Trusted(Stored') = Trusted(Stored) /\ Trial(Stored') = Trial(Stored)
      BY <3>2 DEF Protocol!vars, Trusted, Trial, NoTrial
    <3>3. ASSUME Trusted(Stored') = Trusted(Stored), NEW b \in Bundle,
                 Trial(Stored') = [bundle |-> b, started |-> FALSE]
          PROVE  Protocol!Next
      BY <3>3 DEF Protocol!Next, Protocol!Stage, Trusted, Trial, NoTrial
    <3>4. ASSUME Trusted(Stored') = Trusted(Stored), NEW b \in Bundle,
                 Trial(Stored) = [bundle |-> b, started |-> FALSE],
                 Trial(Stored') = [bundle |-> b, started |-> TRUE]
          PROVE  Protocol!Next
      <4>1. [[bundle |-> b, started |-> FALSE] EXCEPT !.started = TRUE]
              = [bundle |-> b, started |-> TRUE]
        BY TrialStarted
      <4>2. PICK t, u : /\ t = [bundle |-> b, started |-> FALSE]
                        /\ u = [bundle |-> b, started |-> TRUE]
        OBVIOUS
      <4>3. t # Protocol!NoTrial /\ ~t.started /\ u = [t EXCEPT !.started = TRUE]
        <5>1. u = [t EXCEPT !.started = TRUE]
          BY <4>1, <4>2, Zenon
        <5>2. t # Protocol!NoTrial /\ ~t.started
          BY <4>2, BundleAssumption DEF Protocol!NoTrial
        <5> QED
          BY <5>1, <5>2
      <4>4. Trial(Stored) = t /\ Trial(Stored') = u
        BY <3>4, <4>2
      <4>5. Protocol!Start
        BY <3>4, <4>3, <4>4 DEF Protocol!Start, Trusted, Trial, NoTrial
      <4> QED
        BY <4>5 DEF Protocol!Next
    <3>5. ASSUME Trial(Stored).started, Trial(Stored') = NoTrial,
                 Trusted(Stored') = Trusted(Stored)
          PROVE  Protocol!Next
      BY <3>5 DEF Protocol!Next, Protocol!Reject, Protocol!NoTrial, Trusted, Trial,
         NoTrial
    <3>6. ASSUME Trial(Stored).started, Trial(Stored') = NoTrial,
                 Trusted(Stored') = Trial(Stored).bundle
          PROVE  Protocol!Next
      BY <3>6 DEF Protocol!Next, Protocol!Accept, Protocol!NoTrial, Trusted, Trial,
         NoTrial
    <3> QED
      BY <3>1, <3>2, <3>3, <3>4, <3>5, <3>6 DEF ProtocolStep
  <2> QED
    BY <2>1, <2>2, StoredStep
<1> QED
  BY <1>1, <1>2, BootInv, UpdateInv, PTL DEF Spec, ImplementsProtocol, Protocol!Spec

=============================================================================
