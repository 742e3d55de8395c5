--------------------------- MODULE WdcActivation ---------------------------
(***************************************************************************)
(* wdc_activation.c: the A/B activation rules.  Each function of the file  *)
(* is an operator from a metadata record to a metadata record; the ones    *)
(* that take a decision return it together with the new record.  The       *)
(* persistence of the result is the caller's business (WdcBoot).           *)
(***************************************************************************)
EXTENDS WdcMetadata

CONSTANTS
    MaxCandidateBoots,   \* WdcActivationPolicy.max_candidate_boots
    FailRunningOnBoot    \* WdcActivationPolicy.fail_running_candidate_on_boot

ASSUME PolicyAssumption ==
    /\ MaxCandidateBoots \in Nat
    /\ FailRunningOnBoot \in BOOLEAN

\* normalize_policy: zero stands for WDC_ACTIVATION_DEFAULT_MAX_CANDIDATE_BOOTS.
BootBudget == IF MaxCandidateBoots = 0 THEN 1 ELSE MaxCandidateBoots

DecisionKinds == {"no_bundle", "run_confirmed", "run_candidate",
                  "rollback_to_last_good", "fault_no_fallback"}

\* The fields of WdcActivationDecision that a caller acts on.
Decision(kind, slot, probation, changed) ==
    [kind |-> kind, slot |-> slot, probation |-> probation, changed |-> changed]

Decisions == [kind : DecisionKinds, slot : Slots \cup {NoSlot},
              probation : BOOLEAN, changed : BOOLEAN]

-----------------------------------------------------------------------------

\* slot_is_confirmed
SlotIsConfirmed(m, s) == s \in Slots /\ m.slot[s].state = "confirmed"

\* fallback_is_valid
FallbackIsValid(m) == SlotIsConfirmed(m, m.lastGood)

OnProbation(m, s) == m.slot[s].state \in {"pending", "running_pending"}

\* rollback_to_last_good: the failed slot is marked first, so it can never be
\* its own fallback.
RollbackToLastGood_m1(m, s, reason) ==   \* mutant: fails the fallback
    [meta |-> [m EXCEPT !.slot[IF m.lastGood = NoSlot THEN s ELSE m.lastGood].state
                            = "failed",
                        !.active = NoSlot, !.gen = @ + 1],
     decision |-> Decision("fault_no_fallback", NoSlot, FALSE, TRUE)]
RollbackToLastGood(m, s, reason) ==
    LET failed == [m EXCEPT !.slot[s].state = "failed",
                            !.faults = @ + 1,
                            !.reason = reason,
                            !.gen = @ + 1]
    IN  IF FallbackIsValid(failed)
        THEN [meta |-> [failed EXCEPT !.active = failed.lastGood],
              decision |-> Decision("rollback_to_last_good", failed.lastGood,
                                    FALSE, TRUE)]
        ELSE [meta |-> [failed EXCEPT !.active = NoSlot],
              decision |-> Decision("fault_no_fallback", NoSlot, FALSE, TRUE)]

\* wdc_activation_prepare_pending
CanPreparePending(m, s) == m.slot[s].state = "verified"

PreparePending(m, s) ==
    [m EXCEPT !.lastGood = IF SlotIsConfirmed(m, m.active) THEN m.active ELSE @,
              !.slot[s].state = "pending",
              !.active = s,
              !.boots = 0,
              !.faults = 0,
              !.reason = "OK",
              !.gen = @ + 1]

-----------------------------------------------------------------------------
(***************************************************************************)
(* wdc_activation_on_boot, one operator for each case of the active slot.  *)
(***************************************************************************)

OnBootNoActive(m) ==
    IF FallbackIsValid(m)
    THEN [meta |-> [m EXCEPT !.active = m.lastGood, !.gen = @ + 1],
          decision |-> Decision("run_confirmed", m.lastGood, FALSE, TRUE)]
    ELSE [meta |-> m, decision |-> Decision("no_bundle", NoSlot, FALSE, FALSE)]

OnBootConfirmed(m) ==
    IF m.lastGood # m.active
    THEN [meta |-> [m EXCEPT !.lastGood = m.active, !.gen = @ + 1],
          decision |-> Decision("run_confirmed", m.active, FALSE, TRUE)]
    ELSE [meta |-> m,
          decision |-> Decision("run_confirmed", m.active, FALSE, FALSE)]

OnBootPending_m1(m) ==   \* mutant: the trial is not recorded as started
    [meta |-> [m EXCEPT !.boots = @ + 1, !.gen = @ + 1],
     decision |-> Decision("run_candidate", m.active, TRUE, TRUE)]
OnBootPending(m) ==
    IF m.boots >= BootBudget
    THEN RollbackToLastGood(m, m.active, "TIMEOUT")
    ELSE [meta |-> [m EXCEPT !.boots = @ + 1,
                             !.slot[m.active].state = "running_pending",
                             !.gen = @ + 1],
          decision |-> Decision("run_candidate", m.active, TRUE, TRUE)]

OnBootRunningPending_m1(m) ==   \* mutant: an interrupted candidate resumes
    [meta |-> m, decision |-> Decision("run_candidate", m.active, TRUE, FALSE)]
OnBootRunningPending_m2(m) ==   \* mutant: an interrupted candidate is left
    [meta |-> m, decision |-> Decision("no_bundle", NoSlot, FALSE, FALSE)]
OnBootRunningPending(m) ==
    IF FailRunningOnBoot
    THEN RollbackToLastGood(m, m.active, "NOT_SYNCHRONIZED")
    ELSE [meta |-> m,
          decision |-> Decision("run_candidate", m.active, TRUE, FALSE)]

OnBoot(m) ==
    CASE m.active = NoSlot -> OnBootNoActive(m)
      [] m.active \in Slots /\ m.slot[m.active].state = "confirmed"
           -> OnBootConfirmed(m)
      [] m.active \in Slots /\ m.slot[m.active].state = "pending"
           -> OnBootPending(m)
      [] m.active \in Slots /\ m.slot[m.active].state = "running_pending"
           -> OnBootRunningPending(m)
      [] OTHER -> RollbackToLastGood(m, m.active, "INVALID_STATE")

-----------------------------------------------------------------------------

\* wdc_activation_confirm
CanConfirm(m, s) == m.active = s /\ OnProbation(m, s)

Confirm_m1(m, s) ==   \* mutant: a counter decremented instead of cleared
    [m EXCEPT !.slot[s].state = "confirmed", !.lastGood = s, !.boots = 0,
              !.faults = @ - 1, !.reason = "OK", !.gen = @ + 1]
Confirm(m, s) ==
    [m EXCEPT !.slot[s].state = "confirmed",
              !.lastGood = s,
              !.boots = 0,
              !.faults = 0,
              !.reason = "OK",
              !.gen = @ + 1]

\* wdc_activation_record_fault (wdc_activation_abort_pending is a synonym)
CanRecordFault(m, s) == OnProbation(m, s)

RecordFault(m, s, reason) == RollbackToLastGood(m, s, reason)

=============================================================================
