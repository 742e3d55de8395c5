------------------------------ MODULE WdcBoot ------------------------------
(***************************************************************************)
(* The shell's boot path: wdc_shell_run_r8_active_slot_probe and           *)
(* wdc_app_boot_active_slot, over the activation rules (WdcActivation) and *)
(* the metadata journal (WdcOtaJournal), with power loss and flash errors  *)
(* at every step that touches the flash.                                   *)
(*                                                                         *)
(* The installer is not part of the firmware at this commit; its steps are *)
(* the ones the activation documentation lists (write the inactive slot,   *)
(* verify, mark verified, prepare pending, reboot), each of them the       *)
(* firmware's own function applied to the stored metadata.                 *)
(***************************************************************************)
EXTENDS WdcActivation

CONSTANTS
    Accepted,       \* bundles wdc_bundle_verify accepts, counter floor aside
    AntiRollback,   \* WdcSecurityPolicy.anti_rollback_enabled
    MaxInstalls     \* bound: how many downloads are marked verified

ASSUME BootAssumption ==
    /\ Accepted \subseteq Bundle
    /\ AntiRollback \in BOOLEAN
    /\ MaxInstalls \in Nat

VARIABLES
    rec, job,   \* the metadata journal and its running write (WdcOtaJournal)
    image,      \* what the partitions wasm_a and wasm_b hold
    pc,         \* where the boot path, or the installer, is
    ram,        \* the boot path's copy of the metadata
    dec,        \* its activation decision
    floor,      \* its verify policy's min_security_counter
    app,        \* WdcSafetyStatus.state
    outputs,    \* whether the physical outputs are at their safe levels
    installs,   \* how many downloads were marked verified, for MaxInstalls
    tries,      \* history: probation runs of a slot since it was prepared
    proven      \* history: bundles that passed init and health on probation

flash == <<rec, image>>
locals == <<ram, dec, floor>>
history == <<tries, proven>>
vars == <<rec, job, image, pc, ram, dec, floor, app, outputs, installs,
          tries, proven>>

Journal == INSTANCE WdcOtaJournal

Stored == Journal!Best(rec)

PCs == {"off", "deciding", "decided", "executing", "faulting", "confirming",
        "up", "installing"}

AppStates == {"uninitialized", "boot_safe", "no_bundle", "running",
              "fault_stopped"}

NoDecision == Decision("no_bundle", NoSlot, FALSE, FALSE)

Init ==
    /\ Journal!Init
    /\ image = [s \in Slots |-> NoBundle]
    /\ pc = "off"
    /\ ram = MetadataInit /\ dec = NoDecision /\ floor = 0
    /\ app = "uninitialized" /\ outputs = "safe"
    /\ installs = 0
    /\ tries = [s \in Slots |-> 0]
    /\ proven = {}

\* The boot path returns to shell_main: its local variables are gone.
BootReturns ==
    /\ pc' = "up"
    /\ ram' = MetadataInit /\ dec' = NoDecision /\ floor' = 0

-----------------------------------------------------------------------------
(***************************************************************************)
(* Boot: shell_main's wdc_safety_init, then the active-slot probe.         *)
(***************************************************************************)

\* wdc_security_make_bundle_verify_policy, from the metadata as it was read.
PolicyFloor_m1(m) == SecurityFloor(m)   \* mutant: the floor in every profile
PolicyFloor(m) == IF AntiRollback THEN SecurityFloor(m) ELSE 0

\* wdc_bundle_verify: the ordered checks end in one verdict; the counter
\* floor is the one that depends on the state of the device.
Admitted_m1(b, minimum) == b \in Accepted   \* mutant: no counter check
Admitted(b, minimum) == b \in Accepted /\ Counter[b] >= minimum

BootReadFails ==
    /\ pc = "off"
    /\ BootReturns
    /\ app' = "boot_safe" /\ outputs' = "safe"
    /\ UNCHANGED <<flash, job, installs, history>>

\* Read the metadata, fix the verify policy, take the activation decision and
\* start writing the metadata if the decision changed it.
BootDecide ==
    LET r == OnBoot(Stored)
    IN  /\ pc = "off"
        /\ ram' = r.meta
        /\ dec' = r.decision
        /\ floor' = PolicyFloor(Stored)
        /\ app' = "boot_safe" /\ outputs' = "safe"
        /\ \/ /\ r.decision.changed
              /\ Journal!Write(r.meta)
              /\ pc' = "deciding"
           \/ /\ ~r.decision.changed
              /\ UNCHANGED <<rec, job>>
              /\ pc' = "decided"
        /\ UNCHANGED <<image, installs, history>>

\* write_metadata_if_changed: the boot goes on only if the decision is stored.
DecisionStored ==
    /\ pc = "deciding"
    /\ job.status = "OK"
    /\ Journal!Return
    /\ pc' = "decided"
    /\ UNCHANGED <<image, locals, app, outputs, installs, history>>

DecisionNotStored ==
    /\ pc = "deciding"
    /\ job.status = "IO"
    /\ Journal!Return
    /\ BootReturns
    /\ UNCHANGED <<image, app, outputs, installs, history>>

\* wdc_safety_enter_no_bundle_mode
NoBundleMode ==
    /\ pc = "decided"
    /\ dec.slot = NoSlot
    /\ app' = "no_bundle" /\ outputs' = "safe"
    /\ BootReturns
    /\ UNCHANGED <<flash, job, installs, history>>

\* fail_runtime: stop the app, force safe outputs, and, on probation, fail the
\* candidate and start writing that.
FailRuntime(reason) ==
    /\ app' = "fault_stopped" /\ outputs' = "safe"
    /\ \/ /\ dec.probation /\ CanRecordFault(ram, dec.slot)
          /\ ram' = RecordFault(ram, dec.slot, reason).meta
          /\ Journal!Write(ram')
          /\ pc' = "faulting"
          /\ UNCHANGED <<dec, floor>>
       \/ /\ ~(dec.probation /\ CanRecordFault(ram, dec.slot))
          /\ UNCHANGED <<rec, job>>
          /\ BootReturns
    /\ UNCHANGED <<image, installs, history>>

\* wdc_ota_read_slot_to_buffer fails: a flash error, or no bundle header.
SlotUnreadable ==
    /\ pc = "decided"
    /\ dec.slot # NoSlot
    /\ FailRuntime("IO")

\* The bundle does not verify, or is not the one the metadata describes.
BundleIsExpected_m1 == Admitted(image[dec.slot], floor)   \* mutant: no hash
BundleIsExpected ==
    /\ Admitted(image[dec.slot], floor)
    /\ image[dec.slot] = ram.slot[dec.slot].bundle

SlotRejected ==
    /\ pc = "decided"
    /\ dec.slot # NoSlot
    /\ image[dec.slot] # NoBundle
    /\ ~BundleIsExpected
    /\ FailRuntime("CONTRACT_VIOLATION")

\* Limits and guarded authorizer installed, wdc_safety_mark_app_running, the
\* module loaded; the guest's init and health calls follow.
StartApp ==
    /\ pc = "decided"
    /\ dec.slot # NoSlot
    /\ BundleIsExpected
    /\ app' = "running"
    /\ pc' = "executing"
    /\ tries' = [tries EXCEPT ![dec.slot] = IF dec.probation THEN @ + 1 ELSE @]
    /\ UNCHANGED <<flash, job, locals, outputs, installs, proven>>

\* An authorized host call of the guest drives an output (WdcSafety).
GuestDrivesOutput ==
    /\ pc = "executing"
    /\ outputs' = "unsafe"
    /\ UNCHANGED <<flash, job, pc, locals, app, installs, history>>

\* Runtime init, load, export lookup, guest init or guest health fails.
LifecycleFails ==
    /\ pc = "executing"
    /\ FailRuntime("GUEST")

\* All of them succeed.  On probation the candidate is confirmed in RAM and
\* the write of that is started.
LifecycleSucceeds ==
    /\ pc = "executing"
    /\ \/ /\ dec.probation /\ CanConfirm(ram, dec.slot)
          /\ ram' = Confirm(ram, dec.slot)
          /\ Journal!Write(ram')
          /\ pc' = "confirming"
          /\ proven' = proven \cup {image[dec.slot]}
          /\ UNCHANGED <<dec, floor>>
       \/ /\ ~(dec.probation /\ CanConfirm(ram, dec.slot))
          /\ BootReturns
          /\ UNCHANGED <<rec, job, proven>>
    /\ UNCHANGED <<image, app, outputs, installs, tries>>

\* The write of a failed or confirmed candidate returns.  Its status is
\* ignored by fail_runtime, and reported but not acted on after a confirmation.
OutcomeWritten ==
    /\ pc \in {"faulting", "confirming"}
    /\ Journal!Return
    /\ BootReturns
    /\ UNCHANGED <<image, app, outputs, installs, history>>

-----------------------------------------------------------------------------
(***************************************************************************)
(* The installer (external), while the shell is up.                        *)
(***************************************************************************)

\* "install bundle into inactive slot": neither the active nor the fallback.
Inactive(s) == s # Stored.active /\ s # Stored.lastGood

EraseImage(s) ==
    /\ pc = "up"
    /\ Inactive(s)
    /\ image' = [image EXCEPT ![s] = NoBundle]
    /\ UNCHANGED <<rec, job, pc, locals, app, outputs, installs, history>>

DownloadImage(s, b) ==
    /\ pc = "up"
    /\ Inactive(s)
    /\ image[s] = NoBundle
    /\ image' = [image EXCEPT ![s] = b]
    /\ UNCHANGED <<rec, job, pc, locals, app, outputs, installs, history>>

InstallMark(s) ==
    /\ pc = "up"
    /\ installs < MaxInstalls
    /\ Inactive(s)
    /\ Admitted(image[s], PolicyFloor(Stored))
    /\ Journal!Write(MarkVerified(Stored, s, image[s]))
    /\ pc' = "installing"
    /\ installs' = installs + 1
    /\ UNCHANGED <<image, locals, app, outputs, history>>

InstallPrepare(s) ==
    /\ pc = "up"
    /\ Inactive(s)
    /\ CanPreparePending(Stored, s)
    /\ Journal!Write(PreparePending(Stored, s))
    /\ pc' = "installing"
    /\ tries' = [tries EXCEPT ![s] = 0]
    /\ UNCHANGED <<image, locals, app, outputs, installs, proven>>

InstallWritten ==
    /\ pc = "installing"
    /\ Journal!Return
    /\ pc' = "up"
    /\ UNCHANGED <<image, locals, app, outputs, installs, history>>

-----------------------------------------------------------------------------

\* A step inside a running wdc_ota_write_metadata.
FlashStep ==
    /\ Journal!Step
    /\ UNCHANGED <<image, pc, locals, app, outputs, installs, history>>

Restart ==
    /\ pc' = "off"
    /\ ram' = MetadataInit /\ dec' = NoDecision /\ floor' = 0
    /\ app' = "uninitialized" /\ outputs' = "safe"
    /\ UNCHANGED <<image, installs, history>>

\* Power loss, or a watchdog reset, anywhere in the boot or the installation.
PowerLoss ==
    /\ pc \notin {"off", "up"}
    /\ Journal!PowerLoss
    /\ Restart

\* A reset while the shell only idles, wanted or not.
Reboot ==
    /\ pc = "up"
    /\ Restart
    /\ UNCHANGED <<rec, job>>

BootStep ==
    \/ BootDecide \/ DecisionStored \/ DecisionNotStored
    \/ NoBundleMode \/ SlotUnreadable \/ SlotRejected \/ StartApp
    \/ LifecycleFails \/ LifecycleSucceeds \/ OutcomeWritten
    \/ FlashStep

Install ==
    \/ \E s \in Slots : EraseImage(s) \/ InstallMark(s) \/ InstallPrepare(s)
    \/ \E s \in Slots, b \in Bundle : DownloadImage(s, b)
    \/ InstallWritten

Next ==
    \/ BootStep \/ BootReadFails \/ GuestDrivesOutput
    \/ Install
    \/ PowerLoss \/ Reboot

\* The boot path is straight-line code and runs to its end unless power is
\* lost; a device with a candidate waiting is eventually reset (the update
\* flow is reboot-based), and a started install call returns.
Fairness ==
    /\ WF_vars(BootStep)
    /\ WF_vars(InstallWritten)
    /\ WF_vars(Reboot)

Spec == Init /\ [][Next]_vars

FairSpec == Spec /\ Fairness

-----------------------------------------------------------------------------
(***************************************************************************)
(* Properties                                                              *)
(***************************************************************************)

\* Flash, the boot path's locals and the safety state have the types of the
\* structures they stand for.
TypeOK ==
    /\ Journal!TypeOK
    /\ image \in [Slots -> Bundle \cup {NoBundle}]
    /\ pc \in PCs
    /\ ram \in Metadata /\ dec \in Decisions /\ floor \in Nat
    /\ app \in AppStates /\ outputs \in {"safe", "unsafe"}
    /\ installs \in 0..MaxInstalls
    /\ tries \in [Slots -> Nat]
    /\ proven \subseteq Bundle

\* The journal's caller obligation: whatever the boot path or the installer
\* passes to wdc_ota_write_metadata is newer than what is stored.  Without it
\* a write could return OK and still never be read back.
WritesAreNewer ==
    job.phase \in {"scan", "erase", "program"}
        => job.next.gen > Stored.gen \/ job.next = Stored

\* Probation is single-shot: however resets and failed writes fall, a candidate
\* starts at most once for each time it was prepared ("An unconfirmed candidate
\* that faults or resets must be marked failed and rolled back").
CandidateRunsOnce == FailRunningOnBoot => \A s \in Slots : tries[s] <= 1

\* A slot is stored as confirmed only if the very bundle it describes has
\* passed init and health on probation, also when the slot was rewritten
\* between verification and activation.
ConfirmedWasProven ==
    \A s \in Slots : Stored.slot[s].state = "confirmed"
                        => Stored.slot[s].bundle \in proven

\* Where the boot path is, against the journal's call and its own copy of the
\* metadata; a slot that runs holds the bundle its record describes.
BootShape ==
    /\ job.phase = "idle" <=> pc \in {"off", "up", "decided", "executing"}
    /\ pc \in {"deciding", "faulting", "confirming"} => job.next = ram
    /\ pc \in {"decided", "executing"} => ram = Stored
    /\ pc \in {"deciding", "decided", "executing"} /\ dec.probation
         => /\ dec.slot \in Slots /\ ram.active = dec.slot
            /\ ram.slot[dec.slot].state = "running_pending"
    /\ pc = "executing"
         => /\ dec.slot \in Slots /\ image[dec.slot] \in Bundle
            /\ image[dec.slot] = ram.slot[dec.slot].bundle

Writing == job.phase \in {"scan", "erase", "program"}

PendingUntried(m) ==
    m.active \in Slots /\ m.slot[m.active].state = "pending"
        => tries[m.active] = 0

\* Whatever is stored or about to be stored as waiting has not run yet.
TrialsCounted ==
    FailRunningOnBoot =>
      /\ \A s \in Slots : tries[s] <= 1
      /\ PendingUntried(Stored)
      /\ Writing => PendingUntried(job.next)
      /\ pc \in {"deciding", "decided"} /\ dec.probation => tries[dec.slot] = 0

ConfirmedProven(m) ==
    \A s \in Slots : m.slot[s].state = "confirmed" => m.slot[s].bundle \in proven

\* Whatever is stored or about to be stored as confirmed is proven.
ConfirmationsProven ==
    ConfirmedProven(Stored) /\ (Writing => ConfirmedProven(job.next))

\* The inductive invariant of the boot path (WdcBootProofs).
IInv ==
    TypeOK /\ Journal!IInv /\ BootShape /\ TrialsCounted /\ ConfirmationsProven

FallbackReady ==
    /\ FallbackIsValid(Stored)
    /\ image[Stored.lastGood] = Stored.slot[Stored.lastGood].bundle

\* Once there is a confirmed bundle to fall back to there always is one, with
\* its image in the slot the metadata names: no download, failed candidate,
\* flash error or power loss takes it away.
FallbackNeverLost == [][FallbackReady => FallbackReady']_vars

\* The anti-rollback floor computed from the stored metadata never drops, even
\* though it is recomputed from slots that installs overwrite.
FloorNeverDrops ==
    [][AntiRollback => SecurityFloor(Stored') >= SecurityFloor(Stored)]_vars

\* A boot that rolls back to the last confirmed slot does not then turn that
\* slot's intact bundle away ("If probation fails, shell marks candidate failed
\* and reverts to last confirmed slot", contract 001, 12.2).
RollbackIsAdmitted ==
    pc = "decided" /\ dec.kind = "rollback_to_last_good" /\ FallbackReady
        => Admitted(image[dec.slot], floor)

\* An update that did not end in a stored confirmation leaves the outputs safe
\* once the boot path has returned ("Boot, no-bundle, fault, and failed-update
\* paths force safe outputs", TRUST_BOUNDARY).
FailedUpdateIsSafe ==
    pc = "up" /\ Stored.active \in Slots /\ OnProbation(Stored, Stored.active)
        => outputs = "safe"

Protocol == INSTANCE UpdateProtocol WITH
    trusted <- IF FallbackIsValid(Stored)
               THEN Stored.slot[Stored.lastGood].bundle ELSE NoBundle,
    trial   <- IF Stored.active \in Slots /\ OnProbation(Stored, Stored.active)
               THEN [bundle  |-> Stored.slot[Stored.active].bundle,
                     started |-> Stored.slot[Stored.active].state
                                   = "running_pending"]
               ELSE [bundle |-> NoBundle, started |-> FALSE]

\* Slots, journal, crashes and all, the device implements the update protocol.
ImplementsProtocol == Protocol!Spec

TrialOpen ==
    Stored.active \in Slots /\ OnProbation(Stored, Stored.active)

Disturbance ==
    \/ PowerLoss
    \/ BootReadFails
    \/ Journal!ScanFails \/ Journal!EraseFails \/ Journal!ProgramFails

\* Once flash errors and resets in the middle of a boot stop, every candidate
\* is confirmed or failed in the stored metadata.
TrialsSettle ==
    <>[][~Disturbance]_vars => (TrialOpen ~> ~TrialOpen)

=============================================================================
