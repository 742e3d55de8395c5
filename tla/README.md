# Verification of the Pulse ESP32 host

TLA+ models of the firmware under `firmware/` — a shell for the ESP32-S3 that
installs signed WASM bundles into two flash slots, boots one of them under
capability control, and falls back to the last confirmed bundle when a new one
fails. The models cover the whole path from the bytes of a slot to the last host
call of the guest that runs from it. They are checked with TLC on small instances, and
nearly all of their safety properties are proved with TLAPS for every value of the
constants; section 6 says which, and from what.

Unless a file is named in full, paths are under `firmware/components/`.

## 1. The system

| Component | State it keeps | Operations | Talks to |
|---|---|---|---|
| `wdc_ota` | two metadata records in the `wasm_meta` partition; slot images in `wasm_a`, `wasm_b` | read / write metadata, read slot, find active slot | flash driver; called by `wdc_app` and the shell |
| `wdc_bundle` | none (works on a caller's `WdcBundleMetadataV1` and image) | metadata init / seal / mark verified; the ordered bundle checks | `wdc_activation`, `wdc_app` |
| `wdc_activation` | none (works on metadata) | prepare pending, on boot, confirm, record fault | `wdc_app`, an installer |
| `wdc_security` | none (policy structs) | security floor, verify policy, judgement of a verify result, preflight | `wdc_bundle`, `wdc_app` |
| `wdc_app` | active capability set and limits | `wdc_app_boot_active_slot`, fault path | everything above, runtime, safety |
| `wdc_safety` | state, guarded authorizer, status | init, no-bundle, mark running, stop, install / clear authorizer, authorize a host call | HAL, capabilities, event queue |
| `wdc_hal` | table of configured GPIO levels | configure safe defaults, set, get, compare with safe levels | GPIO driver |
| `wdc_caps` | per-capability rate windows | parse a manifest's capabilities, authorize a host call | called by `wdc_safety` |
| `wdc_abi` | limits; timers; configuration values | host-call dispatch, CBOR | authorizer, HAL, net |
| `wdc_events` | ring of events, next id, dropped count | init, push, pop; CBOR envelope | safety, net, shell |
| `wdc_net` | link state, request ids, a record of the last request per kind | link changes from a driver, network requests of the guest | host calls, events |
| `wdc_runtime` | the report and WAMR pointers of a `WdcRuntime`; whether WAMR is initialized | init, load, look up exports, guest calls, teardown; natives for log and host call | WAMR, host calls, diagnostics |
| `wdc_diag` | ring of records, sequence number, dropped count, breadcrumb of the last fault | record, snapshot, set breadcrumb | everyone |
| `wdc_profile` | none (built-in tables) | look up, validate | HAL, caps, safety |
| `firmware/main` | none | boot order, self-tests, idle loop that drains events | everything |

What is hard here:

* **Failure at the flash.** A metadata write is an erase and a program of one of
  two sectors; either can fail, and power can go at any moment, so every write
  of the boot path may or may not have happened.
* **Resets as part of the protocol.** The A/B rules are spread over several
  boots. What a reset in the middle leads to is decided by the *next* boot,
  from whatever reached the flash.
* **Stale facts.** A slot is verified when installed and run in a later boot; the
  anti-rollback floor is recomputed from records that later installs overwrite;
  rate windows, configuration values and timers outlive the capability set they
  were made under; authority and limits outlive the runtime.
* **Partial failure.** Forcing outputs safe stops at the first pin that fails;
  the confirmation of a candidate can be made in RAM and fail to reach the flash; a
  host call takes effect and its answer does not fit; loading a module makes three
  WAMR objects and may stop at any of them.
* **Input from outside.** The slot's header, manifest and WASM sections and a guest's
  CBOR requests carry lengths and counts that are summed, multiplied and compared in
  32 bits, and the same fact is named in several places that must agree.
* **Ordering.** One task runs everything, so there are no data races, but the
  order of supervisor calls, host calls and queued events is not fixed by any
  one function.

Correctness, per component: the journal never loses its last record and
acknowledged writes are durable; a candidate gets one trial and only a proven
bundle becomes the fallback; a fallback, once there, stays; the floor never
drops; stopped means safe outputs, and outputs move only by an installed
capability at the allowed pace; the event queue is a FIFO with unique ids, and the
link events in it tell the connection's story; an accepted bundle is the one its
signer signed, laid out without gaps, with the rights its manifest writes and within
the limits of manifest, policy and shell; the two tables of the host-call interface are maps whatever
becomes of the answers; WAMR's objects are released by whoever made them; a fault
leaves a breadcrumb that explains it; the log keeps the newest records in order; a
CBOR request reads one way only, inside its buffer. `PROJECT.json` lists the hazards line by line with the property that covers
each.

## 2. Modules

| Module | Models | Shape |
|---|---|---|
| `WdcMetadata` | `WdcBundleMetadataV1` and its operations (`wdc_bundle.c`, `wdc_security.c`) | operators |
| `WdcActivation` | `wdc_activation.c` | operators from metadata to metadata and decision |
| `WdcOtaJournal` | the journal of `wdc_ota.c` at the grain of flash operations | state machine |
| `MetadataStore` | what callers of the journal rely on: one atomically replaced value | abstract specification |
| `WdcBoot` | `wdc_app_boot_active_slot`, the shell's active-slot probe, the installer around them | state machine; composes `WdcActivation` and (by `INSTANCE`) `WdcOtaJournal` |
| `UpdateProtocol` | the update seen as bundles: one trusted, at most one on trial | abstract specification |
| `WdcSafety` | `wdc_safety.c`, the GPIO bridge, capability and rate checks on a GPIO host call | state machine |
| `WdcEvents` | `wdc_event_queue.c` and the order in which the shell first uses it | state machine |
| `EventFifo` | a bounded drop-newest FIFO with distinct ids | abstract specification |
| `WdcNet` | `wdc_net.c` on top of the queue | state machine; extends `WdcEvents` |
| `WdcHostCall` | the native symbol, `wdc_host_call_dispatch`, limits, authorization, the configuration and timer handlers | state machine |
| `BoundedMap` | a bounded map whose answers may be lost | abstract specification |
| `WdcDiag` | `wdc_diag.c`: ring and breadcrumb | actions for `WdcRuntime` |
| `WdcRuntime` | `wdc_runtime.c` used by the active-slot probe and the static smoke | state machine; extends `WdcDiag` |
| `WdcCaps` | the capability section of a manifest (`wdc_caps.c`), lookup in the profile | operators |
| `WdcSecurity` | the policies and the second gate of `wdc_security.c` | operators |
| `WdcBundle` | slot read, header, the ordered checks of `wdc_bundle_verify`, payload and runtime configuration | state machine; extends `WdcCaps`, `WdcSecurity` |
| `WdcCbor` | `wdc_cbor.c` byte for byte, the event envelope, status responses | operators and a state machine around them |
| `Checks` | the first-failure rule all the checking functions share | operators |
| `WdcOtaJournalProofs`, `WdcBootProofs`, `WdcSafetyProofs`, `WdcNetProofs`, `WdcHostCallProofs`, `WdcRuntimeProofs`, `WdcBundleProofs`, `WdcCborProofs` | | theorems |
| `MC*` | | instances for TLC |

A definition's name followed by `_m1`, `_m2` ... is a deliberately wrong variant of
it, the kind of slip a change to that code could make. No specification uses
them; they exist to show that the properties notice (`mutants` in
`PROJECT.json`).

### Metadata and activation

A bundle is a model value standing for its payload hash; version and security
counter are functions of it, because `wdc_bundle_metadata_mark_verified` is the
only writer of all three. `metadata_valid` needs no field: metadata is sealed as a
whole, and a record whose CRC is wrong is rejected as a whole (`Torn` in the
journal). `OnBoot` keeps the switch of `wdc_activation_on_boot`, one operator per
case; `RollbackToLastGood` marks the slot failed *before* it looks for a fallback,
as the code does. Two facts about the rules that the models make visible:

* the comparison of `candidate_boot_count` with the budget never refuses a
  `PENDING` candidate, because the first boot makes it `RUNNING_PENDING` and the
  only way back to `PENDING` clears the count. The `TIMEOUT` rollback is
  unreachable and a budget above 1 has no effect;
* `wdc_app_boot_active_slot` passes the policy's required number of health checks
  as the number observed after one health call, so `wdc_activation_confirm` never
  refuses on that count. The model has no such guard for this reason.

### Journal

`Write` is the call, `ScanUnchanged` / `ScanChanged` / `ScanFails` the read of both
records with its three ways out, `Erase`, `Program` and their failing forms the two
flash operations, `Return` the end of the call. `PowerLoss` may come at any moment;
during an erase it may or may not have spoilt the sector. A failed program may have
left all of the record. Generations are unbounded naturals in the module: the wrap
at 2^32 would take more writes than the sectors endure. Bit rot of a stored record
is not modelled, nor is a missing partition.

### Boot path

`pc` follows `wdc_app_boot_active_slot`: read and decide (`BootDecide`), store the
decision (`DecisionStored` / `DecisionNotStored`, the early return), no-bundle mode,
read and verify the slot (`SlotUnreadable`, `SlotRejected`), start
(`StartApp`), the guest's lifecycle (`LifecycleFails`, `LifecycleSucceeds`), and the
write of the outcome (`OutcomeWritten`). `FailRuntime` is `fail_runtime`, with both
of its branches. `ram`, `dec` and `floor` are the function's locals; `floor` is
computed from the metadata as it was read, before the decision changes it, because
the shell builds the verify policy before it calls the boot function. The writes
inside are the journal's actions, so flash errors and power loss fall between any
two of their steps.

The ordered checks of `wdc_bundle_verify` are one verdict here, `Admitted`: `Accepted`
stands for everything that depends on the bundle alone, and the counter floor is the
one check that depends on the device. `WdcBundle` is where they are taken apart.

The repository has no on-device installer yet. `EraseImage`, `DownloadImage`,
`InstallMark`, `InstallPrepare`, `InstallWritten` follow the install flow of
`docs/reference/BUNDLE_AND_ACTIVATION.md`; each applies the firmware's own function to
the metadata as stored and they may be interleaved with resets, abandoned or
repeated in any order that the flow's "inactive slot" allows. They are marked
external in the map. A download may put any bundle in the slot, also after the slot
was marked.

The model is of a production build with the self-tests of the shell switched off.
Forcing the outputs safe is taken to succeed here; `WdcSafety` is where it may
fail.

### Safety supervisor

One power cycle. `state`, `auth` and `window` are the statics of `wdc_safety.c`;
`level` is the pins, `mirror` the HAL's table, which is what the status is computed
from. `ForceSafe(done)` is the loop of `wdc_hal_apply_safe_gpio_defaults` after `done`
pins: every caller may see it stop at any of them. A GPIO host call is one action
through the layers of the code, `Authorized` → `SafetyAuthorize` → `CapsAuthorize` →
`RateAllows` / `TakeRate` → `SetLevel`; the rate slot is consumed before the effect,
which may still fail. `forced` and `granted` are history variables: whether the last
forcing got through, and when each capability let calls through since its application
was installed or started. The windows themselves live on through both, as in the code.
Status counters and texts are left out. Nothing in the firmware calls
`wdc_app_clear_active_authorizer`, but `ClearAuthorizer` is an exported function and
stays an action.

`Second` is the number of clock ticks in a second: 1000 in the code, 3 in the
instance, which keeps the three cases of the integer division (divides, does not
divide, rate above the clock). The manifest schema also allows fractional rates; the
parser reads integers.

### Event queue

The ring with its indices, the id counter with its modulus, the drop counter. The
first users are in the order of `shell_main`: the safety supervisor posts, then the
self-test posts and takes.

### Network mediator

`SetState` is `wdc_net_set_state`, which posts an event only when the connection comes
or goes (`LinkChanges`), not for a step between disconnected and degraded. A request is
its operation and the parts the checks look at, `Verdict` the checks in their order for
all three operations, `Take` the record, the number and the history. A text that is too
long is found out during the copy, when the method of an HTTP request is already in the
record: `RejectLong`. `told` follows what the shell has drained, `link_lost` whether a
link event met a full queue; after that the consumer's view is stale until the next
change, which is what the guard of `LinkIsTold` says. The driver that would send
anything is not in the repository.

### Host calls

One call is one action: `Gate` is everything before authorization (first the checks of
the native symbol against the compiled-in maxima, then the dispatcher's against the
application's limits), `Decisions` the guarded authorizer, then the handler. An error of
the gate or of decoding is the call's *return value*; a decision, and a handler's
verdict, is a code in the *response*, which may not fit. `reply` keeps both until the
guest resumes. `ConfigSet` writes before it answers, as the code does, so an answer of
RESPONSE_TOO_SMALL says nothing about the table. Lengths are in units: a response of one
entry is 1 long, a value adds its size, `sys_info` fills the largest buffer. The rate
limiter has its clock in `WdcSafety`; here a rated capability may refuse at any time.
The tables are statics that neither a start nor a stop of an application clears.

### Runtime

`step` is the next call of the script the boot path (or the smoke) runs, `rt` the flags and pointers
of its `WdcRuntime`, `live` the objects that exist inside WAMR (external), `wamr` the
static `s_wamr_runtime_initialized`. Every step may fail in each of the ways the code
distinguishes, a load after zero, one or two of its three objects (`Partial`). `Teardown`
destroys what the pointers hold, and WAMR if anyone has initialized it. The probe's
own teardown is skipped on NOT_AVAILABLE and for a boot without bundle (`ProbeReturns`).
`MayMiss` says which exports the lookup can still miss after verification. `cause`
remembers the failure that the breadcrumb must tell. `WdcDiag` has the ring: `Log(levels)`
appends one record per level and overwrites the oldest when it is full.

`shell_config.h` switches the static smoke off at this commit; the instance has it on,
because two runtimes one after the other are what the shared WAMR is exposed to.

### Bundle

The stages of the boot path on the image: `ReadSlot` (header first, then as much as it
says), `Verify`, `TakePayload` with the configuration the runtime will have, in the two
steps of the code: `ConfigFromManifest` (`wdc_app.c`) caps what the shell asks for by the
manifest, and `WithDefaults` (`wdc_runtime_init`) puts `WDC_RUNTIME_DEFAULT_*` where a 0
is left. No configuration at all (a NULL, which the shell never passes) comes to the same
as one of zeros, which is among the inputs. `Offsets` adds
modulo `Word` (2^32 in the code, 16 in the instance) and `NoWrap` is the code's own check
of the sums. Hashes, signature arithmetic and the JSON text are what they establish: a
hash matches or not; a signature was made by somebody with the algorithm the header
names; a manifest parses or not and has members. The 17 checks of `VerifyStatus` are in
the order of the code with their error codes. `WdcSecurity` translates a security policy
into a verify policy and has the second gate, `wdc_security_validate_bundle_result`.
`WdcCaps` binds the written capabilities to the profile's resources, with the arena and
the maximum count, limits modulo `Word`.

### CBOR

The one module that works on bytes, because the property is about bytes. Values of up to
64 bits are sequences of bytes without leading zeros (TLC's integers have 32 bits);
`Digits` makes one of a 32-bit number, `Number` reads the lowest four bytes.
`ReadItem` is the recursive `read_item` as a recursive function of the offset; `FindItem`
the scan for a key, which does not check what follows the pair it finds; `PutU8s` and
`PutRaw` the builder with its sticky error, the first byte by byte and the second all or
nothing. A job is an event to send through the envelope and back, a status response, or
the bytes of a guest's request, which passes the dispatcher's gate and is then searched
by authorizer and handlers for any key as any type. `CborAssumption` and `JobAssumption`
say what the C types say of a job: a request's length, an event's fields and a status are 32
bits wide, the time 64, and an envelope with every field at its widest has a 32-bit length.

## 3. Abstract specifications

* `WdcOtaJournal` ⟹ `MetadataStore`: `cur` is the record `select_best_metadata_record`
  picks, `call` the running write. A step of the journal replaces the value
  completely or not at all, and an OK means it did. Checked (`ImplementsStore`) and
  proved (`JournalImplementsStore`).
* `WdcBoot` ⟹ `UpdateProtocol`: `trusted` is the bundle of a valid fallback, `trial` the
  bundle of an active slot on probation, both read from the *stored* metadata. Trust
  moves only to a bundle whose trial was started, and a trial starts once. Checked
  (`ImplementsProtocol`) and proved (`UpdateImplements`).
* `WdcNet` ⟹ `EventFifo` (through `WdcEvents`): `queue` is the ring unrolled from `head`,
  with the mediator, the supervisor and the shell as its users. Checked
  (`ImplementsFifo`) and proved (`NetImplementsFifo`).
* `WdcHostCall` ⟹ `BoundedMap`, twice: `map` is the table read as a function from keys (timer
  ids) to values, `answer` the guest's reply. A call changes the map as its answer says,
  completely or not at all, and refuses only when the map is full — whichever slots are
  taken, and also when the answer is lost. Checked (`ConfigIsMap`, `TimersAreMap`) and
  proved (`HostCallConfigIsMap`, `HostCallTimersAreMap`).

## 4. Runs

| Run | Instance | Properties | States (about) |
|---|---|---|---|
| `journal` | 2 contents, generations 0..5 | `TypeOK`, `AckedIsDurable`, `TargetIsSpare`, `RecordNeverLost`, `ImplementsStore` | 1.1 k |
| `boot_dev` | 3 bundles, one not accepted; 2 installs; no anti-rollback; fair | `TypeOK`, `WritesAreNewer`, `CandidateRunsOnce`, `ConfirmedWasProven`, `RollbackIsAdmitted`, `ImplementsProtocol`, `TrialsSettle` | 218 k |
| `boot_prod` | 2 accepted bundles, 3 installs, anti-rollback | `FloorNeverDrops`, `FallbackNeverLost` | 1.0 M |
| `floor_blocks_fallback` | as `boot_dev`, anti-rollback | `RollbackIsAdmitted` (violated) | |
| `failed_update_outputs` | as `boot_dev` | `FailedUpdateIsSafe` (violated) | |
| `safety_gate` | 3 pins, 2 applications, clock 0..6, 3 ticks a second | `TypeOK`, `ReportedSafeIsSafe`, `StoppedIsSafe`, `CallsAreSpaced`, `OutputsMoveByRight` | 137 k |
| `net_events` | queue of 2, event ids modulo 4, request ids modulo 3, 3 requests, 1 drop | `TypeOK`, `LinkIsTold`, `RequestIdsDistinct`, `RecordsTellTaken`, `ImplementsFifo` | 200 k |
| `event_self_test` | queue of 3 | `SelfTestPasses` (violated) | |
| `host_call` | 4 keys and 3 timers for 2 slots each, values below, at and above the limits, 2 applications | `TypeOK`, `ConfigIsMap`, `TimersAreMap`, `EffectsByRight` | 175 k |
| `runtime` | probe and smoke, log of 4 | `RuntimeIsReleased`, `FaultIsExplained`, `LogKeepsTail` | 2.1 k |
| `bundle` | words of 4 bits; every header; every claim about the signature under every policy; up to 3 capabilities and 3 sections; every other part wrong once | `LayoutTiles`, `ProductionIsAuthentic`, `GatesAgree`, `GrantsAreWritten`, `RunsWithinLimits`, `WalkIsExact` | 235 k |
| `cbor` | every request of up to 4 bytes over 15 bytes, longer ones for wide heads and repeated keys; events and statuses at every width in every buffer size | `ReadIsExact`, `FindsFirst`, `WrittenIsRead` | 162 k |

Why the bounds are enough for the cases that matter:

* *journal*: five increments let each sector be replaced more than once, with
  failures and power losses in between; the two contents tell a lost write from a
  repeated one. The proof removes the bound.
* *boot*: the first install puts a bundle into one slot and confirms it, the second
  puts a candidate into the other, which can then fail, be reset, lose its image or
  be confirmed. The third install of `boot_prod` overwrites the slot of the
  *older* confirmed bundle, which is where a fallback could be lost.
* *safety*: a second of three ticks and a clock of six give room for two full seconds,
  for rates below, across and above the clock's resolution, and for an application
  started again or replaced by another whose capability has the same index, and thus
  the same window.
* *net*: both counters wrap and the ring's indices do, with the queue empty, partly
  filled and full; three requests reuse the first number, which `RequestIdsDistinct`
  must allow, after two that it must not. A request has at most one defect, so each
  check is the one that decides; which of two defects is reported first is not a
  property.
* *host call*: one key more than slots makes the table full; deletions make holes below
  and above an entry; one application's capability for a key is narrower than its
  neighbour's, the other's overlap, so the first match matters.
* *runtime*: each of the two users fails at every step; four records are fewer than one
  boot writes, so the ring turns over.
* *bundle*: sums of three 4-bit lengths wrap in every position; the families vary one
  part at a time around a good bundle, the parts that must agree together. Every limit
  of the manifest is 0, in the middle and at the policy's maximum, under configurations
  below it, above it and 0; as in the code, the runtime's default for an event is the
  policy's maximum and the other defaults are below theirs.
* *cbor*: four bytes reach a map with a nested array or map and lengths beyond the
  buffer; the wide heads claim up to 2^64 - 1; buffers go from empty to larger
  than any envelope of the instance, and the payload's length crosses 24.

No run switches deadlock checking off: the device can always tick, reboot, post, drain
or call; `WdcBundle` and `WdcCbor`, which end, say so with an action `Done`.

### Fairness

Only `boot_dev` uses it, for `TrialsSettle`; its safety properties do not depend on it. The boot path is straight-line code on one task, so it
runs to its end unless it is reset: weak fairness of `BootStep`. A call the installer
has made returns: weak fairness of `InstallWritten`. A candidate is tried at the next
boot, so nothing happens without one: weak fairness of `Reboot`, which is the last
step of the documented install flow. No fairness is assumed of flash operations
succeeding; instead the property says what happens *once* flash errors and resets in
the middle of a boot stop. Guest code that never returns is not excluded by the
firmware other than by the watchdog, which is a `PowerLoss` here.

## 5. Findings

Each is a run that TLC must find violated, and quotes the text it contradicts in
`PROJECT.json`.

1. `floor_blocks_fallback` — the anti-rollback floor counts a *failed* candidate, so
   once a candidate with a higher security counter has failed, the boot that rolls back
   refuses the confirmed bundle it rolled back to.
2. `failed_update_outputs` — when the write of a confirmation fails,
   `wdc_app_boot_active_slot` returns an error without stopping the application; the
   unconfirmed candidate's outputs stay driven until the next reset.
3. `event_self_test` — the internal event self-test takes the oldest event and expects
   the one it posted; on a healthy boot an older one is queued.

Other places where the models follow the code and a reader of the documents might
expect something else; no run is about them:

* *Rates.* The limiter's interval is 1000 divided by the rate, rounded down: a rate that
  does not divide 1000 is exceeded, and above 1000 Hz nothing is limited below one
  call per millisecond. `CallsAreSpaced` states the interval the code keeps.
* *Rate windows.* `docs/reference/RUNTIME_LIMITS.md:34` lists "avoiding stale rate-limit
  windows on app-running transition" as enforced. Installing the authorizer and marking the
  application running both keep the windows (`wdc_safety.c:156-158`, `168-186`), so a second
  start, of the same application or of another with a rated capability at the same index,
  may find its first call refused. At this commit the shell starts one application per power
  cycle. `CallsAreSpaced` is about one run and demands nothing of a window left over.
* *Limits of 0.* The same document (28-30) says that the runtime configuration, the largest
  event among it, is enforced from the verified manifest. A manifest's limit of 0, which the
  schema forbids and the firmware accepts, is replaced by the runtime's compiled-in default
  (`wdc_runtime.c:97-116`). `RunsWithinLimits` says exactly where.
* *Teardown.* ADR 0007 (line 18) and RUNTIME_LIMITS.md:33 say that a teardown clears
  authorization and active limits. The probe tears its runtime down and leaves both, and the
  safety state, in place (`firmware/main/shell_main.c:514`); nothing runs under them, as the
  shell starts no guest after it but the smoke.
* *Boot budget.* `candidate_boot_count` is compared with the budget only for a `PENDING`
  candidate, which never has a count; a budget above 1 has no effect (section 2).
* *Timers* need no capability: `wdc_caps_authorize_host_call` lets them through.
* *A refused bundle may be reported as a pass.* The last check of `wdc_bundle_verify`
  answers NOT_AVAILABLE for missing exports, the status by which the probe recognizes
  a boot without a bundle.
* *Production policy.* The policy the firmware ships for production has no verifier; with
  it no bundle is accepted at all. `ProductionIsAuthentic` is about integrators' policies
  as well, which have one.
* *WASM.* A payload with a DataCount section (id 12, placed before the code section) is
  refused: ids must increase.
* *Manifest.* Board revisions are compared as texts; a capability's limits are taken modulo
  2^32, and 0 means unlimited.
* *Safety init.* If `wdc_safety_init` fails halfway, `shell_main` logs it and goes on, and an
  application may then be started. `ReportedSafeIsSafe` says the status is still true.

## 6. Proofs

**Journal** (`WdcOtaJournalProofs`), from `JournalAssumption` (the initial value is a
metadata value; generations are naturals). The inductive invariant is
`TypeOK /\ AckedIsDurable /\ TargetIsSpare`. Durability alone is not inductive: that
programming a sector makes its record the best one needs to know that the value is
newer than what is stored and that the sector was the spare one, which is
`TargetIsSpare`. Two lemmas carry the argument: spoiling the spare sector changes
nothing a reader sees (`SpareTorn`), and programming it with a newer value makes that
value current (`SpareProgrammed`). From the invariant follow `JournalDurable`,
`JournalSpare`, `JournalRecordNeverLost` and the refinement `JournalImplementsStore`.
The environment's obligation — writers pass a newer generation or the stored value —
is in the journal's `Next` (`Fresh`); that the real callers meet it is
`WritesAreNewer`, checked in `boot_dev` and proved next.

**Boot path** (`WdcBootProofs`), from `BundleAssumption`, `PolicyAssumption` and
`BootAssumption`: any bundles and counters, any boot budget, any number of installs,
with and without anti-rollback. The two slots are fixed, as they are in the code. The inductive
invariant is `IInv` of `WdcBoot`: the types, the journal's own invariant, and three
parts that tie the boot path to the journal.

* `BootShape`: a write is open exactly at the program points that wait for one, what it
  carries is the boot path's copy of the metadata, and past the decision that copy is
  what is stored; a candidate is recorded as started before it starts, and a slot that
  runs holds the bundle its record describes.
* `TrialsCounted`: whatever is stored, *or is being written*, as waiting has not run.
  `CandidateRunsOnce` alone says nothing about a reset between the write and the start.
* `ConfirmationsProven`: whatever is stored, or is being written, as confirmed is proven.

The half that is about `wdc_activation.c` is a lemma per function on what it returns
(`OnBootFacts`, `RollbackFacts`, `ConfirmFacts`, `PrepareFacts`, `MarkFacts`). The half
about the flash reuses the journal's lemmas through an instance (`JournalWrite`,
`JournalStep`, `JournalReturn`, `JournalPowerLoss`): a step of a write leaves what is
stored or makes it the value being written, and a power loss leaves it. From the
invariant follow `BootTypeOK`, `BootWritesAreNewer`, `BootCandidateRunsOnce` and
`BootConfirmedWasProven`.

**A/B update** (second half of `WdcBootProofs`), from the same assumptions. What a write
may do is one relation, `Update(m, n)`: the new metadata is coherent, is a step of
`UpdateProtocol`, lowers no slot's contribution to the floor and keeps a fallback whose
image is in place. Each function of `wdc_activation.c`, alone and as the boot path and the
installer combine them, has a lemma that its result is an `Update` of its argument
(`OnBootUpdates`, `FaultUpdates`, `ConfirmedUpdates`, `PreparedUpdates`, `MarkedUpdates`).
`UpdateInv` carries this through the flash: what is stored is coherent, and what is
*being written* is an update of what is *stored*, through any number of failed writes and
resets. Because the journal replaces the value completely or not at all (`StoredStep`),
the stored value only ever moves by an update. From it follow `UpdateFallback`
(`FallbackNeverLost`), `UpdateFloor` (`FloorNeverDrops`) and the refinement
`UpdateImplements`; `UpdateRollbackAdmitted` (`RollbackIsAdmitted`) holds under the
hypothesis that anti-rollback is off, as `boot_dev` has it: with it on, the property is
false, which is finding 1.

**Safety supervisor** (`WdcSafetyProofs`), from `SafetyAssumption`, for any profile, any
family of capability sets, any clock. The inductive invariant is
`TypeOK /\ MirrorIsTrue /\ StoppedIsSafe`, where `MirrorIsTrue` says that the HAL's table
equals the pins; `ReportedSafeIsSafe` follows from it but is not inductive by itself.
`SafetyMoves` is an action property from the same invariant. `SafetySpaced` (`CallsAreSpaced`)
needs a second invariant: the history of granted calls, which begins anew with every
installation and start, is spaced only because the window of a capability covers the last
call granted under it (`WindowCoversGrants`), whichever run left the window behind, and the
window is all that the limiter looks at. The arithmetic of the rounded interval is in
`IntervalBound`.

**Event queue and mediator** (`WdcNetProofs`), from `QueueAssumption` and `NetAssumption`: any
capacity, any event-id modulus above the capacity by more than one, any request-id
modulus above 2 (the code has 16 places and 32-bit ids). Four invariants, for `NetSpec`:

* `RingInv` (`NetRingInv`): the types, and that the queued events have the ids *just before*
  `next_event_id`, in order, skipping 0. Distinctness of the ids alone is not inductive:
  that the next id is fresh after a wrap needs to know where the queued ones lie. From
  it follow `NetTypeOK` and the refinement `NetImplementsFifo`: a write behind the last
  entry is an append of the unrolled queue, an advance of `head` takes its first.
* `IdsFollow`: the numbers given to requests follow each other, from which
  `NetRequestIdsDistinct`.
* `RecordInv`: the records and the requests taken differ at most in the method that a
  rejected HTTP request has left behind, from which `NetRecordsTellTaken`.
* `StoryInv`, with `RingInv`: the link event drained last followed by those in the queue
  *tells the story* that ends in the present connection, each differing from the one before.
  `NetLinkIsTold` is its view from the consumer. `Quiet`, that there is no link event
  before the shell is up, is there for the self-test, which takes an event without telling anyone.

**Host calls** (`WdcHostCallProofs`), from `HostCallAssumption`: any keys, values, sizes,
capability sets and limits, tables of any size. The inductive invariant `IInv` is `TypeOK`
with the fact that no key is in two entries of a table. Without it a delete would clear
one entry and leave the map unchanged, and a full table would not mean a full map
(`Room`). What the table functions do is a lemma each (`LookupFacts`, `SlotForFacts`,
`WrittenFacts`, `ClearedFacts`), as is what the gate and the authorizer can answer. From the
invariant follow `HostCallTypeOK`, both refinements of `BoundedMap` and the action property
`HostCallEffectsByRight`.

**Runtime and log** (`WdcRuntimeProofs`), from `RuntimeAssumption` and `DiagAssumption`.
`RuntimeReleased`: the objects in WAMR are those the runtime in use holds, and on the paths
where its user skips the teardown (`Idle`, among them the probe's NOT_AVAILABLE) it holds
none and WAMR is down. `RuntimeFaultExplained`: from a failure to its breadcrumb the
caller's status and the runtime's outcome are those of the failure (`FaultInv`), and a
stop for a fault comes only after one; the types are the first invariant's.
`RuntimeLogKeepsTail`: for any capacity the ring holds the newest records of all that was
logged, in order, and the counters agree (`KeepsTail`). One record keeps this
(`RecordKeepsTail`); a step of the runtime logs up to three at once, so the case that
a batch is written needs no induction (`RecordsKeepTail`).

**Bundle** (`WdcBundleProofs`), from `BundleAssumption`, `SecurityAssumption` and
`CapsAssumption`: any word size, buffer and slot sizes, profile, defaults and any set of
inputs of the right shape (`IsInput`). The invariant `BInv` keeps what the stages pass on: the
inputs stay; the buffer holds what the header says and fits; an accepted bundle passed
`VerifyStatus` for that buffer; what is loaded is cut from it. The content is in lemmas
about the operators. `VerifyFacts` turns the verdict OK of the ordered checks into their
conjunction, with `FirstErrorFacts` about the checks; `OffsetsExact` shows that once `NoWrap`
holds the wrapped sums are the true ones; `CapsFacts` says what an accepted capability
section yields. From these follow `BundleLayoutTiles`, `BundleProductionIsAuthentic`,
`BundleGatesAgree`, `BundleGrantsAreWritten` and `BundleRunsWithinLimits`, the last one for
any defaults of the runtime, its zero case included.
`BundleWalkIsExact` (`WalkIsExact`) is about payloads of any number of sections: `Walked` is
what the loop has after n sections, in closed form; one turn of the loop leads from n - 1
to n (`WalkedMore`), so the recursive function `Walk` exists and, at the smallest place
where it could differ, does not (`WalkIsWalked`). It needs the required names to be at least one,
as the code's four are, for the one export section to follow.

**CBOR** (`WdcCborProofs`), from `CborAssumption` and `JobAssumption`: any request, of any
length and nesting, any keys, events with fields of any value and a payload of any length,
any status, buffers of any size. The prover has no induction over operators, so the
inductions are over sets of numbers (`Induction`): a set of naturals with 0 and all successors has
every natural.

* *The recursive functions exist.* `ReadItem`, `Successive` and `ScanEnd` are defined by equations;
  `ReadItemFacts`, `SuccessiveFacts` and `ScanExists` show that there is exactly one function
  that solves them, in the first case because an item only looks at offsets behind its own.
  `After(item, o, n)` is where n items from o end, without a bound on n.
* *The reader is exact.* Where the items still to come will end (`Rest`, which is `After` for the
  scan's offset and count) is the same before and after every step of the scan (`ScanStepFacts`):
  the children of a collection stand in for it. Every step moves on by
  at least a byte, so the scan of the whole buffer has arrived (`ScanEndIsSkip`). From it
  follows `CborReadIsExact`.
* *A key is found.* `FInv` says that what a handler searches is a request behind the gate, so
  the whole buffer is one map; then all of the offsets between its pairs are good
  (`MapFacts`) and are those of the scan (`OffsetsAgree`), and the first pair with the key is
  what `find_item` returns (`FindItemFacts`, `FindIsFirst`). From it follows `CborFindsFirst`.
* *What is written is read.* `Holds(b, cap, w)`: a builder with room for `cap` bytes has
  been given the text `w`, and has it if it fits and an error if not. Each `put` keeps
  this (`HoldsU8s`, `HoldsRaw`, `HoldsTypeValue`, `HoldsPair`), so the text does not depend on
  the room. `Laid` says that the text is a map's head and pairs end to end (`LaidMore`); a head
  in any of the five widths reads back (`HeadIsRead`), and so does a pair (`PairIsRead`) and a
  map of pairs with different keys (`MapIsRead`). `WInv` carries the builder's result through the
  states; from it follows `CborWrittenIsRead`, for which the widest envelope, of
  41 bytes and the payload, has to be counted byte by byte.

Only model-checked:

* `TrialsSettle`, which as a liveness property is outside the prover's reach;
* the properties of the three runs that are violated.

## 7. Not modelled

* Text: the JSON of manifests (the parsers' effect is modelled, member by member), names
  beyond equality and prefix, log messages, status counters, the JSON export of the
  diagnostics and their reset classes.
* Arithmetic of SHA-256, HMAC and Ed25519, and of the records' CRC.
* `wdc_security`'s preflight and provisioning checks: pure functions of structures that no
  code of the firmware fills in or calls.
* Validation of the built-in profile, and the eight-entry limit of the HAL's table, which
  the built-in profile's three GPIO resources do not reach.
* `gpio_subscribe`, which answers without changing anything, and
  `wdc_host_call_from_guest_memory`, which nothing in the firmware calls; WAMR's own address check is
  the `inside` of a call.
* The early return of `wdc_app_boot_active_slot` when the authorizer cannot be installed
  (`wdc_app.c:249-257`): both calls in front of it succeed once the supervisor has its
  profile, which it has as soon as the profile passes validation, and the built-in one does.
* That a consumer of link events learns of the connection although the queue dropped one:
  `LinkIsTold` is about runs in which none was dropped, and `ImplementsFifo` says which are.
* The stack depth of the recursive CBOR reader, which only the length of a request
  bounds; configuration keys with an embedded NUL.
* The optional self-tests of the shell other than the event self-test and the static smoke.
* The host build's in-memory substitutes for flash, GPIO and WAMR; the guest SDK (to the
  firmware a guest is any sequence of calls, which the models allow); the bundle tool;
  generated WASM data.

## 8. Plan

1. Share the ring arithmetic: `SlotFacts` of `WdcNetProofs` and `PlaceFacts` of
   `WdcRuntimeProofs` state the same about two rings.
2. The 32-bit wrap of the metadata generation, as a bound in the journal under which the
   theorems hold.
