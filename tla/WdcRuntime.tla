----------------------------- MODULE WdcRuntime -----------------------------
(***************************************************************************)
(* The WebAssembly runtime's lifecycle (wdc_runtime.c) in the hands of its *)
(* two users on the shell's boot path: the active-slot probe, and the      *)
(* static runtime smoke that a build may run after it (shell_config.h      *)
(* turns it off at this commit).  WAMR, which the runtimes share, is       *)
(* initialized by the first and destroyed by a teardown; the probe skips   *)
(* the teardown on one status.  With the application state and authority   *)
(* of the boot path, and the diagnostic log.                               *)
(*                                                                         *)
(* Metadata, slots and the activation decision are in WdcBoot, the guest's *)
(* host calls in WdcHostCall; here a guest only logs.                      *)
(***************************************************************************)
EXTENDS WdcDiag

CONSTANT StaticSmoke   \* WDC_R5_STATIC_RUNTIME_SMOKE

ASSUME RuntimeAssumption == StaticSmoke \in BOOLEAN

VARIABLES
    user, step,   \* who uses the runtime, and the call it makes next
    rt,           \* its WdcRuntime: report flags, outcome, pointers held
    status,       \* the status its caller holds
    wamr,         \* s_wamr_runtime_initialized
    live,         \* external: the objects that exist inside WAMR
    app,          \* WdcSafetyStatus.state
    auth, limits, \* whose capabilities and host-call limits are installed
    cause         \* history: status and outcome of the last failure

vars == <<user, step, rt, status, wamr, live, app, auth, limits, cause, diagVars>>

Users == {"probe", "smoke"}
Objects == [kind : {"module", "inst", "env"}, of : Users]

Blank == [initialized |-> FALSE, loaded |-> FALSE, resolved |-> FALSE,
          held |-> {}, outcome |-> "not_started"]

NoCause == [status |-> "OK", outcome |-> "not_started"]

Init ==
    /\ DiagInit
    /\ user = "probe" /\ step = "start"
    /\ rt = Blank /\ status = "OK"
    /\ wamr = FALSE /\ live = {}
    /\ app = "boot_safe" /\ auth = "none" /\ limits = "default"
    /\ cause = NoCause

-----------------------------------------------------------------------------
(***************************************************************************)
(* The probe before its runtime starts: wdc_app_boot_active_slot.          *)
(***************************************************************************)

\* Back in shell_main, which goes on with the smoke if the build has it.
ProbeEnds ==
    /\ status' = "OK"
    /\ IF StaticSmoke THEN user' = "smoke" /\ step' = "init"
       ELSE step' = "up" /\ UNCHANGED user

\* wdc_ota_read_metadata fails: the probe returns at once.
ProbeCannotRead ==
    /\ user = "probe" /\ step = "start"
    /\ Log(<<"error">>)
    /\ ProbeEnds
    /\ UNCHANGED <<rt, wamr, live, app, auth, limits, cause, crumb>>

\* The activation decision cannot be stored.
ProbeGivesUp ==
    /\ user = "probe" /\ step = "start"
    /\ status' = "IO" /\ step' = "return"
    /\ UNCHANGED <<user, rt, wamr, live, app, auth, limits, cause, diagVars>>

\* wdc_safety_enter_no_bundle_mode, then a record of each of the levels: the
\* state stays what it is if the outputs cannot be forced safe.
NoBundleMode(levels) ==
    \/ app' = "no_bundle" /\ Log(<<"info">> \o levels)
    \/ UNCHANGED app /\ Log(levels)

ProbeFindsNoBundle ==
    /\ user = "probe" /\ step = "start"
    /\ limits' = "default"
    /\ NoBundleMode(<<>>)
    /\ status' = "NOT_AVAILABLE" /\ step' = "return"
    /\ UNCHANGED <<user, rt, wamr, live, auth, cause, crumb>>

\* The slot does not read, verify, or match its metadata.
ProbeRejects(s) ==
    /\ user = "probe" /\ step = "start"
    /\ status' = s /\ step' = "failed"
    /\ cause' = [status |-> s, outcome |-> rt.outcome]
    /\ UNCHANGED <<user, rt, wamr, live, app, auth, limits, diagVars>>

\* Install the limits and the authorizer, mark the application running.
ProbeStarts ==
    /\ user = "probe" /\ step = "start"
    /\ limits' = "bundle" /\ auth' = "bundle" /\ app' = "running"
    /\ step' = "init"
    /\ Log(<<"info">>)
    /\ UNCHANGED <<user, rt, status, wamr, live, cause, crumb>>

-----------------------------------------------------------------------------
(***************************************************************************)
(* The runtime's own calls.                                                *)
(***************************************************************************)

\* The script of the boot path, and of the smoke.
After(u, s) ==
    CASE s = "init" -> "load"
      [] s = "load" -> "lookup"
      [] s = "lookup" -> "call_init"
      [] s = "call_init" -> IF u = "probe" THEN "health" ELSE "on_event"
      [] s = "on_event" -> "health"
      [] s = "health" -> IF u = "probe" THEN "confirm" ELSE "shutdown"
      [] s = "shutdown" -> "report"

\* wdc_runtime_set_error: the call fails with s, the guest having logged g; a
\* failing WAMR call gives a reason to log.
Fails(s, outcome, held, g) ==
    /\ rt' = [rt EXCEPT !.outcome = outcome, !.held = held]
    /\ status' = s /\ step' = "failed"
    /\ cause' = [status |-> s, outcome |-> outcome]
    /\ Log(Append(g, "error"))

Passes(r, g) ==
    /\ rt' = [r EXCEPT !.outcome = "ok"]
    /\ step' = After(user, step)
    /\ Log(g)
    /\ UNCHANGED <<status, cause>>

\* wdc_runtime_init starts from a zeroed WdcRuntime.  WAMR may fail to start,
\* or to register the natives, and is then destroyed.
RuntimeInit ==
    /\ step = "init"
    /\ \/ /\ Passes([Blank EXCEPT !.initialized = TRUE], <<"info">>)
          /\ wamr' = TRUE
       \/ /\ ~wamr
          /\ Fails("NOT_AVAILABLE", "runtime_init_failed", {}, <<>>)
          /\ UNCHANGED wamr
    /\ UNCHANGED <<user, live, app, auth, limits, crumb>>

\* wdc_runtime_load_static makes the module, its instance and the execution
\* environment in this order and stops at the first that fails; what is made
\* stays, for the teardown.
Partial_m1(i) == {}   \* mutant: the pointers are stored at the end
Partial(i) == {<<"module", "inst", "env">>[k] : k \in 1..i}

LoadError(i) ==
    CASE i = 0 -> <<"BAD_ENCODING", "bundle_load_failed">>
      [] i = 1 -> <<"NO_MEMORY", "instantiate_failed">>
      [] i = 2 -> <<"NO_MEMORY", "exec_env_failed">>

Created(i) == {[kind |-> <<"module", "inst", "env">>[k], of |-> user] : k \in 1..i}

RuntimeLoad ==
    /\ step = "load" /\ rt.initialized
    /\ \E i \in 0..3 :
          /\ live' = live \cup Created(i)
          /\ IF i = 3 THEN Passes([rt EXCEPT !.loaded = TRUE, !.held = Partial(3)],
                                  <<"info">>)
             ELSE Fails(LoadError(i)[1], LoadError(i)[2], Partial(i), <<>>)
    /\ UNCHANGED <<user, wamr, app, auth, limits, crumb>>

\* The payload's length or magic is refused before WAMR sees it.
RuntimeRefusesPayload ==
    /\ step = "load" /\ rt.initialized
    /\ \E s \in {"BAD_LENGTH", "BAD_ENCODING"} :
          Fails(s, "invalid_payload", rt.held, <<>>)
    /\ UNCHANGED <<user, wamr, live, app, auth, limits, crumb>>

\* Can the lookup miss an export?  Not of a payload that wdc_bundle_verify
\* accepted: it looked for the same four exports.
MayMiss_m1(u) == TRUE   \* mutant: verification does not look for the exports
MayMiss(u) == u = "smoke"

RuntimeLookup ==
    /\ step = "lookup" /\ rt.loaded
    /\ \/ Passes([rt EXCEPT !.resolved = TRUE], <<"info">>)
       \/ /\ MayMiss(user)
          /\ Fails("NOT_AVAILABLE", "export_missing", rt.held, <<>>)
    /\ UNCHANGED <<user, wamr, live, app, auth, limits, crumb>>

\* What a guest logs during a call (wdc_wamr_native_log).
GuestLogs == {<<>>, <<"error">>}

\* wdc_runtime_call_init, call_on_event, call_health and call_shutdown: the
\* guest returns, returns non-OK, or traps; an event may find no guest memory.
GuestCall ==
    /\ step \in {"call_init", "on_event", "health", "shutdown"} /\ rt.resolved
    /\ \E g \in GuestLogs :
          \/ Passes(rt, g)
          \/ \E outcome \in {"guest_trapped", "guest_non_ok_status"} :
                Fails("CONTRACT_VIOLATION", outcome, rt.held, g)
    /\ UNCHANGED <<user, wamr, live, app, auth, limits, crumb>>

EventAllocationFails ==
    /\ step = "on_event"
    /\ Fails("NO_MEMORY", "exec_env_failed", rt.held, <<>>)
    /\ UNCHANGED <<user, wamr, live, app, auth, limits, crumb>>

\* wdc_runtime_teardown destroys what the runtime holds, and WAMR.
Teardown ==
    /\ live' = live \ {[kind |-> k, of |-> user] : k \in rt.held}
    /\ rt' = [rt EXCEPT !.held = {}]
    /\ wamr' = FALSE

-----------------------------------------------------------------------------
(***************************************************************************)
(* The probe after its runtime ran.                                        *)
(***************************************************************************)

\* A confirmed slot needs no confirmation; a candidate's may fail to be stored.
ProbeConfirms ==
    /\ user = "probe" /\ step = "confirm"
    /\ status' \in {"OK", "IO"} /\ step' = "return"
    /\ UNCHANGED <<user, rt, wamr, live, app, auth, limits, cause, diagVars>>

\* fault_from_report
FaultKind(outcome) ==
    CASE outcome = "guest_trapped" -> "runtime_trap"
      [] outcome = "guest_non_ok_status" -> "runtime_non_ok"
      [] OTHER -> "contract_violation"

\* wdc_safety_stop_app, with the runtime's report
StopApp(outcome) ==
    /\ RecordBreadcrumb(FaultKind(outcome), status, outcome)
    /\ app' = "fault_stopped"

\* fail_runtime; the report is copied before anything else is done.
CopiedOutcome_m1 == "not_started"   \* mutant: the report is not copied
CopiedOutcome == rt.outcome

ProbeFails ==
    /\ user = "probe" /\ step = "failed"
    /\ limits' = "default"
    /\ StopApp(CopiedOutcome)
    /\ Log(<<"error">>)
    /\ step' = "return"
    /\ UNCHANGED <<user, rt, status, wamr, live, auth, cause>>

\* The end of wdc_shell_run_r8_active_slot_probe, and what shell_main logs: the
\* teardown is skipped on WDC_ERR_NOT_AVAILABLE, which counts as passed.
ProbeReturns ==
    /\ user = "probe" /\ step = "return"
    /\ IF status = "NOT_AVAILABLE"
       THEN Log(<<"warn", "info">>) /\ rt' = Blank /\ UNCHANGED <<wamr, live>>
       ELSE /\ Teardown
            /\ Log(IF status = "OK" THEN <<"info", "info", "info">>
                   ELSE <<"warn", "info", "error">>)
    /\ ProbeEnds
    /\ UNCHANGED <<app, auth, limits, cause, crumb>>

-----------------------------------------------------------------------------
(***************************************************************************)
(* The static runtime smoke: wdc_shell_run_r5_runtime_smoke, after which   *)
(* shell_main stops the application or enters the no-bundle mode.          *)
(***************************************************************************)

SmokeReports ==
    /\ user = "smoke" /\ step \in {"report", "failed"}
    /\ Teardown
    /\ Log(<<IF step = "failed" THEN "error" ELSE "info", "info">>)
    /\ step' = "return"
    /\ UNCHANGED <<user, status, app, auth, limits, cause, crumb>>

SmokeReturns ==
    /\ user = "smoke" /\ step = "return"
    /\ IF status = "OK"
       THEN NoBundleMode(<<"info">>) /\ UNCHANGED crumb
       ELSE StopApp(rt.outcome) /\ Log(<<"error", "error">>)
    /\ step' = "up"
    /\ UNCHANGED <<user, rt, status, wamr, live, auth, limits, cause>>

\* The shell task runs; it uses no runtime.
ShellIsUp == step = "up" /\ UNCHANGED vars

Next ==
    \/ ProbeCannotRead \/ ProbeGivesUp \/ ProbeFindsNoBundle \/ ProbeStarts
    \/ \E s \in {"IO", "CONTRACT_VIOLATION", "NOT_AVAILABLE"} : ProbeRejects(s)
    \/ RuntimeInit \/ RuntimeLoad \/ RuntimeRefusesPayload \/ RuntimeLookup
    \/ GuestCall \/ EventAllocationFails
    \/ ProbeConfirms \/ ProbeFails \/ ProbeReturns
    \/ SmokeReports \/ SmokeReturns
    \/ ShellIsUp

Spec == Init /\ [][Next]_vars

-----------------------------------------------------------------------------
(***************************************************************************)
(* Properties                                                              *)
(***************************************************************************)

\* Every object WAMR has belongs to the runtime in use, which holds it, and
\* WAMR is up as long as there is one: nothing leaks on any failure of one
\* step of several, although the probe skips the teardown on a status that
\* the runtime's own calls can return, and no runtime finds WAMR destroyed.
RuntimeIsReleased ==
    /\ live = {[kind |-> k, of |-> user] : k \in rt.held}
    /\ rt.held # {} => wamr
    /\ step = "up" => ~wamr /\ live = {}

\* While the application is stopped by a fault, the breadcrumb tells the
\* status and the runtime outcome of the failure that stopped it, through the
\* teardown and the reports that follow, until the smoke fails in its turn.
FaultIsExplained ==
    app = "fault_stopped" /\ (user = "probe" \/ step = "up") =>
        /\ crumb.generation > 0
        /\ crumb.status = cause.status /\ crumb.outcome = cause.outcome

=============================================================================
