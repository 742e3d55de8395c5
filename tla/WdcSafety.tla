----------------------------- MODULE WdcSafety -----------------------------
(***************************************************************************)
(* The safety supervisor and the path of a guest's GPIO host call through  *)
(* it: wdc_host_call_dispatch asks the guarded authorizer, which checks    *)
(* the safety state, the capability and its rate limit, and only then the  *)
(* GPIO bridge moves the pin.  One power cycle, from wdc_safety_init on.   *)
(*                                                                         *)
(* Everything runs on the shell's one task, so each function is one step;  *)
(* a GPIO driver call may fail, also halfway through a profile's pins.     *)
(***************************************************************************)
EXTENDS Integers, Sequences, FiniteSetsExt

CONSTANTS
    PinOrder,   \* the profile's GPIO resources, in configuration order
    SafeLevel,  \* the profile's outputs, with their safe levels
    App,        \* capability sets that may be installed
    NoApp,      \* no guarded authorizer
    Caps,       \* Caps[a]: a sequence of [pin, ops, hz] (WdcCapability)
    Second,     \* clock ticks per second (1000 in the code)
    MaxTime     \* bound on the clock

Outputs == DOMAIN SafeLevel
Pins == Range(PinOrder)
Levels == {0, 1}
Unset == 2      \* a pin not configured since power-on; no s_gpio_state entry
Ops == {"read", "write"}

ASSUME SafetyAssumption ==
    /\ PinOrder \in Seq(Pins)
    /\ Outputs \subseteq Pins
    /\ SafeLevel \in [Outputs -> Levels]
    /\ NoApp \notin App
    /\ Caps \in [App -> Seq([pin : Pins, ops : SUBSET Ops, hz : Nat])]
    /\ Second \in Nat \ {0} /\ MaxTime \in Nat

\* WDC_CAPS_MAX_CAPABILITIES, as large as these capability sets need.
CapIndex == UNION {DOMAIN Caps[a] : a \in App}

VARIABLES
    state,      \* s_status.state
    level,      \* the physical level of each output
    mirror,     \* s_gpio_state: the level last set successfully
    auth,       \* s_cap_authorizer.capability_set, behind s_authorizer
    window,     \* s_cap_authorizer.rate_seen and last_allowed_ms
    now,        \* caps_now_ms()
    forced,     \* history: did the last wdc_safety_force_safe_outputs succeed
    granted     \* history: when the limiter let each rated capability of the
                \* application through, since it was installed and started

vars == <<state, level, mirror, auth, window, now, forced, granted>>

NoWindow == [i \in CapIndex |-> [seen |-> FALSE, last |-> 0]]
NoGrants == [i \in CapIndex |-> <<>>]

Init ==
    /\ state = "uninitialized"
    /\ level = [p \in Outputs |-> Unset] /\ mirror = level
    /\ auth = NoApp
    /\ window = NoWindow
    /\ now = 0
    /\ forced = FALSE
    /\ granted = NoGrants

-----------------------------------------------------------------------------
(***************************************************************************)
(* Forcing the outputs safe.                                               *)
(***************************************************************************)

\* wdc_hal_apply_safe_gpio_defaults configures the pins in order and gives up
\* at the first that fails, so it gets through some prefix of the profile.
ForceSafe_m1(done) ==   \* mutant: the table is filled before the pins are set
    /\ level' = [p \in Outputs |-> IF \E k \in 1..done : PinOrder[k] = p
                                   THEN SafeLevel[p] ELSE level[p]]
    /\ mirror' = SafeLevel
    /\ forced' = (done = Len(PinOrder))
ForceSafe(done) ==
    LET reached == {PinOrder[k] : k \in 1..done}
        After(f) == [p \in Outputs |-> IF p \in reached THEN SafeLevel[p]
                                       ELSE f[p]]
    IN  /\ level' = After(level)
        /\ mirror' = After(mirror)
        /\ forced' = (done = Len(PinOrder))

Prefixes == 0..Len(PinOrder)

\* wdc_safety_init; shell_main logs a failure and carries on.
SafetyInit ==
    /\ state = "uninitialized"
    /\ state' = "boot_safe"
    /\ \E done \in Prefixes : ForceSafe(done)
    /\ auth' = NoApp
    /\ window' = NoWindow
    /\ granted' = NoGrants
    /\ UNCHANGED now

\* wdc_safety_enter_no_bundle_mode: on failure it returns before the state
\* changes.
EnterNoBundle ==
    /\ state # "uninitialized"
    /\ \E done \in Prefixes :
          /\ ForceSafe(done)
          /\ state' = IF done = Len(PinOrder) THEN "no_bundle" ELSE state
    /\ UNCHANGED <<auth, window, now, granted>>

\* wdc_safety_stop_app: the state changes whether or not forcing succeeds.
StopApp ==
    /\ state # "uninitialized"
    /\ \E done \in Prefixes : ForceSafe(done)
    /\ state' = "fault_stopped"
    /\ UNCHANGED <<auth, window, now, granted>>

-----------------------------------------------------------------------------
(***************************************************************************)
(* Installing and clearing the authorizer, starting the application.       *)
(***************************************************************************)

\* wdc_safety_install_guarded_authorizer: the rate windows stay.
InstallAuthorizer(a) ==
    /\ state # "uninitialized"
    /\ auth' = a
    /\ granted' = NoGrants
    /\ UNCHANGED <<state, level, mirror, window, now, forced>>

\* wdc_safety_clear_guarded_authorizer
ClearAuthorizer ==
    /\ state # "uninitialized"
    /\ auth' = NoApp
    /\ window' = NoWindow
    /\ granted' = NoGrants
    /\ UNCHANGED <<state, level, mirror, now, forced>>

\* wdc_safety_mark_app_running: the rate windows stay.
MarkRunning ==
    /\ state # "uninitialized"
    /\ state' = "running"
    /\ granted' = NoGrants
    /\ UNCHANGED <<level, mirror, auth, window, now, forced>>

-----------------------------------------------------------------------------
(***************************************************************************)
(* A GPIO host call.                                                       *)
(***************************************************************************)

\* wdc_caps_check_resource
HasCapability_m1(a, op, p) ==   \* mutant: any operation on the pin will do
    \E i \in DOMAIN Caps[a] : Caps[a][i].pin = p
HasCapability(a, op, p) ==
    \E i \in DOMAIN Caps[a] : Caps[a][i].pin = p /\ op \in Caps[a][i].ops

\* find_resource_capability_index: the first such capability; 0 stands for -1.
CapFor(a, op, p) ==
    LET covering == {i \in DOMAIN Caps[a] :
                        Caps[a][i].pin = p /\ op \in Caps[a][i].ops}
    IN  IF covering = {} THEN 0 ELSE Min(covering)

\* enforce_rate_limit: the shortest time between two calls.
Interval_m1(hz) == Second \div hz   \* mutant: no lower bound of one tick
Interval(hz) == IF Second \div hz = 0 THEN 1 ELSE Second \div hz

Rated(a, i) == i # 0 /\ Caps[a][i].hz # 0

RateAllows(a, i) ==
    Rated(a, i) /\ window[i].seen
        => now >= window[i].last + Interval(Caps[a][i].hz)

\* An allowed call opens a new window, whatever becomes of the call.
TakeRate_m1(a, i) ==   \* mutant: the window's end is stored as its start
    IF ~Rated(a, i) THEN UNCHANGED <<window, granted>>
    ELSE /\ window' = [window EXCEPT ![i] = [seen |-> TRUE,
                                     last |-> now + Interval(Caps[a][i].hz)]]
         /\ granted' = [granted EXCEPT ![i] = Append(@, now)]
TakeRate(a, i) ==
    IF ~Rated(a, i) THEN UNCHANGED <<window, granted>>
    ELSE /\ window' = [window EXCEPT ![i] = [seen |-> TRUE, last |-> now]]
         /\ granted' = [granted EXCEPT ![i] = Append(@, now)]

\* wdc_caps_authorize_host_call, for the GPIO operations.
CapsAuthorize(op, p) ==
    /\ HasCapability(auth, op, p)
    /\ RateAllows(auth, CapFor(auth, op, p))

\* wdc_safety_authorize_host_call: writes are effectful, reads are not.
SafetyAuthorize_m1(op, p) == CapsAuthorize(op, p)   \* mutant: in any state
SafetyAuthorize(op, p) ==
    /\ op = "write" => state = "running"
    /\ CapsAuthorize(op, p)

\* maybe_authorize: without an authorizer every GPIO call is denied.
Authorized(op, p) == auth # NoApp /\ SafetyAuthorize(op, p)

\* wdc_hal_gpio_set_level_by_resource, on an output of the profile.
SetLevel(p, v) ==
    /\ p \in Outputs
    /\ level' = [level EXCEPT ![p] = v]
    /\ mirror' = [mirror EXCEPT ![p] = v]

\* Not an output, or the driver fails: the guest gets an error response.
SetFails == UNCHANGED <<level, mirror>>

GpioSet(p, v) ==
    /\ Authorized("write", p)
    /\ TakeRate(auth, CapFor(auth, "write", p))
    /\ SetLevel(p, v) \/ SetFails
    /\ UNCHANGED <<state, auth, now, forced>>

\* A read moves no output, but shares its capability's rate window.
GpioGet(p) ==
    /\ Authorized("read", p)
    /\ TakeRate(auth, CapFor(auth, "read", p))
    /\ UNCHANGED <<state, level, mirror, auth, now, forced>>

Tick ==
    /\ now < MaxTime
    /\ now' = now + 1
    /\ UNCHANGED <<state, level, mirror, auth, window, forced, granted>>

-----------------------------------------------------------------------------

Next ==
    \/ SafetyInit \/ EnterNoBundle \/ StopApp
    \/ \E a \in App : InstallAuthorizer(a)
    \/ ClearAuthorizer \/ MarkRunning
    \/ \E p \in Pins, v \in Levels : GpioSet(p, v)
    \/ \E p \in Pins : GpioGet(p)
    \/ Tick

Spec == Init /\ [][Next]_vars

-----------------------------------------------------------------------------
(***************************************************************************)
(* Properties                                                              *)
(***************************************************************************)

States == {"uninitialized", "boot_safe", "no_bundle", "running",
           "fault_stopped"}

\* The supervisor's status, the GPIO tables and the rate windows keep their
\* types.
TypeOK ==
    /\ state \in States
    /\ level \in [Outputs -> Levels \cup {Unset}]
    /\ mirror \in [Outputs -> Levels \cup {Unset}]
    /\ auth \in App \cup {NoApp}
    /\ window \in [CapIndex -> [seen : BOOLEAN, last : 0..MaxTime]]
    /\ now \in 0..MaxTime
    /\ forced \in BOOLEAN
    /\ granted \in [CapIndex -> Seq(0..MaxTime)]

\* wdc_hal_gpio_outputs_match_safe_levels, from the driver's own table.
OutputsMatch == \A p \in Outputs : mirror[p] = SafeLevel[p]

OutputsSafe == \A p \in Outputs : level[p] = SafeLevel[p]

\* physical_outputs_safe, which is computed from a table and not from the
\* pins, is never reported while an output is away from its safe level.
ReportedSafeIsSafe == OutputsMatch => OutputsSafe

\* "Boot, no-bundle, and fault states force outputs to profile-defined safe
\* values and deny later writes": outside app_running, once forcing has
\* succeeded, the outputs stay safe through whatever calls still arrive.
StoppedIsSafe ==
    state \in {"boot_safe", "no_bundle", "fault_stopped"} /\ forced
        => OutputsSafe

\* An output leaves its safe level only in app_running, by a call that a write
\* capability of the application installed at that moment covers.
OutputsMoveByRight ==
    [][\A p \in Outputs :
          level'[p] # level[p] /\ level'[p] # SafeLevel[p]
             => /\ state = "running"
                /\ auth # NoApp
                /\ \E i \in DOMAIN Caps[auth] :
                      Caps[auth][i].pin = p /\ "write" \in Caps[auth][i].ops]_vars

\* Between an application's start and the next one, two calls that one of its
\* capabilities lets through are never in the same tick, and come early by less
\* than a tick of the capability's period, over any mix of reads, writes, stops
\* and failing drivers, and whatever windows an earlier one has left behind.
CallsAreSpaced ==
    auth # NoApp =>
        \A i \in DOMAIN Caps[auth] :
            LET t == granted[i]
            IN  \A k \in 1..Len(t) - 1 :
                   /\ t[k + 1] > t[k]
                   /\ (t[k + 1] - t[k] + 1) * Caps[auth][i].hz > Second

=============================================================================
