---------------------------- MODULE WdcHostCall ----------------------------
(***************************************************************************)
(* A guest's host call, from the native symbol WAMR calls through the      *)
(* dispatcher's checks and the guarded authorizer to the handlers of the   *)
(* configuration and timer tables and back through the response buffer;    *)
(* with the steps of the boot path that install and reset the limits and   *)
(* the authorizer.  GPIO calls are in WdcSafety, network calls in WdcNet.  *)
(*                                                                         *)
(* A request is its operation and the members of its CBOR map; lengths are *)
(* in units small enough to enumerate.  The clock of the rate limiter is   *)
(* in WdcSafety: here a rated capability may refuse at any time.           *)
(***************************************************************************)
EXTENDS Integers, Sequences, FiniteSetsExt, Checks

CONSTANTS
    Key, TimerId,     \* configuration keys and timer ids a guest may name
    Value, TimerSpec, \* values of a key; delay and repeat of a timer
    Size,             \* Size[v]: the length of value v
    LongKey,          \* the keys longer than CONFIG_KEY_MAX
    ConfigValueMax, ConfigSlots, TimerSlots,
    App, NoApp,       \* capability sets; no authorizer
    Caps,             \* Caps[a]: a sequence of [keys, ops, max, rated]
    Limits,           \* Limits[a]: [req, rsp] of the manifest, 0 if unset
    Default,          \* wdc_host_call_default_limits
    None

ASSUME HostCallAssumption ==
    /\ Size \in [Value -> Nat] /\ LongKey \subseteq Key
    /\ None \notin Key \cup Value \cup TimerId \cup TimerSpec
    /\ None \notin {"OK", "NO_MEMORY", "NOT_AVAILABLE"}
    /\ ConfigValueMax \in Nat
    /\ ConfigSlots \in Nat \ {0} /\ TimerSlots \in Nat \ {0}
    /\ NoApp \notin App
    /\ Caps \in [App -> Seq([keys : SUBSET Key, ops : SUBSET {"read", "write"},
                             max : Nat, rated : BOOLEAN])]
    /\ Limits \in [App -> [req : Nat, rsp : Nat]]
    /\ Default \in [req : Nat \ {0}, rsp : Nat \ {0}]

VARIABLES
    config, timers,  \* s_config, s_timers
    auth,            \* s_authorizer, as the capability set behind it
    running,         \* is the safety state WDC_SAFETY_STATE_APP_RUNNING
    limits,          \* s_limits
    reply            \* the last call's answer, as the guest sees it

vars == <<config, timers, auth, running, limits, reply>>

Free == [key |-> None, val |-> None]
NoReply == [op |-> None, key |-> None, val |-> None,
            ret |-> None, code |-> None, data |-> None]

Init ==
    /\ config = [i \in 1..ConfigSlots |-> Free]
    /\ timers = [i \in 1..TimerSlots |-> Free]
    /\ auth = NoApp
    /\ running = FALSE
    /\ limits = Default
    /\ reply = NoReply

-----------------------------------------------------------------------------
(***************************************************************************)
(* The boot path's side.                                                   *)
(***************************************************************************)

\* wdc_host_call_set_limits: 0 means the default, which is also the ceiling.
Clamp_m1(n, d) == IF n = 0 THEN d ELSE n   \* mutant: no ceiling
Clamp(n, d) == IF n = 0 \/ n > d THEN d ELSE n
EffectiveLimits(a) == [req |-> Clamp(Limits[a].req, Default.req),
                       rsp |-> Clamp(Limits[a].rsp, Default.rsp)]

\* wdc_app_boot_active_slot, once the bundle is verified.
StartApp(a) ==
    /\ reply = NoReply
    /\ limits' = EffectiveLimits(a)
    /\ auth' = a
    /\ running' = TRUE
    /\ UNCHANGED <<config, timers, reply>>

\* fail_runtime, or the boot that finds no bundle: the authorizer stays.
StopApp ==
    /\ reply = NoReply
    /\ limits' = Default
    /\ running' = FALSE
    /\ UNCHANGED <<config, timers, auth, reply>>

\* wdc_app_clear_active_authorizer
ClearAuthorizer ==
    /\ reply = NoReply
    /\ limits' = Default
    /\ auth' = NoApp
    /\ UNCHANGED <<config, timers, running, reply>>

-----------------------------------------------------------------------------
(***************************************************************************)
(* The checks before a handler runs.                                       *)
(***************************************************************************)

ConfigOps == {"CONFIG_SET", "CONFIG_GET", "CONFIG_DELETE"}
TimerOps == {"TIMER_SET", "TIMER_CANCEL"}
Supported == ConfigOps \cup TimerOps \cup {"SYS_GET_INFO"}

\* A call: the operation, the members of its map (None if missing), whether
\* it is a map at all, whether WAMR finds both buffers in guest memory, and
\* the length of the response buffer.
Calls ==
    LET Buffers == [map : BOOLEAN, inside : BOOLEAN, rsp : 0..Default.rsp + 1]
        With(op, K, V) == {[op |-> op, key |-> k, val |-> v, map |-> b.map,
                            inside |-> b.inside, rsp |-> b.rsp] :
                                k \in K \cup {None}, v \in V, b \in Buffers}
    IN  UNION {With("CONFIG_SET", Key, Value \cup {None}),
               With("CONFIG_GET", Key, {None}),
               With("CONFIG_DELETE", Key, {None}),
               With("TIMER_SET", TimerId, TimerSpec \cup {None}),
               With("TIMER_CANCEL", TimerId, {None}),
               With("SYS_GET_INFO", {}, {None}),
               With("TIME_GET", {}, {None})}

ReqLen(c) == IF c.val \in Value THEN 1 + Size[c.val] ELSE 1

\* wdc_wamr_native_host_call, then wdc_host_call_dispatch up to the
\* authorization: these errors are the call's return value.
Gate(c) == FirstError(<<
    Check(ReqLen(c) <= Default.req /\ c.rsp <= Default.rsp, "BAD_LENGTH"),
    Check(c.inside, "BAD_POINTER"),
    Check(c.op \in Supported, "UNSUPPORTED_OPCODE"),
    Check(ReqLen(c) <= limits.req /\ c.rsp <= limits.rsp, "BAD_LENGTH"),
    Check(c.rsp # 0, "RESPONSE_TOO_SMALL"),
    Check(c.map, "BAD_ENCODING") >>)

\* find_config_capability_index and the scan of wdc_caps_check_config_key: the
\* first capability for the key and the operation; 0 if there is none.
CapFor(a, op, k) ==
    LET covering == {i \in DOMAIN Caps[a] :
                        op \in Caps[a][i].ops /\ k \in Caps[a][i].keys}
    IN  IF covering = {} THEN 0 ELSE Min(covering)

\* enforce_payload_limit
WithinPayload_m1(c, i) ==   \* mutant: the widest of the application's limits
    c.op = "CONFIG_SET" /\ c.val # None
        => \E j \in DOMAIN Caps[auth] :
              Caps[auth][j].max = 0 \/ Size[c.val] <= Caps[auth][j].max
WithinPayload(c, i) ==
    c.op = "CONFIG_SET" /\ c.val # None /\ Caps[auth][i].max # 0
        => Size[c.val] <= Caps[auth][i].max

\* wdc_caps_authorize_host_call, for the configuration operations; a timer
\* needs no capability.
CapsDecision(c) ==
    LET i == CapFor(auth, IF c.op = "CONFIG_GET" THEN "read" ELSE "write", c.key)
    IN  IF c.op \notin ConfigOps THEN "OK"
        ELSE FirstError(<< Check(c.key # None, "BAD_ENCODING"),
                           Check(i # 0, "CAPABILITY_DENIED"),
                           Check(i # 0 /\ WithinPayload(c, i), "BAD_LENGTH") >>)

Rated(c) ==
    /\ c.op \in ConfigOps
    /\ LET i == CapFor(auth, IF c.op = "CONFIG_GET" THEN "read" ELSE "write", c.key)
       IN  Caps[auth][i].rated

\* opcode_is_effectful_when_stopped
Effectful == {"CONFIG_SET", "CONFIG_DELETE", "TIMER_SET", "TIMER_CANCEL"}

\* maybe_authorize with wdc_safety_authorize_host_call: the decisions the
\* guest may get, which are answered in the response.
Decisions(c) ==
    LET d == FirstError(<<
                Check(auth # NoApp \/ c.op = "SYS_GET_INFO", "CAPABILITY_DENIED"),
                Check(c.op \in Effectful => running, "INVALID_STATE") >>)
        e == IF d # "OK" \/ auth = NoApp THEN d ELSE CapsDecision(c)
    IN  {e} \cup (IF e = "OK" /\ auth # NoApp /\ Rated(c) THEN {"RATE_LIMITED"}
                  ELSE {})

-----------------------------------------------------------------------------
(***************************************************************************)
(* Answers.                                                                *)
(***************************************************************************)

Answer(c, ret, code, data) ==
    reply' = [op |-> c.op, key |-> c.key, val |-> c.val,
              ret |-> ret, code |-> code, data |-> data]

Return(c, err) == Answer(c, err, None, None)

\* response_status: a map of one entry, of unit length.
Respond(c, code) ==
    IF c.rsp >= 1 THEN Answer(c, "OK", code, None)
    ELSE Return(c, "RESPONSE_TOO_SMALL")

Refuse(c) ==
    /\ Gate(c) # "OK"
    /\ Return(c, Gate(c))
    /\ UNCHANGED <<config, timers, auth, running, limits>>

Deny(c) ==
    /\ Gate(c) = "OK"
    /\ \E d \in Decisions(c) \ {"OK"} : Respond(c, d)
    /\ UNCHANGED <<config, timers, auth, running, limits>>

\* The handler of op is reached.
Reached(c, op) == c.op = op /\ Gate(c) = "OK" /\ "OK" \in Decisions(c)

-----------------------------------------------------------------------------
(***************************************************************************)
(* The handlers.                                                           *)
(***************************************************************************)

\* find_config, find_timer
Find(table, k) ==
    LET at == {i \in DOMAIN table : table[i] # Free /\ table[i].key = k}
    IN  IF at = {} THEN 0 ELSE Min(at)

\* The entry of k, or else the first free slot; 0 if the table is full.
SlotFor_m1(table, k) ==   \* mutant: a free slot is taken first
    LET free == {i \in DOMAIN table : table[i] = Free}
    IN  IF free # {} THEN Min(free) ELSE Find(table, k)
SlotFor(table, k) ==
    LET free == {i \in DOMAIN table : table[i] = Free}
    IN  IF Find(table, k) # 0 THEN Find(table, k)
        ELSE IF free = {} THEN 0 ELSE Min(free)

Written(table, k, v) ==
    IF SlotFor(table, k) = 0 THEN table
    ELSE [table EXCEPT ![SlotFor(table, k)] = [key |-> k, val |-> v]]

Cleared_m1(table, k) ==   \* mutant: a miss clears the first slot
    [table EXCEPT ![IF Find(table, k) = 0 THEN 1 ELSE Find(table, k)] = Free]
Cleared(table, k) ==
    IF Find(table, k) = 0 THEN table
    ELSE [table EXCEPT ![Find(table, k)] = Free]

WriteCode(table, k) == IF SlotFor(table, k) = 0 THEN "NO_MEMORY" ELSE "OK"

\* config_set: the entry is written before the response is, so a response
\* that does not fit leaves it in place.
ConfigSet(c) ==
    LET err == FirstError(<<
                  Check(c.val # None, "BAD_ENCODING"),
                  Check(c.key \notin LongKey /\
                        (c.val \in Value => Size[c.val] <= ConfigValueMax),
                        "BAD_LENGTH") >>)
    IN  /\ Reached(c, "CONFIG_SET")
        /\ IF err # "OK" THEN Return(c, err) /\ UNCHANGED config
           ELSE /\ config' = Written(config, c.key, c.val)
                /\ Respond(c, WriteCode(config, c.key))
        /\ UNCHANGED <<timers, auth, running, limits>>

ConfigGet(c) ==
    LET i == Find(config, c.key)
    IN  /\ Reached(c, "CONFIG_GET")
        /\ IF i = 0 THEN Respond(c, "NOT_AVAILABLE")
           ELSE IF c.rsp < 1 + Size[config[i].val]
                THEN Return(c, "RESPONSE_TOO_SMALL")
                ELSE Answer(c, "OK", "OK", config[i].val)
        /\ UNCHANGED <<config, timers, auth, running, limits>>

ConfigDelete(c) ==
    /\ Reached(c, "CONFIG_DELETE")
    /\ config' = Cleared(config, c.key)
    /\ Respond(c, "OK")
    /\ UNCHANGED <<timers, auth, running, limits>>

\* timer_set: None also stands for id 0 and delay 0, which are refused alike.
TimerSet(c) ==
    /\ Reached(c, "TIMER_SET")
    /\ IF None \in {c.key, c.val}
       THEN Return(c, "BAD_ENCODING") /\ UNCHANGED timers
       ELSE /\ timers' = Written(timers, c.key, c.val)
            /\ Respond(c, WriteCode(timers, c.key))
    /\ UNCHANGED <<config, auth, running, limits>>

TimerCancel(c) ==
    /\ Reached(c, "TIMER_CANCEL")
    /\ IF c.key = None
       THEN Return(c, "BAD_ENCODING") /\ UNCHANGED timers
       ELSE timers' = Cleared(timers, c.key) /\ Respond(c, "OK")
    /\ UNCHANGED <<config, auth, running, limits>>

\* sys_info: a map of five entries.
SysGetInfo(c) ==
    /\ Reached(c, "SYS_GET_INFO")
    /\ IF c.rsp < Default.rsp THEN Return(c, "RESPONSE_TOO_SMALL")
       ELSE Answer(c, "OK", "OK", None)
    /\ UNCHANGED <<config, timers, auth, running, limits>>

HostCall(c) ==
    /\ reply = NoReply
    /\ \/ Refuse(c) \/ Deny(c)
       \/ ConfigSet(c) \/ ConfigGet(c) \/ ConfigDelete(c)
       \/ TimerSet(c) \/ TimerCancel(c)
       \/ SysGetInfo(c)

\* wdc_host_call returns to the guest, which reads the answer.
GuestResumes ==
    /\ reply # NoReply
    /\ reply' = NoReply
    /\ UNCHANGED <<config, timers, auth, running, limits>>

Next ==
    \/ \E a \in App : StartApp(a)
    \/ StopApp \/ ClearAuthorizer
    \/ \E c \in Calls : HostCall(c)
    \/ GuestResumes

Spec == Init /\ [][Next]_vars

-----------------------------------------------------------------------------
(***************************************************************************)
(* Properties                                                              *)
(***************************************************************************)

Slots(K, V) == {Free} \cup [key : K, val : V]

\* Tables, limits and authorizer keep their types; no slot holds a key or a
\* value that config_set must refuse, and the limits never exceed the defaults.
TypeOK ==
    /\ config \in [1..ConfigSlots -> Slots(Key \ LongKey, Value)]
    /\ timers \in [1..TimerSlots -> Slots(TimerId, TimerSpec)]
    /\ \A i \in 1..ConfigSlots :
          config[i] # Free => Size[config[i].val] <= ConfigValueMax
    /\ auth \in App \cup {NoApp} /\ running \in BOOLEAN
    /\ limits \in [req : 1..Default.req, rsp : 1..Default.rsp]

Lookup(table, k) == IF Find(table, k) = 0 THEN None ELSE table[Find(table, k)].val

ConfigMap == INSTANCE BoundedMap WITH
    N <- ConfigSlots, PutOp <- "CONFIG_SET", GetOp <- "CONFIG_GET",
    DropOp <- "CONFIG_DELETE", answer <- reply,
    map <- [k \in Key |-> Lookup(config, k)]

\* The configuration slots are a bounded map and the guest's answers are true
\* of it, over every order of sets, overwrites, deletes that leave holes,
\* refusals and responses that do not fit, by one application after another.
ConfigIsMap == ConfigMap!Spec

TimerMap == INSTANCE BoundedMap WITH
    Key <- TimerId, Value <- TimerSpec,
    N <- TimerSlots, PutOp <- "TIMER_SET", GetOp <- "TIMER_GET",
    DropOp <- "TIMER_CANCEL", answer <- reply,
    map <- [k \in TimerId |-> Lookup(timers, k)]

\* The timer slots are a bounded map too: a cancelled timer is gone, an
\* overwritten one takes no second slot, a full table refuses a new timer only.
TimersAreMap == TimerMap!Spec

\* An entry changes only while an application runs and an authorizer is
\* installed, and a configuration entry only under one capability that covers
\* its key, the write, and the size of what is written.
EffectsByRight ==
    [][/\ <<config, timers>>' # <<config, timers>> => running /\ auth # NoApp
       /\ \A k \in Key :
             LET v == Lookup(config', k)
             IN  v # Lookup(config, k)
                    => \E i \in DOMAIN Caps[auth] :
                          /\ k \in Caps[auth][i].keys
                          /\ "write" \in Caps[auth][i].ops
                          /\ v # None /\ Caps[auth][i].max # 0
                                => Size[v] <= Caps[auth][i].max]_vars

=============================================================================
