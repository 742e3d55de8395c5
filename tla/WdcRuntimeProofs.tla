-------------------------- MODULE WdcRuntimeProofs --------------------------
(***************************************************************************)
(* Proofs about the runtime's lifecycle on the boot path (WdcRuntime) and  *)
(* the diagnostic log (WdcDiag), with the static smoke and without it, and *)
(* for a log of any capacity.                                              *)
(***************************************************************************)
EXTENDS WdcRuntime, FiniteSetTheorems, SequenceTheorems, TLAPS

-----------------------------------------------------------------------------
(***************************************************************************)
(* The calls of the runtime.                                               *)
(***************************************************************************)

ObjectKinds == {"module", "inst", "env"}

Outcomes == {"not_started", "ok", "runtime_init_failed", "invalid_payload",
             "bundle_load_failed", "instantiate_failed", "exec_env_failed",
             "export_missing", "guest_trapped", "guest_non_ok_status"}

Runtimes == [initialized : BOOLEAN, loaded : BOOLEAN, resolved : BOOLEAN,
             held : SUBSET ObjectKinds, outcome : Outcomes]

\* The objects that user u holds.
Objs(u, held) == {[kind |-> k, of |-> u] : k \in held}

\* What the stores into a WdcRuntime leave alone.
LEMMA OutcomeFacts ==
    ASSUME NEW r \in Runtimes, NEW o \in Outcomes
    PROVE  /\ [r EXCEPT !.outcome = o] \in Runtimes /\ [r EXCEPT !.outcome = o].held = r.held
           /\ [r EXCEPT !.outcome = o].outcome = o
BY DEF Runtimes

LEMMA ReleaseFacts ==
    ASSUME NEW r \in Runtimes, NEW h \in SUBSET ObjectKinds
    PROVE  /\ [r EXCEPT !.held = h] \in Runtimes /\ [r EXCEPT !.held = h].held = h
           /\ [r EXCEPT !.held = h].outcome = r.outcome
BY DEF Runtimes

LEMMA FlagFacts ==
    ASSUME NEW r \in Runtimes, NEW b \in BOOLEAN
    PROVE  /\ [r EXCEPT !.initialized = b] \in Runtimes
           /\ [r EXCEPT !.initialized = b].held = r.held
           /\ [r EXCEPT !.resolved = b] \in Runtimes /\ [r EXCEPT !.resolved = b].held = r.held
BY DEF Runtimes

LEMMA BlankFacts ==
    Blank \in Runtimes /\ Blank.held = {} /\ Blank.outcome = "not_started"
<1>1. ASSUME NEW b \in BOOLEAN, NEW h \in SUBSET ObjectKinds, NEW o \in Outcomes, NEW r,
             r = [initialized |-> b, loaded |-> b, resolved |-> b, held |-> h, outcome |-> o]
      PROVE  r \in Runtimes /\ r.held = h /\ r.outcome = o
  BY <1>1 DEF Runtimes
<1>2. FALSE \in BOOLEAN
  BY Zenon
<1>3. {} \in SUBSET ObjectKinds /\ "not_started" \in Outcomes
  BY DEF Outcomes
<1>4. PICK b, h, o : b = FALSE /\ h = {} /\ o = "not_started"
  BY Zenon
<1>5. Blank = [initialized |-> b, loaded |-> b, resolved |-> b, held |-> h, outcome |-> o]
  BY <1>4, Zenon DEF Blank
<1>6. b \in BOOLEAN /\ h \in SUBSET ObjectKinds /\ o \in Outcomes
  BY <1>2, <1>3, <1>4, Zenon
<1>7. Blank \in Runtimes /\ Blank.held = h /\ Blank.outcome = o
  BY <1>1, <1>5, <1>6
<1>. QED  BY <1>4, <1>7, Zenon

\* wdc_runtime_set_error
LEMMA FailFacts ==
    ASSUME rt \in Runtimes, NEW s, NEW o \in Outcomes, NEW h \in SUBSET ObjectKinds, NEW g,
           Fails(s, o, h, g)
    PROVE  /\ rt' \in Runtimes /\ rt'.held = h /\ rt'.outcome = o
           /\ status' = s /\ step' = "failed"
           /\ cause'.status = s /\ cause'.outcome = o
<1>1. rt' = [rt EXCEPT !.outcome = o, !.held = h] /\ status' = s /\ step' = "failed"
      /\ cause' = [status |-> s, outcome |-> o]
  BY DEF Fails
<1>2. [rt EXCEPT !.outcome = o, !.held = h] \in Runtimes
      /\ [rt EXCEPT !.outcome = o, !.held = h].held = h
      /\ [rt EXCEPT !.outcome = o, !.held = h].outcome = o
  BY DEF Runtimes
<1>. QED  BY <1>1, <1>2

LEMMA PassFacts ==
    ASSUME NEW r \in Runtimes, NEW g, Passes(r, g)
    PROVE  /\ rt' \in Runtimes /\ rt'.held = r.held /\ step' = After(user, step)
           /\ status' = status /\ cause' = cause
<1>1. rt' = [r EXCEPT !.outcome = "ok"] /\ step' = After(user, step)
      /\ status' = status /\ cause' = cause
  BY DEF Passes
<1>2. [r EXCEPT !.outcome = "ok"] \in Runtimes /\ [r EXCEPT !.outcome = "ok"].held = r.held
  <2>1. "ok" \in Outcomes
    BY DEF Outcomes
  <2>. QED  BY <2>1, OutcomeFacts, Zenon
<1>. QED  BY <1>1, <1>2

\* The objects made by the first i steps of a load are the ones it holds.
LEMMA PartialFacts ==
    ASSUME NEW i \in 0..3
    PROVE  Partial(i) \in SUBSET ObjectKinds /\ Created(i) = Objs(user, Partial(i))
<1>. DEFINE part == <<"module", "inst", "env">>
<1>1. part[1] \in ObjectKinds /\ part[2] \in ObjectKinds /\ part[3] \in ObjectKinds
  BY DEF ObjectKinds
<1>2. \A k \in 1..i : part[k] \in ObjectKinds
  BY <1>1
<1>3. Partial(i) = {part[k] : k \in 1..i} /\ Created(i) = {[kind |-> part[k], of |-> user] : k \in 1..i}
  BY DEF Partial, Created
<1>. HIDE DEF part
<1>. QED  BY <1>2, <1>3 DEF Objs

LEMMA LoadErrorFacts ==
    ASSUME NEW i \in 0..2
    PROVE  /\ LoadError(i)[2] \in Outcomes
           /\ LoadError(i)[1] \notin {"OK", "NOT_AVAILABLE"}
<1>0. ASSUME NEW a, NEW b, NEW t, t = <<a, b>>
      PROVE  t[1] = a /\ t[2] = b
  BY <1>0
<1>1. LoadError(0) = <<"BAD_ENCODING", "bundle_load_failed">>
      /\ LoadError(1) = <<"NO_MEMORY", "instantiate_failed">>
      /\ LoadError(2) = <<"NO_MEMORY", "exec_env_failed">>
  BY DEF LoadError
<1>2. /\ LoadError(0)[1] = "BAD_ENCODING" /\ LoadError(0)[2] = "bundle_load_failed"
      /\ LoadError(1)[1] = "NO_MEMORY" /\ LoadError(1)[2] = "instantiate_failed"
      /\ LoadError(2)[1] = "NO_MEMORY" /\ LoadError(2)[2] = "exec_env_failed"
  BY <1>0, <1>1
<1>3. i = 0 \/ i = 1 \/ i = 2
  OBVIOUS
<1>4. CASE i = 0
  BY <1>2, <1>4 DEF Outcomes
<1>5. CASE i = 1
  BY <1>2, <1>5 DEF Outcomes
<1>6. CASE i = 2
  BY <1>2, <1>6 DEF Outcomes
<1>. QED  BY <1>3, <1>4, <1>5, <1>6

\* The script never goes back to the beginning, nor to an end of its own.
LEMMA AfterFacts ==
    ASSUME NEW u \in Users,
           NEW s \in {"init", "load", "lookup", "call_init", "on_event", "health", "shutdown"}
    PROVE  /\ After(u, s) \notin {"start", "init", "up", "return", "failed"}
           /\ After(u, s) = "load" <=> s = "init"
<1>1. /\ After(u, "init") = "load" /\ After(u, "load") = "lookup"
      /\ After(u, "lookup") = "call_init"
      /\ After(u, "call_init") = IF u = "probe" THEN "health" ELSE "on_event"
      /\ After(u, "on_event") = "health"
      /\ After(u, "health") = IF u = "probe" THEN "confirm" ELSE "shutdown"
      /\ After(u, "shutdown") = "report"
  BY DEF After
<1>. QED  BY <1>1

-----------------------------------------------------------------------------
(***************************************************************************)
(* Nothing leaks.  When nobody runs, and when the probe holds the status   *)
(* on which it skips the teardown, WAMR is down and nothing is held.       *)
(***************************************************************************)

Idle ==
    \/ step \in {"start", "init", "up"}
    \/ user = "smoke" /\ step = "return"
    \/ user = "probe" /\ step \in {"failed", "return"} /\ status = "NOT_AVAILABLE"

HeldInv ==
    /\ user \in Users /\ rt \in Runtimes /\ wamr \in BOOLEAN
    /\ live = Objs(user, rt.held)
    /\ rt.held # {} => wamr = TRUE
    /\ step = "load" => wamr = TRUE /\ rt.held = {}
    /\ Idle => wamr = FALSE /\ rt.held = {}

LEMMA HeldInit == Init => HeldInv
<1>. SUFFICES ASSUME Init PROVE HeldInv
  OBVIOUS
<1>1. rt \in Runtimes /\ rt.held = {}
  BY BlankFacts DEF Init
<1>2. live = Objs(user, rt.held)
  BY <1>1 DEF Init, Objs
<1>3. wamr = FALSE /\ user = "probe" /\ step = "start"
  BY Zenon DEF Init
<1>. QED  BY <1>1, <1>2, <1>3 DEF HeldInv, Users

\* The steps of the probe and of the smoke around the runtime's calls.
LEMMA HeldCallers ==
    ASSUME HeldInv, step' # "load", Idle' => Idle, UNCHANGED <<user, rt, wamr, live>>
    PROVE  HeldInv'
BY DEF HeldInv

\* A failing call of the runtime returns WDC_ERR_NOT_AVAILABLE to the probe
\* only while WAMR is down.
LEMMA HeldFails ==
    ASSUME HeldInv, NEW s, NEW o \in Outcomes, NEW h \in SUBSET ObjectKinds, NEW g,
           Fails(s, o, h, g), UNCHANGED <<user, wamr>>, live' = Objs(user, h),
           h # {} => wamr = TRUE,
           user = "probe" /\ s = "NOT_AVAILABLE" => wamr = FALSE /\ h = {}
    PROVE  HeldInv'
<1>1. rt' \in Runtimes /\ rt'.held = h /\ status' = s /\ step' = "failed"
  BY FailFacts DEF HeldInv
<1>2. Idle' => user = "probe" /\ s = "NOT_AVAILABLE"
  BY <1>1 DEF Idle
<1>. QED  BY <1>1, <1>2 DEF HeldInv

LEMMA HeldPasses ==
    ASSUME HeldInv, NEW r \in Runtimes, NEW g, Passes(r, g), user' = user,
           wamr' \in BOOLEAN, step = "init" \/ r.held # {} => wamr' = TRUE,
           live' = Objs(user, r.held),
           step \in {"init", "load", "lookup", "call_init", "on_event", "health", "shutdown"},
           step = "init" => r.held = {}
    PROVE  HeldInv'
<1>1. /\ rt' \in Runtimes /\ rt'.held = r.held /\ step' = After(user, step)
  BY PassFacts
<1>2. /\ step' \notin {"start", "init", "up", "return", "failed"}
      /\ step' = "load" <=> step = "init"
  BY <1>1, AfterFacts DEF HeldInv
<1>3. ~ Idle'
  BY <1>2 DEF Idle
<1>. QED  BY <1>1, <1>2, <1>3 DEF HeldInv

LEMMA TeardownFacts ==
    ASSUME HeldInv, Teardown
    PROVE  /\ rt' \in Runtimes /\ rt'.held = {} /\ rt'.outcome = rt.outcome
           /\ wamr' = FALSE /\ live' = {}
<1>1. rt' = [rt EXCEPT !.held = {}] /\ live' = live \ Objs(user, rt.held)
  BY DEF Teardown, Objs
<1>2. wamr' = FALSE
  BY Zenon DEF Teardown
<1>3. rt \in Runtimes /\ live = Objs(user, rt.held)
  BY DEF HeldInv
<1>4. rt' \in Runtimes /\ rt'.held = {} /\ rt'.outcome = rt.outcome
  BY <1>1, <1>3, ReleaseFacts
<1>. QED  BY <1>1, <1>2, <1>3, <1>4

\* Released by one user, taken up by the next or by none.
LEMMA HeldReleased ==
    ASSUME rt' \in Runtimes, rt'.held = {}, wamr' = FALSE, live' = {}, user' \in Users,
           step' # "load"
    PROVE  HeldInv'
<1>1. live' = Objs(user', rt'.held)
  BY DEF Objs
<1>2. wamr' \in BOOLEAN
  BY Zenon
<1>. QED  BY <1>1, <1>2 DEF HeldInv

LEMMA ProbeEndFacts ==
    ASSUME user = "probe", ProbeEnds
    PROVE  /\ user' \in Users /\ step' # "load" /\ status' = "OK"
           /\ \/ user' = "smoke" /\ step' = "init"
              \/ user' = "probe" /\ step' = "up"
BY DEF ProbeEnds, Users

LEMMA HeldStep == HeldInv /\ [Next]_vars => HeldInv'
<1>. SUFFICES ASSUME HeldInv, [Next]_vars PROVE HeldInv'
  OBVIOUS
<1>0. /\ user \in Users /\ rt \in Runtimes /\ live = Objs(user, rt.held)
      /\ rt.held \in SUBSET ObjectKinds /\ wamr \in BOOLEAN
      /\ rt.held # {} => wamr = TRUE
      /\ step = "load" => wamr = TRUE /\ rt.held = {}
      /\ Idle => wamr = FALSE /\ rt.held = {}
  BY DEF HeldInv, Runtimes
<1>e. Objs(user, {}) = {}
  BY DEF Objs
<1>1. CASE ProbeCannotRead
  <2>1. user = "probe" /\ step = "start" /\ ProbeEnds /\ UNCHANGED <<rt, wamr, live>>
    BY <1>1 DEF ProbeCannotRead
  <2>2. wamr = FALSE /\ rt.held = {} /\ live = {}
    BY <1>0, <1>e, <2>1 DEF Idle
  <2>. QED  BY <1>0, <2>1, <2>2, ProbeEndFacts, HeldReleased
<1>2. CASE ProbeGivesUp
  BY <1>2, HeldCallers DEF ProbeGivesUp, Idle
<1>3. CASE ProbeFindsNoBundle
  BY <1>3, HeldCallers DEF ProbeFindsNoBundle, Idle
<1>4. CASE ProbeStarts
  BY <1>4, HeldCallers DEF ProbeStarts, Idle
<1>5. ASSUME NEW s, ProbeRejects(s) PROVE HeldInv'
  BY <1>5, HeldCallers DEF ProbeRejects, Idle
<1>6. CASE RuntimeInit
  <2>0. step = "init" /\ user' = user /\ live' = live /\ Idle
    BY <1>6 DEF RuntimeInit, Idle
  <2>1. CASE Passes([Blank EXCEPT !.initialized = TRUE], <<"info">>) /\ wamr' = TRUE
    <3>1. PICK r : r = [Blank EXCEPT !.initialized = TRUE]
      BY Zenon
    <3>2. TRUE \in BOOLEAN
      BY Zenon
    <3>3. r \in Runtimes /\ r.held = Blank.held
      BY <3>1, <3>2, BlankFacts, FlagFacts, Zenon
    <3>4. Passes(r, <<"info">>) /\ wamr' = TRUE
      BY <2>1, <3>1, Zenon
    <3>5. live' = Objs(user, r.held) /\ r.held = {}
      BY <1>0, <2>0, <3>3, BlankFacts
    <3>6. wamr' \in BOOLEAN
      BY <3>4, Zenon
    <3>. QED  BY <2>0, <3>3, <3>4, <3>5, <3>6, HeldPasses
  <2>2. CASE /\ Fails("NOT_AVAILABLE", "runtime_init_failed", {}, <<>>)
             /\ UNCHANGED wamr
    <3>1. "runtime_init_failed" \in Outcomes
      BY DEF Outcomes
    <3>2. live' = Objs(user, {}) /\ wamr = FALSE /\ {} \in SUBSET ObjectKinds
      BY <1>0, <2>0
    <3>. QED  BY <2>0, <2>2, <3>1, <3>2, HeldFails
  <2>. QED  BY <1>6, <2>1, <2>2 DEF RuntimeInit
<1>7. CASE RuntimeLoad
  <2>0. step = "load" /\ UNCHANGED <<user, wamr>> /\ live = {} /\ wamr = TRUE
    BY <1>0, <1>7, <1>e DEF RuntimeLoad
  <2>1. PICK i \in 0..3 :
            /\ live' = live \cup Created(i)
            /\ IF i = 3 THEN Passes([rt EXCEPT !.loaded = TRUE, !.held = Partial(3)], <<"info">>)
               ELSE Fails(LoadError(i)[1], LoadError(i)[2], Partial(i), <<>>)
    BY <1>7 DEF RuntimeLoad
  <2>2. Partial(i) \in SUBSET ObjectKinds /\ live' = Objs(user, Partial(i))
    BY <2>0, <2>1, PartialFacts
  <2>3. CASE i = 3
    <3>1. PICK r : r = [rt EXCEPT !.loaded = TRUE, !.held = Partial(3)]
      BY Zenon
    <3>2. TRUE \in BOOLEAN
      BY Zenon
    <3>3. r \in Runtimes /\ r.held = Partial(3)
      <4>1. ASSUME NEW b \in BOOLEAN, NEW q, q = [rt EXCEPT !.loaded = b, !.held = Partial(3)]
            PROVE  q \in Runtimes /\ q.held = Partial(3)
        BY <1>0, <2>2, <2>3, <4>1 DEF Runtimes
      <4>. QED  BY <3>1, <3>2, <4>1, Zenon
    <3>4. Passes(r, <<"info">>)
      BY <2>1, <2>3, <3>1, Zenon
    <3>. QED  BY <1>0, <2>0, <2>2, <2>3, <3>3, <3>4, HeldPasses
  <2>4. CASE i # 3
    <3>1. i \in 0..2
      BY <2>4
    <3>2. Fails(LoadError(i)[1], LoadError(i)[2], Partial(i), <<>>)
      BY <2>1, <2>4
    <3>3. LoadError(i)[2] \in Outcomes /\ LoadError(i)[1] # "NOT_AVAILABLE"
      BY <3>1, LoadErrorFacts
    <3>. QED  BY <2>0, <2>2, <3>2, <3>3, HeldFails
  <2>. QED  BY <2>3, <2>4
<1>8. CASE RuntimeRefusesPayload
  <2>1. "invalid_payload" \in Outcomes
    BY DEF Outcomes
  <2>2. PICK s \in {"BAD_LENGTH", "BAD_ENCODING"} : Fails(s, "invalid_payload", rt.held, <<>>)
    BY <1>8 DEF RuntimeRefusesPayload
  <2>3. UNCHANGED <<user, wamr, live>> /\ s # "NOT_AVAILABLE"
    BY <1>8, <2>2 DEF RuntimeRefusesPayload
  <2>. QED  BY <1>0, <2>1, <2>2, <2>3, HeldFails
<1>9. CASE RuntimeLookup
  <2>0. step = "lookup" /\ UNCHANGED <<user, wamr, live>>
    BY <1>9 DEF RuntimeLookup
  <2>1. CASE Passes([rt EXCEPT !.resolved = TRUE], <<"info">>)
    <3>1. PICK r : r = [rt EXCEPT !.resolved = TRUE]
      BY Zenon
    <3>2. TRUE \in BOOLEAN
      BY Zenon
    <3>3. r \in Runtimes /\ r.held = rt.held
      BY <1>0, <3>1, <3>2, FlagFacts, Zenon
    <3>4. Passes(r, <<"info">>)
      BY <2>1, <3>1, Zenon
    <3>. QED  BY <1>0, <2>0, <3>3, <3>4, HeldPasses
  <2>2. CASE MayMiss(user) /\ Fails("NOT_AVAILABLE", "export_missing", rt.held, <<>>)
    <3>1. "export_missing" \in Outcomes
      BY DEF Outcomes
    <3>2. user # "probe"
      BY <2>2 DEF MayMiss
    <3>. QED  BY <1>0, <2>0, <2>2, <3>1, <3>2, HeldFails
  <2>. QED  BY <1>9, <2>1, <2>2 DEF RuntimeLookup
<1>10. CASE GuestCall
  <2>0. step \in {"call_init", "on_event", "health", "shutdown"} /\ UNCHANGED <<user, wamr, live>>
    BY <1>10 DEF GuestCall
  <2>1. ASSUME NEW g, Passes(rt, g) PROVE HeldInv'
    BY <1>0, <2>0, <2>1, HeldPasses
  <2>2. ASSUME NEW g, NEW o \in {"guest_trapped", "guest_non_ok_status"},
               Fails("CONTRACT_VIOLATION", o, rt.held, g)
        PROVE  HeldInv'
    <3>1. o \in Outcomes
      BY DEF Outcomes
    <3>. QED  BY <1>0, <2>0, <2>2, <3>1, HeldFails
  <2>. QED  BY <1>10, <2>1, <2>2 DEF GuestCall
<1>11. CASE EventAllocationFails
  <2>1. "exec_env_failed" \in Outcomes
    BY DEF Outcomes
  <2>2. Fails("NO_MEMORY", "exec_env_failed", rt.held, <<>>) /\ UNCHANGED <<user, wamr, live>>
    BY <1>11 DEF EventAllocationFails
  <2>. QED  BY <1>0, <2>1, <2>2, HeldFails
<1>12. CASE ProbeConfirms
  BY <1>12, HeldCallers DEF ProbeConfirms, Idle
<1>13. CASE ProbeFails
  BY <1>13, HeldCallers DEF ProbeFails, Idle
<1>14. CASE ProbeReturns
  <2>0. user = "probe" /\ step = "return" /\ ProbeEnds
    BY <1>14 DEF ProbeReturns
  <2>1. CASE status = "NOT_AVAILABLE"
    <3>1. rt' = Blank /\ UNCHANGED <<wamr, live>>
      BY <1>14, <2>1 DEF ProbeReturns
    <3>2. wamr = FALSE /\ live = {}
      BY <1>0, <1>e, <2>0, <2>1 DEF Idle
    <3>. QED  BY <2>0, <3>1, <3>2, BlankFacts, ProbeEndFacts, HeldReleased
  <2>2. CASE status # "NOT_AVAILABLE"
    <3>1. Teardown
      BY <1>14, <2>2 DEF ProbeReturns
    <3>. QED  BY <2>0, <3>1, TeardownFacts, ProbeEndFacts, HeldReleased
  <2>. QED  BY <2>1, <2>2
<1>15. CASE SmokeReports
  <2>1. Teardown /\ step' = "return" /\ user' = user
    BY <1>15 DEF SmokeReports
  <2>. QED  BY <1>0, <2>1, TeardownFacts, HeldReleased
<1>16. CASE SmokeReturns
  BY <1>16, HeldCallers DEF SmokeReturns, Idle
<1>17. CASE ShellIsUp \/ UNCHANGED vars
  <2>1. UNCHANGED <<user, step, status, rt, wamr, live>>
    BY <1>17 DEF ShellIsUp, vars
  <2>. QED  BY <2>1 DEF HeldInv, Idle
<1>. QED  BY <1>1, <1>2, <1>3, <1>4, <1>5, <1>6, <1>7, <1>8, <1>9, <1>10, <1>11,
             <1>12, <1>13, <1>14, <1>15, <1>16, <1>17 DEF Next

\* Every object WAMR has belongs to the runtime in use, which holds it, and
\* WAMR is up as long as there is one; once the shell is up WAMR is down and
\* empty.  No failure of wdc_runtime's calls leaks, although the probe skips
\* the teardown on WDC_ERR_NOT_AVAILABLE, with the smoke and without it.
THEOREM RuntimeReleased == Spec => []RuntimeIsReleased
<1>1. HeldInv => RuntimeIsReleased
  <2>. SUFFICES ASSUME HeldInv PROVE RuntimeIsReleased
    OBVIOUS
  <2>1. live = {[kind |-> k, of |-> user] : k \in rt.held}
    BY DEF HeldInv, Objs
  <2>2. rt.held # {} => wamr
    BY Zenon DEF HeldInv
  <2>3. ASSUME step = "up" PROVE wamr = FALSE /\ live = {}
    BY <2>1, <2>3 DEF HeldInv, Idle
  <2>4. step = "up" => ~wamr /\ live = {}
    BY <2>3, Zenon
  <2>. QED  BY <2>1, <2>2, <2>4 DEF RuntimeIsReleased
<1>. QED  BY <1>1, HeldInit, HeldStep, PTL DEF Spec

-----------------------------------------------------------------------------
(***************************************************************************)
(* A fault is explained: from a failure to the breadcrumb of it, the       *)
(* caller's status and the runtime's outcome are the ones it failed with.  *)
(***************************************************************************)

Explained ==
    /\ crumb.generation > 0
    /\ crumb.status = cause.status /\ crumb.outcome = cause.outcome

FaultInv ==
    /\ crumb.generation \in Nat
    /\ step = "failed" => cause.status = status /\ cause.outcome = rt.outcome
    /\ user = "smoke" /\ step = "return" /\ status # "OK"
          => cause.status = status /\ cause.outcome = rt.outcome
    /\ user = "smoke" /\ step \notin {"failed", "return", "up"} => status = "OK"
    /\ user = "probe" /\ step \notin {"return", "up"} => app # "fault_stopped"
    /\ app = "fault_stopped" /\ (user = "probe" \/ step = "up" \/ status = "OK") => Explained

LEMMA FaultInit == Init => FaultInv
<1>. SUFFICES ASSUME Init PROVE FaultInv
  OBVIOUS
<1>1. user = "probe" /\ step = "start" /\ app = "boot_safe" /\ crumb = NoCrumb
  BY DEF Init, DiagInit
<1>2. crumb.generation = 0
  BY <1>1 DEF NoCrumb
<1>. QED  BY <1>1, <1>2 DEF FaultInv

LEMMA FaultFails ==
    ASSUME rt \in Runtimes, FaultInv, NEW s, NEW o \in Outcomes, NEW h \in SUBSET ObjectKinds,
           NEW g, Fails(s, o, h, g), s # "OK", step \notin {"return", "up"},
           UNCHANGED <<user, app, crumb>>
    PROVE  FaultInv'
<1>1. /\ rt'.outcome = o /\ status' = s /\ step' = "failed"
      /\ cause'.status = s /\ cause'.outcome = o
  BY FailFacts
<1>. QED  BY <1>1 DEF FaultInv

LEMMA FaultPasses ==
    ASSUME user \in Users, FaultInv, NEW r \in Runtimes, NEW g, Passes(r, g),
           step \in {"init", "load", "lookup", "call_init", "on_event", "health", "shutdown"},
           UNCHANGED <<user, app, crumb>>
    PROVE  FaultInv'
<1>1. status' = status /\ cause' = cause /\ step' = After(user, step)
  BY PassFacts
<1>2. step' \notin {"start", "init", "up", "return", "failed"}
  BY <1>1, AfterFacts
<1>. QED  BY <1>1, <1>2 DEF FaultInv, Explained

\* wdc_safety_stop_app with the status and the outcome of the failure.
LEMMA FaultStops ==
    ASSUME FaultInv, StopApp(rt.outcome), cause.status = status, cause.outcome = rt.outcome,
           cause' = cause
    PROVE  crumb'.generation \in Nat /\ Explained'
<1>1. crumb' = [generation |-> crumb.generation + 1, kind |-> FaultKind(rt.outcome),
                status |-> status, outcome |-> rt.outcome]
  BY DEF StopApp, RecordBreadcrumb
<1>2. crumb.generation \in Nat
  BY DEF FaultInv
<1>3. /\ crumb'.generation = crumb.generation + 1 /\ crumb'.status = status
      /\ crumb'.outcome = rt.outcome
  BY <1>1
<1>. QED  BY <1>2, <1>3 DEF Explained

LEMMA FaultStep == HeldInv /\ FaultInv /\ [Next]_vars => FaultInv'
<1>. SUFFICES ASSUME HeldInv, FaultInv, [Next]_vars PROVE FaultInv'
  OBVIOUS
<1>0. user \in Users /\ rt \in Runtimes /\ rt.held \in SUBSET ObjectKinds
  BY DEF HeldInv, Runtimes
<1>1. CASE ProbeCannotRead
  <2>1. user = "probe" /\ step = "start" /\ ProbeEnds /\ UNCHANGED <<app, cause, crumb>>
    BY <1>1 DEF ProbeCannotRead
  <2>. QED  BY <2>1, ProbeEndFacts DEF FaultInv
<1>2. CASE ProbeGivesUp
  BY <1>2 DEF ProbeGivesUp, diagVars, FaultInv
<1>3. CASE ProbeFindsNoBundle
  BY <1>3 DEF ProbeFindsNoBundle, NoBundleMode, FaultInv
<1>4. CASE ProbeStarts
  BY <1>4 DEF ProbeStarts, FaultInv
<1>5. ASSUME NEW s, ProbeRejects(s) PROVE FaultInv'
  <2>1. cause' = [status |-> s, outcome |-> rt.outcome]
    BY <1>5 DEF ProbeRejects
  <2>2. cause'.status = s /\ cause'.outcome = rt.outcome
    BY <2>1
  <2>. QED  BY <1>5, <2>2 DEF ProbeRejects, diagVars, FaultInv
<1>6. CASE RuntimeInit
  <2>0. step = "init" /\ UNCHANGED <<user, app, crumb>>
    BY <1>6 DEF RuntimeInit
  <2>1. CASE Passes([Blank EXCEPT !.initialized = TRUE], <<"info">>)
    <3>1. PICK r : r = [Blank EXCEPT !.initialized = TRUE]
      BY Zenon
    <3>2. TRUE \in BOOLEAN
      BY Zenon
    <3>3. r \in Runtimes
      BY <3>1, <3>2, BlankFacts, FlagFacts, Zenon
    <3>4. Passes(r, <<"info">>)
      BY <2>1, <3>1, Zenon
    <3>. QED  BY <1>0, <2>0, <3>3, <3>4, FaultPasses
  <2>2. CASE Fails("NOT_AVAILABLE", "runtime_init_failed", {}, <<>>)
    <3>1. "runtime_init_failed" \in Outcomes /\ {} \in SUBSET ObjectKinds
      BY DEF Outcomes
    <3>. QED  BY <1>0, <2>0, <2>2, <3>1, FaultFails
  <2>. QED  BY <1>6, <2>1, <2>2 DEF RuntimeInit
<1>7. CASE RuntimeLoad
  <2>0. step = "load" /\ UNCHANGED <<user, app, crumb>>
    BY <1>7 DEF RuntimeLoad
  <2>1. PICK i \in 0..3 :
            IF i = 3 THEN Passes([rt EXCEPT !.loaded = TRUE, !.held = Partial(3)], <<"info">>)
            ELSE Fails(LoadError(i)[1], LoadError(i)[2], Partial(i), <<>>)
    BY <1>7 DEF RuntimeLoad
  <2>2. Partial(i) \in SUBSET ObjectKinds
    BY PartialFacts
  <2>3. CASE i = 3
    <3>1. PICK r : r = [rt EXCEPT !.loaded = TRUE, !.held = Partial(3)]
      BY Zenon
    <3>2. TRUE \in BOOLEAN
      BY Zenon
    <3>3. r \in Runtimes
      <4>1. ASSUME NEW b \in BOOLEAN, NEW q, q = [rt EXCEPT !.loaded = b, !.held = Partial(3)]
            PROVE  q \in Runtimes
        BY <1>0, <2>2, <2>3, <4>1 DEF Runtimes
      <4>. QED  BY <3>1, <3>2, <4>1, Zenon
    <3>4. Passes(r, <<"info">>)
      BY <2>1, <2>3, <3>1, Zenon
    <3>. QED  BY <1>0, <2>0, <3>3, <3>4, FaultPasses
  <2>4. CASE i # 3
    <3>1. i \in 0..2
      BY <2>4
    <3>2. Fails(LoadError(i)[1], LoadError(i)[2], Partial(i), <<>>)
      BY <2>1, <2>4
    <3>3. LoadError(i)[2] \in Outcomes /\ LoadError(i)[1] # "OK"
      BY <3>1, LoadErrorFacts
    <3>. QED  BY <1>0, <2>0, <2>2, <3>2, <3>3, FaultFails
  <2>. QED  BY <2>3, <2>4
<1>8. CASE RuntimeRefusesPayload
  <2>1. "invalid_payload" \in Outcomes
    BY DEF Outcomes
  <2>2. PICK s \in {"BAD_LENGTH", "BAD_ENCODING"} : Fails(s, "invalid_payload", rt.held, <<>>)
    BY <1>8 DEF RuntimeRefusesPayload
  <2>3. UNCHANGED <<user, app, crumb>> /\ s # "OK" /\ step = "load"
    BY <1>8, <2>2 DEF RuntimeRefusesPayload
  <2>. QED  BY <1>0, <2>1, <2>2, <2>3, FaultFails
<1>9. CASE RuntimeLookup
  <2>0. step = "lookup" /\ UNCHANGED <<user, app, crumb>>
    BY <1>9 DEF RuntimeLookup
  <2>1. CASE Passes([rt EXCEPT !.resolved = TRUE], <<"info">>)
    <3>1. PICK r : r = [rt EXCEPT !.resolved = TRUE]
      BY Zenon
    <3>2. TRUE \in BOOLEAN
      BY Zenon
    <3>3. r \in Runtimes
      BY <1>0, <3>1, <3>2, FlagFacts, Zenon
    <3>4. Passes(r, <<"info">>)
      BY <2>1, <3>1, Zenon
    <3>. QED  BY <1>0, <2>0, <3>3, <3>4, FaultPasses
  <2>2. CASE Fails("NOT_AVAILABLE", "export_missing", rt.held, <<>>)
    <3>1. "export_missing" \in Outcomes
      BY DEF Outcomes
    <3>. QED  BY <1>0, <2>0, <2>2, <3>1, FaultFails
  <2>. QED  BY <1>9, <2>1, <2>2 DEF RuntimeLookup
<1>10. CASE GuestCall
  <2>0. step \in {"call_init", "on_event", "health", "shutdown"} /\ UNCHANGED <<user, app, crumb>>
    BY <1>10 DEF GuestCall
  <2>1. ASSUME NEW g, Passes(rt, g) PROVE FaultInv'
    BY <1>0, <2>0, <2>1, FaultPasses
  <2>2. ASSUME NEW g, NEW o \in {"guest_trapped", "guest_non_ok_status"},
               Fails("CONTRACT_VIOLATION", o, rt.held, g)
        PROVE  FaultInv'
    <3>1. o \in Outcomes
      BY DEF Outcomes
    <3>. QED  BY <1>0, <2>0, <2>2, <3>1, FaultFails
  <2>. QED  BY <1>10, <2>1, <2>2 DEF GuestCall
<1>11. CASE EventAllocationFails
  <2>1. "exec_env_failed" \in Outcomes
    BY DEF Outcomes
  <2>2. Fails("NO_MEMORY", "exec_env_failed", rt.held, <<>>) /\ UNCHANGED <<user, app, crumb>>
        /\ step = "on_event"
    BY <1>11 DEF EventAllocationFails
  <2>. QED  BY <1>0, <2>1, <2>2, FaultFails
<1>12. CASE ProbeConfirms
  BY <1>12 DEF ProbeConfirms, diagVars, FaultInv
<1>13. CASE ProbeFails
  <2>1. user = "probe" /\ user' = user /\ step = "failed" /\ step' = "return" /\ cause' = cause
        /\ StopApp(rt.outcome)
    BY <1>13 DEF ProbeFails, CopiedOutcome
  <2>2. cause.status = status /\ cause.outcome = rt.outcome
    BY <2>1 DEF FaultInv
  <2>3. crumb'.generation \in Nat /\ Explained'
    BY <2>1, <2>2, FaultStops
  <2>. QED  BY <2>1, <2>3 DEF FaultInv
<1>14. CASE ProbeReturns
  <2>1. user = "probe" /\ step = "return" /\ ProbeEnds /\ UNCHANGED <<app, cause, crumb>>
    BY <1>14 DEF ProbeReturns
  <2>. QED  BY <2>1, ProbeEndFacts DEF FaultInv, Explained
<1>15. CASE SmokeReports
  <2>1. /\ user = "smoke" /\ user' = user /\ step \in {"report", "failed"} /\ step' = "return"
        /\ Teardown /\ UNCHANGED <<status, app, cause, crumb>>
    BY <1>15 DEF SmokeReports
  <2>2. rt'.outcome = rt.outcome
    BY <2>1, TeardownFacts
  <2>. QED  BY <2>1, <2>2 DEF FaultInv, Explained
<1>16. CASE SmokeReturns
  <2>0. user = "smoke" /\ user' = user /\ step = "return" /\ step' = "up" /\ cause' = cause
    BY <1>16 DEF SmokeReturns
  <2>1. CASE status = "OK"
    <3>1. app' \in {"no_bundle", app} /\ crumb' = crumb
      BY <1>16, <2>1 DEF SmokeReturns, NoBundleMode
    <3>. QED  BY <2>0, <2>1, <3>1 DEF FaultInv, Explained
  <2>2. CASE status # "OK"
    <3>1. StopApp(rt.outcome) /\ cause.status = status /\ cause.outcome = rt.outcome
      BY <1>16, <2>0, <2>2 DEF SmokeReturns, FaultInv
    <3>2. crumb'.generation \in Nat /\ Explained'
      BY <2>0, <3>1, FaultStops
    <3>. QED  BY <2>0, <3>2 DEF FaultInv
  <2>. QED  BY <2>1, <2>2
<1>17. CASE ShellIsUp \/ UNCHANGED vars
  <2>1. UNCHANGED <<user, step, status, rt, app, cause, crumb>>
    BY <1>17 DEF ShellIsUp, vars, diagVars
  <2>. QED  BY <2>1 DEF FaultInv, Explained
<1>. QED  BY <1>1, <1>2, <1>3, <1>4, <1>5, <1>6, <1>7, <1>8, <1>9, <1>10, <1>11,
             <1>12, <1>13, <1>14, <1>15, <1>16, <1>17 DEF Next

\* While the application is stopped by a fault, the breadcrumb tells the status
\* and the runtime outcome of the failure that stopped it, through fail_runtime,
\* the teardown and the reports that follow.
THEOREM RuntimeFaultExplained == Spec => []FaultIsExplained
<1>1. Spec => []HeldInv
  BY HeldInit, HeldStep, PTL DEF Spec
<1>2. Spec => []FaultInv
  BY <1>1, FaultInit, FaultStep, PTL DEF Spec
<1>3. FaultInv => FaultIsExplained
  BY DEF FaultInv, Explained, FaultIsExplained
<1>. QED  BY <1>2, <1>3, PTL

-----------------------------------------------------------------------------
(***************************************************************************)
(* The diagnostic log keeps the tail.                                      *)
(***************************************************************************)

Levels == {"info", "warn", "error"}

\* A step logs at most three records; what their calls add up to.
LEMMA WithRecordsFacts ==
    ASSUME NEW d, NEW levels \in Seq(Levels), Len(levels) \in 0..3
    PROVE  WithRecords(d, levels) =
              LET one == WithRecord(d, levels[1])
                  two == WithRecord(one, levels[2])
              IN  IF Len(levels) = 0 THEN d
                  ELSE IF Len(levels) = 1 THEN one
                  ELSE IF Len(levels) = 2 THEN two
                  ELSE WithRecord(two, levels[3])
<1>. DEFINE one == WithRecord(d, levels[1])
            two == WithRecord(one, levels[2])
            three == WithRecord(two, levels[3])
            g == [n \in 0..Len(levels) |->
                    IF n = 0 THEN d ELSE IF n = 1 THEN one ELSE IF n = 2 THEN two ELSE three]
            f == CHOOSE after : after = [n \in 0..Len(levels) |->
                    IF n = 0 THEN d ELSE WithRecord(after[n - 1], levels[n])]
<1>1. g = [n \in 0..Len(levels) |-> IF n = 0 THEN d ELSE WithRecord(g[n - 1], levels[n])]
  <2>1. ASSUME NEW n \in 0..Len(levels)
        PROVE  g[n] = IF n = 0 THEN d ELSE WithRecord(g[n - 1], levels[n])
    <3>1. CASE n = 0
      BY <3>1
    <3>2. CASE n = 1
      <4>1. g[0] = d /\ g[1] = one
        BY <3>2
      <4>. QED  BY <3>2, <4>1
    <3>3. CASE n = 2
      <4>1. g[1] = one /\ g[2] = two
        BY <3>3
      <4>. QED  BY <3>3, <4>1
    <3>4. CASE n = 3
      <4>1. g[2] = two /\ g[3] = three
        BY <3>4
      <4>. QED  BY <3>4, <4>1
    <3>. QED  BY <3>1, <3>2, <3>3, <3>4
  <2>. QED  BY <2>1
<1>2. f = [n \in 0..Len(levels) |-> IF n = 0 THEN d ELSE WithRecord(f[n - 1], levels[n])]
  <2>. HIDE DEF g
  <2>. QED  BY <1>1
<1>3. WithRecords(d, levels) = f[Len(levels)]
  BY DEF WithRecords
<1>. HIDE DEF f
<1>4. /\ f[0] = d
      /\ Len(levels) >= 1 => f[1] = WithRecord(f[0], levels[1])
      /\ Len(levels) >= 2 => f[2] = WithRecord(f[1], levels[2])
      /\ Len(levels) >= 3 => f[3] = WithRecord(f[2], levels[3])
  BY <1>2
<1>5. /\ Len(levels) = 0 => WithRecords(d, levels) = d
      /\ Len(levels) = 1 => WithRecords(d, levels) = one
      /\ Len(levels) = 2 => WithRecords(d, levels) = two
      /\ Len(levels) = 3 => WithRecords(d, levels) = three
  <2>. HIDE DEF g
  <2>1. CASE Len(levels) = 0
    BY <1>3, <1>4, <2>1
  <2>2. CASE Len(levels) = 1
    BY <1>3, <1>4, <2>2
  <2>3. CASE Len(levels) = 2
    BY <1>3, <1>4, <2>3
  <2>4. CASE Len(levels) = 3
    BY <1>3, <1>4, <2>4
  <2>. QED  BY <2>1, <2>2, <2>3, <2>4
<1>6. Len(levels) = 0 \/ Len(levels) = 1 \/ Len(levels) = 2 \/ Len(levels) = 3
  OBVIOUS
<1>. QED  BY <1>5, <1>6

\* The place of the k-th record (from 0) of a log whose head is at h.
Place(h, k) == (h + k) % RingCapacity

LEMMA PlaceFacts ==
    ASSUME NEW h \in 0..RingCapacity - 1
    PROVE  /\ \A k \in 0..RingCapacity : Place(h, k) \in 0..RingCapacity - 1
           /\ \A j, k \in 0..RingCapacity - 1 : Place(h, j) = Place(h, k) => j = k
           /\ \A k \in 0..RingCapacity - 1 : Place(Place(h, 1), k) = Place(h, k + 1)
           /\ Place(h, 0) = h /\ Place(h, RingCapacity) = h
<1>1. RingCapacity \in Nat \ {0}
  BY DiagAssumption
<1>2. ASSUME NEW x \in 0..RingCapacity - 1
      PROVE  x % RingCapacity = x /\ (x + RingCapacity) % RingCapacity = x
  BY <1>1, <1>2
<1>3. ASSUME NEW g \in 0..RingCapacity - 1, NEW k \in 0..RingCapacity
      PROVE  Place(g, k) = IF g + k < RingCapacity THEN g + k ELSE g + k - RingCapacity
  <2>1. CASE g + k < RingCapacity
    BY <1>1, <1>2, <2>1 DEF Place
  <2>2. CASE g + k >= RingCapacity
    <3>1. g + k - RingCapacity \in 0..RingCapacity - 1
      BY <1>1, <2>2
    <3>2. (g + k - RingCapacity + RingCapacity) % RingCapacity = g + k - RingCapacity
      BY <1>2, <3>1
    <3>3. g + k - RingCapacity + RingCapacity = g + k
      BY <1>1
    <3>. QED  BY <1>1, <2>2, <3>2, <3>3 DEF Place
  <2>. QED  BY <1>1, <2>1, <2>2
<1>4. \A k \in 0..RingCapacity : Place(h, k) \in 0..RingCapacity - 1
  BY <1>1, <1>3
<1>5. \A j, k \in 0..RingCapacity - 1 : Place(h, j) = Place(h, k) => j = k
  BY <1>1, <1>3
<1>6. \A k \in 0..RingCapacity - 1 : Place(Place(h, 1), k) = Place(h, k + 1)
  <2>1. Place(h, 1) \in 0..RingCapacity - 1
    BY <1>1, <1>4
  <2>. QED  BY <1>1, <1>3, <2>1
<1>7. Place(h, 0) = h /\ Place(h, RingCapacity) = h
  BY <1>1, <1>3
<1>. QED  BY <1>4, <1>5, <1>6, <1>7

Logs == [ring : [0..RingCapacity - 1 -> [seq : Nat, level : Levels \cup {"none"}]],
         head : 0..RingCapacity - 1, count : 0..RingCapacity,
         next : Nat, dropped : Nat, faults : Nat]

Errors(s) == {k \in 1..Len(s) : s[k] = "error"}

\* The n records of a ring from h on are the levels s after the first x.
Holds(ring, h, n, x, s) ==
    \A i \in 0..n - 1 : /\ ring[Place(h, i)].seq = x + i + 1
                        /\ ring[Place(h, i)].level = s[x + i + 1]

\* The log d holds the tail of the levels s.
KeepsTail(d, s) ==
    /\ d \in Logs /\ s \in Seq(Levels)
    /\ d.next = Len(s) + 1 /\ d.count + d.dropped = Len(s)
    /\ Holds(d.ring, d.head, d.count, d.dropped, s)
    /\ IsFiniteSet(Errors(s)) /\ d.faults = Cardinality(Errors(s))

\* An error adds one to the errors.
LEMMA ErrorsAppend ==
    ASSUME NEW s \in Seq(Levels), NEW l \in Levels, IsFiniteSet(Errors(s))
    PROVE  /\ IsFiniteSet(Errors(Append(s, l)))
           /\ Cardinality(Errors(Append(s, l))) =
                Cardinality(Errors(s)) + (IF l = "error" THEN 1 ELSE 0)
<1>0. /\ Append(s, l) \in Seq(Levels) /\ Len(Append(s, l)) = Len(s) + 1 /\ Len(s) \in Nat
      /\ \A k \in 1..Len(s) : Append(s, l)[k] = s[k]
      /\ Append(s, l)[Len(s) + 1] = l
  OBVIOUS
<1>n. Cardinality(Errors(s)) \in Nat
  BY FS_CardinalityType
<1>1. CASE l = "error"
  <2>1. Errors(Append(s, l)) = Errors(s) \cup {Len(s) + 1} /\ Len(s) + 1 \notin Errors(s)
    BY <1>0, <1>1 DEF Errors
  <2>. QED  BY <1>1, <2>1, <1>n, FS_AddElement
<1>2. CASE l # "error"
  <2>1. Errors(Append(s, l)) = Errors(s)
    BY <1>0, <1>2 DEF Errors
  <2>. QED  BY <1>2, <2>1, <1>n
<1>. QED  BY <1>1, <1>2

\* wdc_diag_log keeps the tail, in a log with room ...
LEMMA HoldsWithRoom ==
    ASSUME NEW h \in 0..RingCapacity - 1, NEW n \in 0..RingCapacity - 1, NEW x \in Nat,
           NEW s \in Seq(Levels), NEW l \in Levels, x + n = Len(s),
           NEW ring, NEW new, Holds(ring, h, n, x, s),
           new[Place(h, n)].seq = Len(s) + 1, new[Place(h, n)].level = l,
           \A i \in 0..RingCapacity - 1 : i # Place(h, n) => new[i] = ring[i]
    PROVE  Holds(new, h, n + 1, x, Append(s, l))
<1>0. /\ RingCapacity \in Nat \ {0} /\ Len(s) \in Nat /\ n \in Nat
      /\ \A k \in 1..Len(s) : Append(s, l)[k] = s[k]
      /\ Append(s, l)[Len(s) + 1] = l
  BY DiagAssumption
<1>1. ASSUME NEW i \in 0..(n + 1) - 1
      PROVE  /\ new[Place(h, i)].seq = x + i + 1
             /\ new[Place(h, i)].level = Append(s, l)[x + i + 1]
  <2>1. CASE i = n
    BY <1>0, <2>1
  <2>2. CASE i # n
    <3>1. i \in 0..n - 1 /\ i \in 0..RingCapacity - 1 /\ x + i + 1 \in 1..Len(s)
      BY <1>0, <2>2
    <3>2. /\ Place(h, i) = Place(h, n) => i = n
          /\ i \in 0..RingCapacity => Place(h, i) \in 0..RingCapacity - 1
      BY <3>1, PlaceFacts
    <3>3. new[Place(h, i)] = ring[Place(h, i)]
      BY <1>0, <2>2, <3>1, <3>2
    <3>4. ring[Place(h, i)].seq = x + i + 1 /\ ring[Place(h, i)].level = s[x + i + 1]
      BY <3>1 DEF Holds
    <3>. QED  BY <1>0, <3>1, <3>3, <3>4
  <2>. QED  BY <2>1, <2>2
<1>. QED  BY <1>1 DEF Holds

\* ... and in a full one, where it overwrites the oldest.
LEMMA HoldsWhenFull ==
    ASSUME NEW h \in 0..RingCapacity - 1, NEW x \in Nat,
           NEW s \in Seq(Levels), NEW l \in Levels, x + RingCapacity = Len(s),
           NEW ring, NEW new, Holds(ring, h, RingCapacity, x, s),
           new[h].seq = Len(s) + 1, new[h].level = l,
           \A i \in 0..RingCapacity - 1 : i # h => new[i] = ring[i]
    PROVE  Holds(new, Place(h, 1), RingCapacity, x + 1, Append(s, l))
<1>0. /\ RingCapacity \in Nat \ {0} /\ Len(s) \in Nat
      /\ \A k \in 1..Len(s) : Append(s, l)[k] = s[k]
      /\ Append(s, l)[Len(s) + 1] = l
  BY DiagAssumption
<1>1. ASSUME NEW i \in 0..RingCapacity - 1
      PROVE  /\ new[Place(Place(h, 1), i)].seq = (x + 1) + i + 1
             /\ new[Place(Place(h, 1), i)].level = Append(s, l)[(x + 1) + i + 1]
  <2>0. Place(Place(h, 1), i) = Place(h, i + 1) /\ Place(h, 0) = h /\ Place(h, RingCapacity) = h
    BY PlaceFacts
  <2>1. CASE i = RingCapacity - 1
    <3>1. i + 1 = RingCapacity /\ (x + 1) + i + 1 = Len(s) + 1
      BY <1>0, <2>1
    <3>. QED  BY <1>0, <2>0, <3>1
  <2>2. CASE i # RingCapacity - 1
    <3>1. i + 1 \in 0..RingCapacity - 1 /\ (x + 1) + i + 1 = x + (i + 1) + 1
          /\ x + (i + 1) + 1 \in 1..Len(s) /\ 0 \in 0..RingCapacity - 1 /\ i + 1 # 0
      BY <1>0, <2>2
    <3>2. Place(h, i + 1) # h /\ Place(h, i + 1) \in 0..RingCapacity - 1
      BY <1>0, <2>0, <3>1, PlaceFacts
    <3>3. new[Place(h, i + 1)] = ring[Place(h, i + 1)]
      BY <3>2
    <3>4. /\ ring[Place(h, i + 1)].seq = x + (i + 1) + 1
          /\ ring[Place(h, i + 1)].level = s[x + (i + 1) + 1]
      BY <3>1 DEF Holds
    <3>. QED  BY <1>0, <2>0, <3>1, <3>3, <3>4
  <2>. QED  BY <2>1, <2>2
<1>. QED  BY <1>1 DEF Holds

LEMMA RecordKeepsTail ==
    ASSUME NEW d, NEW s, NEW l \in Levels, KeepsTail(d, s)
    PROVE  KeepsTail(WithRecord(d, l), Append(s, l))
<1>. DEFINE t == Append(s, l)
<1>0. RingCapacity \in Nat \ {0} /\ s \in Seq(Levels) /\ Len(s) \in Nat
  BY DiagAssumption DEF KeepsTail
<1>1. PICK ring \in [0..RingCapacity - 1 -> [seq : Nat, level : Levels \cup {"none"}]],
           h \in 0..RingCapacity - 1, n \in 0..RingCapacity, x \in Nat, f \in Nat :
           /\ ring = d.ring /\ h = d.head /\ n = d.count /\ x = d.dropped /\ f = d.faults
  BY DEF KeepsTail, Logs
<1>2. /\ d.next = Len(s) + 1 /\ n + x = Len(s) /\ Holds(ring, h, n, x, s)
      /\ IsFiniteSet(Errors(s)) /\ f = Cardinality(Errors(s))
  BY <1>1 DEF KeepsTail
<1>n. x + n = Len(s) /\ n \in Nat
  BY <1>0, <1>1, <1>2
<1>3. t \in Seq(Levels) /\ Len(t) = Len(s) + 1
  BY <1>0
<1>4. PICK e : e = [seq |-> Len(s) + 1, level |-> l]
  OBVIOUS
<1>5. e \in [seq : Nat, level : Levels \cup {"none"}] /\ e.seq = Len(s) + 1 /\ e.level = l
  BY <1>0, <1>4
<1>6. LogSlot(d) = Place(h, n) /\ Place(h, n) \in 0..RingCapacity - 1
  <2>1. /\ Place(h, n) \in 0..RingCapacity - 1 /\ Place(h, RingCapacity) = h
    BY <1>0, PlaceFacts
  <2>2. LogSlot(d) = IF n < RingCapacity THEN Place(h, n) ELSE h
    BY <1>1 DEF LogSlot, Place
  <2>. QED  BY <1>0, <2>1, <2>2
<1>7. PICK new : new = [ring EXCEPT ![Place(h, n)] = e]
  OBVIOUS
<1>8. /\ new[Place(h, n)] = e
      /\ \A i \in 0..RingCapacity - 1 : i # Place(h, n) => new[i] = ring[i]
      /\ new \in [0..RingCapacity - 1 -> [seq : Nat, level : Levels \cup {"none"}]]
  BY <1>5, <1>6, <1>7
<1>9. PICK c \in Nat : c = IF l = "error" THEN f + 1 ELSE f
  OBVIOUS
<1>10. IsFiniteSet(Errors(t)) /\ c = Cardinality(Errors(t))
  BY <1>0, <1>2, <1>9, ErrorsAppend
<1>. HIDE DEF t
<1>11. ASSUME NEW hd \in 0..RingCapacity - 1, NEW m \in 0..RingCapacity, NEW y \in Nat,
              WithRecord(d, l) = [ring |-> new, head |-> hd, count |-> m,
                                  next |-> Len(s) + 2, dropped |-> y, faults |-> c],
              m + y = Len(s) + 1, Holds(new, hd, m, y, t)
       PROVE  KeepsTail(WithRecord(d, l), t)
  <2>1. PICK w : w = WithRecord(d, l)
    OBVIOUS
  <2>2. w \in Logs
    BY <1>0, <1>8, <1>11, <2>1 DEF Logs
  <2>3. /\ w.ring = new /\ w.head = hd /\ w.count = m /\ w.next = Len(s) + 2
        /\ w.dropped = y /\ w.faults = c
    BY <1>11, <2>1
  <2>4. KeepsTail(w, t)
    BY <1>0, <1>3, <1>10, <1>11, <2>2, <2>3 DEF KeepsTail
  <2>. QED  BY <2>1, <2>4
<1>12. CASE n # RingCapacity
  <2>1. n \in 0..RingCapacity - 1 /\ n + 1 \in 0..RingCapacity /\ x + n = Len(s)
        /\ (n + 1) + x = Len(s) + 1 /\ (Len(s) + 1) + 1 = Len(s) + 2
    BY <1>0, <1>n, <1>12
  <2>2. Holds(new, h, n + 1, x, t)
    BY <1>0, <1>2, <1>5, <1>8, <2>1, HoldsWithRoom DEF t
  <2>3. WithRecord(d, l) = [ring |-> new, head |-> h, count |-> n + 1,
                            next |-> Len(s) + 2, dropped |-> x, faults |-> c]
    BY <1>1, <1>2, <1>4, <1>6, <1>7, <1>9, <1>12, <2>1 DEF WithRecord
  <2>. QED  BY <1>11, <2>1, <2>2, <2>3 DEF t
<1>13. CASE n = RingCapacity
  <2>a. 1 \in 0..RingCapacity
    BY <1>0
  <2>b. Place(h, 1) \in 0..RingCapacity - 1
    BY <2>a, PlaceFacts
  <2>c. Place(h, RingCapacity) = h
    BY PlaceFacts
  <2>d. x + RingCapacity = Len(s) /\ Place(h, n) = h /\ n \in 0..RingCapacity
    BY <1>n, <1>13, <2>c
  <2>1. x + 1 \in Nat /\ (Len(s) + 1) + 1 = Len(s) + 2 /\ n + (x + 1) = Len(s) + 1
    BY <1>0, <1>n
  <2>2. Holds(new, Place(h, 1), n, x + 1, t)
    BY <1>0, <1>2, <1>5, <1>8, <1>13, <2>d, HoldsWhenFull DEF t
  <2>3. WithRecord(d, l) = [ring |-> new, head |-> Place(h, 1), count |-> n,
                            next |-> Len(s) + 2, dropped |-> x + 1, faults |-> c]
    BY <1>1, <1>2, <1>4, <1>6, <1>7, <1>9, <1>13, <2>1 DEF WithRecord, Place
  <2>. QED  BY <1>11, <2>1, <2>2, <2>3, <2>b, <2>d DEF t
<1>. QED  BY <1>12, <1>13 DEF t

\* What one step logs.
Batch == {levels \in Seq(Levels) : Len(levels) \in 0..3}

\* Concatenating a batch appends its records one by one.
LEMMA ConcatFacts ==
    ASSUME NEW s \in Seq(Levels), NEW t \in Seq(Levels)
    PROVE  /\ Len(t) = 1 => s \o t = Append(s, t[1])
           /\ Len(t) = 2 => s \o t = Append(Append(s, t[1]), t[2])
           /\ Len(t) = 3 => s \o t = Append(Append(Append(s, t[1]), t[2]), t[3])
<1>1. /\ s \o t \in Seq(Levels) /\ Len(s \o t) = Len(s) + Len(t)
      /\ Len(s) \in Nat /\ Len(t) \in Nat
      /\ \A i \in 1..Len(s) : (s \o t)[i] = s[i]
      /\ \A i \in 1..Len(t) : (s \o t)[Len(s) + i] = t[i]
  OBVIOUS
<1>2. ASSUME NEW q \in Seq(Levels), NEW l \in Levels
      PROVE  /\ Append(q, l) \in Seq(Levels) /\ Len(Append(q, l)) = Len(q) + 1
             /\ \A i \in 1..Len(q) : Append(q, l)[i] = q[i]
             /\ Append(q, l)[Len(q) + 1] = l
  OBVIOUS
<1>t. \A i \in 1..Len(t) : t[i] \in Levels
  OBVIOUS
<1>3. CASE Len(t) = 1
  <2>1. t[1] \in Levels
    BY <1>3, <1>t
  <2>2. PICK q : q = Append(s, t[1])
    OBVIOUS
  <2>3. /\ q \in Seq(Levels) /\ Len(q) = Len(s) + 1
        /\ \A i \in 1..Len(s) : q[i] = s[i]
        /\ q[Len(s) + 1] = t[1]
    BY <1>2, <2>1, <2>2
  <2>4. \A i \in 1..Len(q) : q[i] = (s \o t)[i]
    BY <1>1, <1>3, <2>3
  <2>5. q = s \o t
    BY <1>1, <1>3, <2>3, <2>4, SeqEqual
  <2>. QED  BY <1>3, <2>2, <2>5
<1>4. CASE Len(t) = 2
  <2>1. t[1] \in Levels /\ t[2] \in Levels
    BY <1>4, <1>t
  <2>2. PICK q : q = Append(s, t[1])
    OBVIOUS
  <2>3. /\ q \in Seq(Levels) /\ Len(q) = Len(s) + 1
        /\ \A i \in 1..Len(s) : q[i] = s[i]
        /\ q[Len(s) + 1] = t[1]
    BY <1>2, <2>1, <2>2
  <2>4. PICK r : r = Append(q, t[2])
    OBVIOUS
  <2>5. /\ r \in Seq(Levels) /\ Len(r) = Len(q) + 1
        /\ \A i \in 1..Len(q) : r[i] = q[i]
        /\ r[Len(q) + 1] = t[2]
    BY <1>2, <2>1, <2>3, <2>4
  <2>6. \A i \in 1..Len(r) : r[i] = (s \o t)[i]
    BY <1>1, <1>4, <2>3, <2>5
  <2>7. r = s \o t
    BY <1>1, <1>4, <2>3, <2>5, <2>6, SeqEqual
  <2>. QED  BY <1>4, <2>2, <2>4, <2>7
<1>5. CASE Len(t) = 3
  <2>1. t[1] \in Levels /\ t[2] \in Levels /\ t[3] \in Levels
    BY <1>5, <1>t
  <2>2. PICK q : q = Append(s, t[1])
    OBVIOUS
  <2>3. /\ q \in Seq(Levels) /\ Len(q) = Len(s) + 1
        /\ \A i \in 1..Len(s) : q[i] = s[i]
        /\ q[Len(s) + 1] = t[1]
    BY <1>2, <2>1, <2>2
  <2>4. PICK r : r = Append(q, t[2])
    OBVIOUS
  <2>5. /\ r \in Seq(Levels) /\ Len(r) = Len(q) + 1
        /\ \A i \in 1..Len(q) : r[i] = q[i]
        /\ r[Len(q) + 1] = t[2]
    BY <1>2, <2>1, <2>3, <2>4
  <2>6. PICK v : v = Append(r, t[3])
    OBVIOUS
  <2>7. /\ v \in Seq(Levels) /\ Len(v) = Len(r) + 1
        /\ \A i \in 1..Len(r) : v[i] = r[i]
        /\ v[Len(r) + 1] = t[3]
    BY <1>2, <2>1, <2>5, <2>6
  <2>8. \A i \in 1..Len(v) : v[i] = (s \o t)[i]
    BY <1>1, <1>5, <2>3, <2>5, <2>7
  <2>l. Len(v) = Len(s \o t)
    BY <1>1, <1>5, <2>3, <2>5, <2>7
  <2>9. v = s \o t
    BY <1>1, <2>7, <2>8, <2>l, SeqEqual
  <2>. QED  BY <1>5, <2>2, <2>4, <2>6, <2>9
<1>. QED  BY <1>3, <1>4, <1>5

LEMMA RecordsKeepTail ==
    ASSUME NEW d, NEW s, KeepsTail(d, s), NEW levels \in Batch
    PROVE  KeepsTail(WithRecords(d, levels), s \o levels)
<1>. DEFINE n == Len(levels)
            a == levels[1]
            b == levels[2]
            c == levels[3]
<1>0. levels \in Seq(Levels) /\ n \in 0..3 /\ s \in Seq(Levels)
  BY DEF Batch, KeepsTail
<1>1. /\ n >= 1 => a \in Levels
      /\ n >= 2 => b \in Levels
      /\ n >= 3 => c \in Levels
  BY <1>0
<1>2. /\ n = 0 => WithRecords(d, levels) = d
      /\ n = 1 => WithRecords(d, levels) = WithRecord(d, a)
      /\ n = 2 => WithRecords(d, levels) = WithRecord(WithRecord(d, a), b)
      /\ n = 3 => WithRecords(d, levels) = WithRecord(WithRecord(WithRecord(d, a), b), c)
  BY <1>0, WithRecordsFacts
<1>3. CASE n = 0
  <2>1. s \o levels = s
    BY <1>0, <1>3
  <2>. QED  BY <1>2, <1>3, <2>1
<1>4. CASE n = 1
  <2>1. s \o levels = Append(s, a)
    BY <1>0, <1>4, ConcatFacts
  <2>2. KeepsTail(WithRecord(d, a), Append(s, a))
    BY <1>1, <1>4, RecordKeepsTail
  <2>. QED  BY <1>2, <1>4, <2>1, <2>2
<1>5. CASE n = 2
  <2>1. s \o levels = Append(Append(s, a), b)
    BY <1>0, <1>5, ConcatFacts
  <2>2. KeepsTail(WithRecord(d, a), Append(s, a))
    BY <1>1, <1>5, RecordKeepsTail
  <2>3. KeepsTail(WithRecord(WithRecord(d, a), b), Append(Append(s, a), b))
    BY <1>1, <1>5, <2>2, RecordKeepsTail
  <2>. QED  BY <1>2, <1>5, <2>1, <2>3
<1>6. CASE n = 3
  <2>1. s \o levels = Append(Append(Append(s, a), b), c)
    BY <1>0, <1>6, ConcatFacts
  <2>2. KeepsTail(WithRecord(d, a), Append(s, a))
    BY <1>1, <1>6, RecordKeepsTail
  <2>3. KeepsTail(WithRecord(WithRecord(d, a), b), Append(Append(s, a), b))
    BY <1>1, <1>6, <2>2, RecordKeepsTail
  <2>4. KeepsTail(WithRecord(WithRecord(WithRecord(d, a), b), c),
                  Append(Append(Append(s, a), b), c))
    BY <1>1, <1>6, <2>3, RecordKeepsTail
  <2>. QED  BY <1>2, <1>6, <2>1, <2>4
<1>. QED  BY <1>0, <1>3, <1>4, <1>5, <1>6

LEMMA BatchFacts ==
    /\ <<>> \in Batch
    /\ \A a \in Levels : <<a>> \in Batch
    /\ \A a, b \in Levels : <<a, b>> \in Batch
    /\ \A a, b, c \in Levels : <<a, b, c>> \in Batch
    /\ \A a, b \in Levels : <<a>> \o <<>> \in Batch /\ <<a>> \o <<b>> \in Batch
    /\ \A a \in Levels : Append(<<>>, a) \in Batch
    /\ \A a, b \in Levels : Append(<<a>>, b) \in Batch
BY DEF Batch

\* Every step logs a batch, or nothing.
LEMMA StepLogs ==
    ASSUME [Next]_vars
    PROVE  UNCHANGED <<diag, logged>> \/ \E levels \in Batch : Log(levels)
<1>l. "info" \in Levels /\ "warn" \in Levels /\ "error" \in Levels
  BY DEF Levels
<1>m. ASSUME NEW levels \in {<<>>, <<"info">>}, NoBundleMode(levels)
      PROVE  \E all \in Batch : Log(all)
  <2>1. levels \in Batch /\ <<"info">> \o levels \in Batch
    BY <1>l, BatchFacts
  <2>. QED  BY <1>m, <2>1 DEF NoBundleMode
<1>f. ASSUME NEW s, NEW o, NEW h, NEW g \in GuestLogs, Fails(s, o, h, g)
      PROVE  \E levels \in Batch : Log(levels)
  <2>1. Append(g, "error") \in Batch
    BY <1>l, BatchFacts DEF GuestLogs
  <2>. QED  BY <1>f, <2>1 DEF Fails
<1>p. ASSUME NEW r, NEW g \in GuestLogs \cup {<<"info">>}, Passes(r, g)
      PROVE  \E levels \in Batch : Log(levels)
  <2>1. g \in Batch
    BY <1>l, BatchFacts DEF GuestLogs
  <2>. QED  BY <1>p, <2>1 DEF Passes
<1>e. <<>> \in GuestLogs
  BY DEF GuestLogs
<1>1. CASE ProbeCannotRead \/ ProbeStarts \/ ProbeFails
  <2>1. <<"info">> \in Batch /\ <<"error">> \in Batch
    BY <1>l, BatchFacts
  <2>. QED  BY <1>1, <2>1 DEF ProbeCannotRead, ProbeStarts, ProbeFails
<1>2. CASE ProbeGivesUp \/ ProbeConfirms \/ ShellIsUp \/ UNCHANGED vars
  BY <1>2 DEF ProbeGivesUp, ProbeConfirms, ShellIsUp, vars, diagVars
<1>3. ASSUME NEW s, ProbeRejects(s) PROVE UNCHANGED <<diag, logged>>
  BY <1>3 DEF ProbeRejects, diagVars
<1>4. CASE ProbeFindsNoBundle
  BY <1>4, <1>m DEF ProbeFindsNoBundle
<1>5. CASE RuntimeInit
  BY <1>5, <1>e, <1>f, <1>p DEF RuntimeInit
<1>6. CASE RuntimeLoad
  BY <1>6, <1>e, <1>f, <1>p DEF RuntimeLoad
<1>7. CASE RuntimeRefusesPayload
  BY <1>7, <1>e, <1>f DEF RuntimeRefusesPayload
<1>8. CASE RuntimeLookup
  BY <1>8, <1>e, <1>f, <1>p DEF RuntimeLookup
<1>9. CASE GuestCall
  BY <1>9, <1>f, <1>p DEF GuestCall
<1>10. CASE EventAllocationFails
  BY <1>10, <1>e, <1>f DEF EventAllocationFails
<1>11. CASE ProbeReturns
  <2>1. /\ <<"warn", "info">> \in Batch /\ <<"info", "info", "info">> \in Batch
        /\ <<"warn", "info", "error">> \in Batch
    BY <1>l, BatchFacts
  <2>. QED  BY <1>11, <2>1 DEF ProbeReturns
<1>12. CASE SmokeReports
  <2>1. /\ <<IF step = "failed" THEN "error" ELSE "info", "info">> \in Batch
    BY <1>l, BatchFacts
  <2>. QED  BY <1>12, <2>1 DEF SmokeReports
<1>13. CASE SmokeReturns
  <2>1. <<"error", "error">> \in Batch
    BY <1>l, BatchFacts
  <2>. QED  BY <1>13, <1>m, <2>1 DEF SmokeReturns
<1>. QED  BY <1>1, <1>2, <1>3, <1>4, <1>5, <1>6, <1>7, <1>8, <1>9, <1>10, <1>11,
             <1>12, <1>13 DEF Next

\* What wdc_diag_get returns, oldest first, is the tail of everything logged,
\* numbered without a gap, and the metrics count what is missing and how many
\* records, kept or not, were errors, for a log of any capacity.
THEOREM RuntimeLogKeepsTail == Spec => []LogKeepsTail
<1>1. Init => KeepsTail(diag, logged)
  <2>. SUFFICES ASSUME Init PROVE KeepsTail(diag, logged)
    OBVIOUS
  <2>0. RingCapacity \in Nat \ {0} /\ logged = <<>>
    BY DiagAssumption DEF Init, DiagInit
  <2>1. diag = [ring |-> [i \in 0..RingCapacity - 1 |-> NoRecord], head |-> 0,
                count |-> 0, next |-> 1, dropped |-> 0, faults |-> 0]
    BY DEF Init, DiagInit
  <2>2. NoRecord \in [seq : Nat, level : Levels \cup {"none"}]
    BY DEF NoRecord
  <2>3. diag \in Logs
    BY <2>0, <2>1, <2>2 DEF Logs
  <2>4. diag.next = 1 /\ diag.count = 0 /\ diag.dropped = 0 /\ diag.faults = 0
    BY <2>1
  <2>5. logged \in Seq(Levels) /\ Len(logged) = 0
    BY <2>0
  <2>6. Errors(logged) = {}
    BY <2>5 DEF Errors
  <2>7. Holds(diag.ring, diag.head, diag.count, diag.dropped, logged)
    BY <2>4 DEF Holds
  <2>. QED  BY <2>3, <2>4, <2>5, <2>6, <2>7, FS_EmptySet DEF KeepsTail
<1>2. KeepsTail(diag, logged) /\ [Next]_vars => KeepsTail(diag, logged)'
  <2>. SUFFICES ASSUME KeepsTail(diag, logged), [Next]_vars PROVE KeepsTail(diag', logged')
    OBVIOUS
  <2>1. CASE UNCHANGED <<diag, logged>>
    BY <2>1
  <2>2. ASSUME NEW levels \in Batch, Log(levels) PROVE KeepsTail(diag', logged')
    <3>1. diag' = WithRecords(diag, levels) /\ logged' = logged \o levels
      BY <2>2 DEF Log
    <3>. QED  BY <3>1, RecordsKeepTail
  <2>. QED  BY <2>1, <2>2, StepLogs
<1>3. KeepsTail(diag, logged) => LogKeepsTail
  <2>. SUFFICES ASSUME KeepsTail(diag, logged) PROVE LogKeepsTail
    OBVIOUS
  <2>0. RingCapacity \in Nat \ {0} /\ diag \in Logs
    BY DiagAssumption DEF KeepsTail
  <2>1. diag.count + diag.dropped = Len(logged)
    BY DEF KeepsTail
  <2>2. diag.faults = Cardinality({k \in 1..Len(logged) : logged[k] = "error"})
    BY DEF KeepsTail, Errors
  <2>3. ASSUME NEW i \in 0..diag.count - 1
        PROVE  DiagGet(i) = [seq |-> diag.dropped + i + 1, level |-> logged[diag.dropped + i + 1]]
    <3>1. PICK r : r = DiagGet(i)
      OBVIOUS
    <3>2. i \in 0..RingCapacity /\ diag.head \in 0..RingCapacity - 1
      BY <2>0 DEF Logs
    <3>3. Place(diag.head, i) \in 0..RingCapacity - 1
      BY <3>2, PlaceFacts
    <3>4. r \in [seq : Nat, level : Levels \cup {"none"}]
      BY <2>0, <3>1, <3>3 DEF DiagGet, Place, Logs
    <3>5. r.seq = diag.dropped + i + 1 /\ r.level = logged[diag.dropped + i + 1]
      BY <3>1 DEF KeepsTail, Holds, DiagGet, Place
    <3>. QED  BY <3>1, <3>4, <3>5
  <2>. QED  BY <2>1, <2>2, <2>3 DEF LogKeepsTail
<1>. QED  BY <1>1, <1>2, <1>3, PTL DEF Spec

=============================================================================
