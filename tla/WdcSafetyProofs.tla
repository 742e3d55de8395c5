-------------------------- MODULE WdcSafetyProofs --------------------------
(***************************************************************************)
(* Proofs about the safety supervisor, for every profile, every family of  *)
(* capability sets and every clock.                                        *)
(***************************************************************************)
EXTENDS WdcSafety, TLAPS

\* The table of driver levels never disagrees with the pins: what makes both
\* the reported and the actual safety provable.
MirrorIsTrue == mirror = level

IInv == TypeOK /\ MirrorIsTrue /\ StoppedIsSafe

-----------------------------------------------------------------------------

\* Forcing safe outputs (wdc_hal_apply_safe_gpio_defaults) keeps the types and
\* the table true, and puts every output at its safe level if it gets through
\* the whole profile.
LEMMA ForceSafeEffect ==
    ASSUME TypeOK, MirrorIsTrue, NEW done \in Prefixes, ForceSafe(done)
    PROVE  /\ level' \in [Outputs -> Levels \cup {Unset}]
           /\ mirror' = level'
           /\ forced' \in BOOLEAN
           /\ forced' => \A p \in Outputs : level'[p] = SafeLevel[p]
<1>1. /\ level' \in [Outputs -> Levels \cup {Unset}]
      /\ mirror' = level'
  BY SafetyAssumption DEF TypeOK, MirrorIsTrue, ForceSafe, Levels
<1>2. forced' \in BOOLEAN
  BY DEF ForceSafe
<1>3. ASSUME forced', NEW p \in Outputs
      PROVE  level'[p] = SafeLevel[p]
  <2>1. done = Len(PinOrder)
    BY <1>3 DEF ForceSafe
  <2>2. p \in {PinOrder[k] : k \in 1..done}
    <3>1. PICK k \in DOMAIN PinOrder : PinOrder[k] = p
      BY SafetyAssumption DEF Pins, Range
    <3>2. DOMAIN PinOrder = 1..Len(PinOrder)
      BY SafetyAssumption
    <3>. QED  BY <2>1, <3>1, <3>2
  <2>. QED  BY <2>2 DEF ForceSafe
<1>. QED  BY <1>1, <1>2, <1>3

\* What the rate limiter records (enforce_rate_limit) keeps its types.
LEMMA TakeRateType ==
    ASSUME TypeOK, NEW a \in App, NEW i, TakeRate(a, i)
    PROVE  /\ window' \in [CapIndex -> [seen : BOOLEAN, last : 0..MaxTime]]
           /\ granted' \in [CapIndex -> Seq(0..MaxTime)]
<1>1. CASE ~Rated(a, i)
  BY <1>1 DEF TakeRate, TypeOK
<1>2. CASE Rated(a, i)
  <2>1. window' \in [CapIndex -> [seen : BOOLEAN, last : 0..MaxTime]]
    <3>1. [seen |-> TRUE, last |-> now] \in [seen : BOOLEAN, last : 0..MaxTime]
      BY DEF TypeOK
    <3>. QED  BY <1>2, <3>1 DEF TakeRate, TypeOK
  <2>2. granted' \in [CapIndex -> Seq(0..MaxTime)]
    <3>1. \A s \in Seq(0..MaxTime) : Append(s, now) \in Seq(0..MaxTime)
      BY DEF TypeOK
    <3>2. granted' = [granted EXCEPT ![i] = Append(@, now)]
      BY <1>2 DEF TakeRate
    <3>3. granted \in [CapIndex -> Seq(0..MaxTime)]
      BY DEF TypeOK
    <3>. QED  BY <3>1, <3>2, <3>3
  <2>. QED  BY <2>1, <2>2
<1>. QED  BY <1>1, <1>2

-----------------------------------------------------------------------------

\* Before wdc_safety_init nothing is claimed and nothing is configured.
LEMMA InitInv == Init => IInv
<1>. SUFFICES ASSUME Init PROVE IInv
  OBVIOUS
<1>1. /\ MirrorIsTrue
      /\ StoppedIsSafe
  BY DEF Init, MirrorIsTrue, StoppedIsSafe
<1>2. window \in [CapIndex -> [seen : BOOLEAN, last : 0..MaxTime]]
  BY SafetyAssumption DEF Init, NoWindow
<1>3. granted \in [CapIndex -> Seq(0..MaxTime)]
  BY DEF Init, NoGrants
<1>4. /\ level \in [Outputs -> Levels \cup {Unset}]
      /\ mirror \in [Outputs -> Levels \cup {Unset}]
  BY DEF Init
<1>5. forced \in BOOLEAN
  BY DEF Init
<1>6. now \in 0..MaxTime
  BY SafetyAssumption DEF Init
<1>7. TypeOK
  BY <1>2, <1>3, <1>4, <1>5, <1>6 DEF Init, TypeOK, States
<1>. QED  BY <1>1, <1>7 DEF IInv

\* Every call into the supervisor, the authorizer and the GPIO bridge
\* preserves the invariant.
LEMMA StepInv == IInv /\ [Next]_vars => IInv'
<1>. SUFFICES ASSUME IInv, [Next]_vars PROVE IInv'
  OBVIOUS
<1>. USE DEF IInv
<1>1. CASE SafetyInit
  <2>1. PICK done \in Prefixes : ForceSafe(done)
    BY <1>1 DEF SafetyInit
  <2>2. window' \in [CapIndex -> [seen : BOOLEAN, last : 0..MaxTime]]
    BY SafetyAssumption, <1>1 DEF SafetyInit, NoWindow
  <2>3. granted' \in [CapIndex -> Seq(0..MaxTime)]
    BY <1>1 DEF SafetyInit, NoGrants
  <2>. QED  BY <1>1, <2>1, <2>2, <2>3, ForceSafeEffect
            DEF SafetyInit, TypeOK, States, MirrorIsTrue, StoppedIsSafe, OutputsSafe
<1>2. CASE EnterNoBundle
  <2>1. PICK done \in Prefixes :
           /\ ForceSafe(done)
           /\ state' = IF done = Len(PinOrder) THEN "no_bundle" ELSE state
    BY <1>2 DEF EnterNoBundle
  <2>. QED  BY <1>2, <2>1, ForceSafeEffect
            DEF EnterNoBundle, TypeOK, States, MirrorIsTrue, StoppedIsSafe, OutputsSafe
<1>3. CASE StopApp
  <2>1. PICK done \in Prefixes : ForceSafe(done)
    BY <1>3 DEF StopApp
  <2>. QED  BY <1>3, <2>1, ForceSafeEffect
            DEF StopApp, TypeOK, States, MirrorIsTrue, StoppedIsSafe, OutputsSafe
<1>4. ASSUME NEW a \in App, InstallAuthorizer(a)
      PROVE  IInv'
  BY <1>4 DEF InstallAuthorizer, NoGrants, TypeOK, MirrorIsTrue, StoppedIsSafe, OutputsSafe
<1>5. CASE ClearAuthorizer
  <2>1. window' \in [CapIndex -> [seen : BOOLEAN, last : 0..MaxTime]]
    BY SafetyAssumption, <1>5 DEF ClearAuthorizer, NoWindow
  <2>2. granted' \in [CapIndex -> Seq(0..MaxTime)]
    BY <1>5 DEF ClearAuthorizer, NoGrants
  <2>. QED  BY <1>5, <2>1, <2>2
            DEF ClearAuthorizer, TypeOK, MirrorIsTrue, StoppedIsSafe, OutputsSafe
<1>6. CASE MarkRunning
  BY <1>6 DEF MarkRunning, NoGrants, TypeOK, States, MirrorIsTrue, StoppedIsSafe
<1>7. ASSUME NEW p \in Pins, NEW v \in Levels, GpioSet(p, v)
      PROVE  IInv'
  <2>1. auth \in App /\ state = "running"
    BY <1>7 DEF GpioSet, Authorized, SafetyAuthorize, TypeOK
  <2>2. /\ window' \in [CapIndex -> [seen : BOOLEAN, last : 0..MaxTime]]
        /\ granted' \in [CapIndex -> Seq(0..MaxTime)]
    BY <1>7, <2>1, TakeRateType DEF GpioSet
  <2>3. /\ level' \in [Outputs -> Levels \cup {Unset}]
        /\ mirror' = level'
    BY <1>7 DEF GpioSet, SetLevel, SetFails, TypeOK, MirrorIsTrue
  <2>. QED  BY <1>7, <2>1, <2>2, <2>3
            DEF GpioSet, TypeOK, MirrorIsTrue, StoppedIsSafe
<1>8. ASSUME NEW p \in Pins, GpioGet(p)
      PROVE  IInv'
  <2>1. auth \in App
    BY <1>8 DEF GpioGet, Authorized, TypeOK
  <2>2. /\ window' \in [CapIndex -> [seen : BOOLEAN, last : 0..MaxTime]]
        /\ granted' \in [CapIndex -> Seq(0..MaxTime)]
    BY <1>8, <2>1, TakeRateType DEF GpioGet
  <2>. QED  BY <1>8, <2>2
            DEF GpioGet, TypeOK, MirrorIsTrue, StoppedIsSafe, OutputsSafe
<1>9. CASE Tick
  <2>1. now' \in 0..MaxTime
    BY <1>9, SafetyAssumption DEF Tick, TypeOK
  <2>. QED  BY <1>9, <2>1 DEF Tick, TypeOK, MirrorIsTrue, StoppedIsSafe, OutputsSafe
<1>10. CASE UNCHANGED vars
  BY <1>10 DEF vars, TypeOK, MirrorIsTrue, StoppedIsSafe, OutputsSafe
<1>. QED
  BY <1>1, <1>2, <1>3, <1>4, <1>5, <1>6, <1>7, <1>8, <1>9, <1>10 DEF Next

-----------------------------------------------------------------------------

\* The inductive invariant holds in every reachable state.
THEOREM SafetyInv == Spec => []IInv
<1>. QED  BY InitInv, StepInv, PTL DEF Spec

\* Type correctness of the supervisor's state.
THEOREM SafetyTypeOK == Spec => []TypeOK
<1>1. IInv => TypeOK
  BY DEF IInv
<1>. QED  BY <1>1, SafetyInv, PTL

\* Outside app_running, outputs once forced safe stay safe, whatever calls and
\* capability sets follow, for every profile.
THEOREM SafetyStopped == Spec => []StoppedIsSafe
<1>1. IInv => StoppedIsSafe
  BY DEF IInv
<1>. QED  BY <1>1, SafetyInv, PTL

\* physical_outputs_safe is never reported of outputs that are not safe.
THEOREM SafetyReported == Spec => []ReportedSafeIsSafe
<1>1. IInv => ReportedSafeIsSafe
  BY DEF IInv, MirrorIsTrue, ReportedSafeIsSafe, OutputsMatch, OutputsSafe
<1>. QED  BY <1>1, SafetyInv, PTL

\* Only an authorized write of a running application takes an output away from
\* its safe level.
THEOREM SafetyMoves == Spec => OutputsMoveByRight
<1>. DEFINE Moves(p) == level'[p] # level[p] /\ level'[p] # SafeLevel[p]
            Right(p) == /\ state = "running"
                        /\ auth # NoApp
                        /\ \E i \in DOMAIN Caps[auth] :
                              Caps[auth][i].pin = p /\ "write" \in Caps[auth][i].ops
<1>1. ASSUME IInv, [Next]_vars, NEW p \in Outputs, Moves(p)
      PROVE  Right(p)
  <2>1. ASSUME NEW done \in Prefixes, ForceSafe(done) PROVE FALSE
    BY <1>1, <2>1 DEF ForceSafe
  <2>2. PICK q \in Pins, v \in Levels : GpioSet(q, v)
    BY <1>1, <2>1
       DEF Next, vars, SafetyInit, EnterNoBundle, StopApp, InstallAuthorizer,
           ClearAuthorizer, MarkRunning, GpioGet, Tick
  <2>3. q = p
    BY <1>1, <2>2 DEF GpioSet, SetLevel, SetFails, IInv, TypeOK
  <2>. QED  BY <2>2, <2>3 DEF GpioSet, Authorized, SafetyAuthorize,
                               CapsAuthorize, HasCapability
<1>2. IInv /\ [Next]_vars => [\A p \in Outputs : Moves(p) => Right(p)]_vars
  BY <1>1
<1>. QED  BY <1>2, SafetyInv, PTL DEF Spec, OutputsMoveByRight

-----------------------------------------------------------------------------
(***************************************************************************)
(* The rate limiter.  CallsAreSpaced is not inductive: a grant is compared *)
(* with the window, not with the grants before it, and the window of an    *)
(* index may be one that an earlier application has left.                  *)
(***************************************************************************)

\* A window starts in the past, and not before the last grant of the
\* application's capability with its index.
WindowCoversGrants ==
    \A i \in CapIndex :
        /\ window[i].last <= now
        /\ granted[i] # <<>>
             => /\ window[i].seen
                /\ granted[i][Len(granted[i])] <= window[i].last

RateInv == TypeOK /\ WindowCoversGrants /\ CallsAreSpaced

\* The elements of a sequence.
LEMMA SeqMember ==
    ASSUME NEW S, NEW s \in Seq(S), NEW j \in DOMAIN s
    PROVE  s[j] \in S
OBVIOUS

\* The last element of a sequence, and the elements of its extension.
LEMMA SeqElements ==
    ASSUME NEW S, NEW s \in Seq(S), NEW e \in S
    PROVE  /\ s # <<>> => Len(s) > 0 /\ s[Len(s)] \in S
           /\ Len(s) \in Nat
           /\ Len(Append(s, e)) = Len(s) + 1
           /\ Append(s, e)[Len(s) + 1] = e
           /\ \A j \in 1..Len(s) : Append(s, e)[j] = s[j]
OBVIOUS

\* Integer division loses less than one divisor.
LEMMA DivBound ==
    ASSUME NEW s \in Nat, NEW h \in Nat \ {0}
    PROVE  s \div h \in Nat /\ s < (s \div h + 1) * h
OBVIOUS

\* Multiplying keeps the order.
LEMMA MulMono ==
    ASSUME NEW d \in Nat, NEW q \in Nat, d >= q, NEW h \in Nat
    PROVE  (d + 1) * h >= (q + 1) * h
OBVIOUS

\* Two ticks that are min_interval_ms apart (enforce_rate_limit) differ, and
\* are early by less than a tick of the period.
LEMMA IntervalBound ==
    ASSUME NEW hz \in Nat \ {0}, NEW d \in Nat, d >= Interval(hz)
    PROVE  d > 0 /\ (d + 1) * hz > Second
<1>1. /\ Second \div hz \in Nat
      /\ Second < (Second \div hz + 1) * hz
  BY SafetyAssumption, DivBound
<1>2. d > 0 /\ d >= Second \div hz
  BY <1>1 DEF Interval
<1>3. (d + 1) * hz >= (Second \div hz + 1) * hz
  BY <1>1, <1>2, MulMono
<1>. DEFINE p == (Second \div hz + 1) * hz
            q == (d + 1) * hz
<1>4. p \in Int /\ q \in Int /\ Second \in Int
  BY <1>1, SafetyAssumption
<1>5. q >= p /\ Second < p
  BY <1>1, <1>3
<1>6. q > Second
  <2>. HIDE DEF p, q
  <2>. QED  BY <1>4, <1>5
<1>. QED  BY <1>2, <1>6

\* A step that leaves the windows, the grants and the authorizer alone while the
\* clock does not run backwards keeps them in agreement.
LEMMA RateIdle ==
    ASSUME RateInv, TypeOK', UNCHANGED <<window, granted, auth>>, now' >= now
    PROVE  WindowCoversGrants' /\ CallsAreSpaced'
<1>1. \A i \in CapIndex : window[i].last \in Int
  BY DEF RateInv, TypeOK
<1>2. now \in Int /\ now' \in Int
  BY DEF RateInv, TypeOK
<1>3. \A i \in CapIndex : window[i].last <= now'
  BY <1>1, <1>2 DEF RateInv, WindowCoversGrants
<1>. QED  BY <1>3 DEF RateInv, WindowCoversGrants, CallsAreSpaced

\* Where nothing has been granted yet, at the start of an application or after
\* the authorizer is cleared, it is enough that no window starts in the future.
LEMMA RateReset ==
    ASSUME TypeOK', granted' = NoGrants,
           \A i \in CapIndex : window'[i].last <= now'
    PROVE  WindowCoversGrants' /\ CallsAreSpaced'
<1>1. \A i \in CapIndex : granted'[i] = <<>>
  BY DEF NoGrants
<1>2. CallsAreSpaced'
  <2>1. 1..Len(<<>>) - 1 = {}
    OBVIOUS
  <2>2. auth' # NoApp => DOMAIN Caps[auth'] \subseteq CapIndex
    BY DEF CapIndex, TypeOK
  <2>. QED  BY <1>1, <2>1, <2>2 DEF CallsAreSpaced
<1>. QED  BY <1>1, <1>2 DEF WindowCoversGrants

\* A call that enforce_rate_limit lets through keeps its capability's grants
\* spaced, and moves the window past them.
LEMMA RateTaken ==
    ASSUME RateInv, TypeOK', auth \in App, NEW i, RateAllows(auth, i),
           TakeRate(auth, i), UNCHANGED <<auth, now>>
    PROVE  WindowCoversGrants' /\ CallsAreSpaced'
<1>1. CASE ~Rated(auth, i)
  BY <1>1, RateIdle DEF TakeRate, RateInv, TypeOK
<1>2. CASE Rated(auth, i)
  <2>1. /\ window' = [window EXCEPT ![i] = [seen |-> TRUE, last |-> now]]
        /\ granted' = [granted EXCEPT ![i] = Append(@, now)]
    BY <1>2 DEF TakeRate
  <2>2. /\ now \in Nat
        /\ \A j \in CapIndex : window[j].last \in Nat /\ window[j].last <= now
    BY DEF RateInv, TypeOK, WindowCoversGrants
  <2>3. ASSUME NEW j \in CapIndex, j # i
        PROVE  granted'[j] = granted[j] /\ window'[j] = window[j]
    BY <2>1, <2>3 DEF RateInv, TypeOK
  <2>4. ASSUME i \in CapIndex
        PROVE  /\ granted'[i] = Append(granted[i], now)
               /\ window'[i] = [seen |-> TRUE, last |-> now]
    BY <2>1, <2>4 DEF RateInv, TypeOK
  <2>5. ASSUME NEW j \in CapIndex
        PROVE  granted[j] \in Seq(0..MaxTime)
    BY <2>5 DEF RateInv, TypeOK
  <2>6. WindowCoversGrants'
    <3>. SUFFICES ASSUME NEW j \in CapIndex
                  PROVE  /\ window'[j].last <= now'
                         /\ granted'[j] # <<>>
                              => /\ window'[j].seen
                                 /\ granted'[j][Len(granted'[j])] <= window'[j].last
      BY DEF WindowCoversGrants
    <3>1. CASE j # i
      BY <2>3, <3>1 DEF RateInv, WindowCoversGrants
    <3>2. CASE j = i
      <4>1. granted'[j] = Append(granted[j], now)
        BY <2>4, <3>2
      <4>2. granted'[j][Len(granted'[j])] = now
        BY <4>1, <2>5
      <4>. QED  BY <2>2, <2>4, <3>2, <4>2
    <3>. QED  BY <3>1, <3>2
  <2>7. ASSUME NEW j \in DOMAIN Caps[auth], NEW k \in 1..Len(granted'[j]) - 1
        PROVE  /\ granted'[j][k + 1] > granted'[j][k]
               /\ (granted'[j][k + 1] - granted'[j][k] + 1) * Caps[auth][j].hz > Second
    <3>1. j \in CapIndex /\ auth # NoApp
      BY <2>7, SafetyAssumption DEF CapIndex
    <3>2. CASE j # i
      BY <2>3, <2>7, <3>1, <3>2 DEF RateInv, CallsAreSpaced
    <3>3. CASE j = i
      <4>. DEFINE g == granted[j]
      <4>1. granted'[j] = Append(g, now) /\ g \in Seq(0..MaxTime)
        BY <2>4, <2>5, <3>1, <3>3
      <4>2. CASE k < Len(g)
        <5>1. /\ k \in 1..Len(g) - 1
              /\ Append(g, now)[k] = g[k]
              /\ Append(g, now)[k + 1] = g[k + 1]
          BY <2>7, <4>1, <4>2
        <5>2. /\ g[k + 1] > g[k]
              /\ (g[k + 1] - g[k] + 1) * Caps[auth][j].hz > Second
          BY <3>1, <5>1 DEF RateInv, CallsAreSpaced
        <5>. HIDE DEF g
        <5>. QED  BY <4>1, <5>1, <5>2
      <4>3. CASE k >= Len(g)
        <5>1. /\ k = Len(g) /\ g # <<>>
              /\ Append(g, now)[k] = g[Len(g)]
              /\ Append(g, now)[k + 1] = now
              /\ g[Len(g)] \in 0..MaxTime
          <6>1. now \in 0..MaxTime
            BY DEF RateInv, TypeOK
          <6>2. /\ Len(g) \in Nat
                /\ Len(Append(g, now)) = Len(g) + 1
                /\ Append(g, now)[Len(g) + 1] = now
                /\ \A l \in 1..Len(g) : Append(g, now)[l] = g[l]
                /\ g # <<>> => g[Len(g)] \in 0..MaxTime
            <7>1. g \in Seq(0..MaxTime)
              BY <4>1
            <7>. DEFINE Times == 0..MaxTime
            <7>2. g \in Seq(Times) /\ now \in Times
              BY <6>1, <7>1
            <7>. HIDE DEF g, Times
            <7>3. /\ Len(g) \in Nat
                  /\ Len(Append(g, now)) = Len(g) + 1
                  /\ Append(g, now)[Len(g) + 1] = now
                  /\ \A l \in 1..Len(g) : Append(g, now)[l] = g[l]
                  /\ g # <<>> => g[Len(g)] \in Times
              BY <7>2, SeqElements
            <7>. QED  BY <7>3 DEF Times
          <6>3. k = Len(g)
            BY <2>7, <4>1, <4>3, <6>2
          <6>4. g # <<>>
            BY <2>7, <6>3
          <6>. QED  BY <2>7, <6>2, <6>3, <6>4
        <5>2. window[j].seen /\ g[Len(g)] <= window[j].last
          BY <3>1, <5>1 DEF RateInv, WindowCoversGrants
        <5>3. now >= window[j].last + Interval(Caps[auth][j].hz)
          BY <1>2, <3>3, <5>2 DEF RateAllows
        <5>4. Caps[auth][j].hz \in Nat \ {0}
          <6>1. Caps[auth] \in Seq([pin : Pins, ops : SUBSET Ops, hz : Nat])
            BY SafetyAssumption
          <6>2. Caps[auth][j] \in [pin : Pins, ops : SUBSET Ops, hz : Nat]
            BY <2>7, <6>1, SeqMember
          <6>. QED  BY <1>2, <3>3, <6>2 DEF Rated
        <5>5. Interval(Caps[auth][j].hz) \in Nat
          BY <5>4, DivBound, SafetyAssumption DEF Interval
        <5>. DEFINE d == now - g[Len(g)]
        <5>6. d \in Nat /\ d >= Interval(Caps[auth][j].hz)
          BY <2>2, <3>1, <5>1, <5>2, <5>3, <5>5
        <5>7. d > 0 /\ (d + 1) * Caps[auth][j].hz > Second
          <6>. HIDE DEF d
          <6>. QED  BY <5>4, <5>6, IntervalBound
        <5>. QED  BY <2>2, <4>1, <5>1, <5>7
      <4>. QED  BY <2>7, <4>1, <4>2, <4>3
    <3>. QED  BY <3>2, <3>3
  <2>. QED  BY <2>6, <2>7 DEF CallsAreSpaced
<1>. QED  BY <1>1, <1>2

\* Every step keeps the windows ahead of the grants and the grants spaced.
LEMMA RateStep == RateInv /\ IInv' /\ [Next]_vars => RateInv'
<1>. SUFFICES ASSUME RateInv, IInv', [Next]_vars PROVE RateInv'
  OBVIOUS
<1>1. TypeOK' /\ now \in Int
  BY DEF IInv, RateInv, TypeOK
<1>2. CASE SafetyInit \/ ClearAuthorizer
  <2>1. granted' = NoGrants /\ window' = NoWindow
    BY <1>2 DEF SafetyInit, ClearAuthorizer
  <2>2. \A i \in CapIndex : window'[i].last <= now'
    BY <1>1, <2>1 DEF NoWindow, TypeOK
  <2>. QED  BY <1>1, <2>1, <2>2, RateReset DEF RateInv
<1>3. CASE MarkRunning \/ \E a \in App : InstallAuthorizer(a)
  <2>1. granted' = NoGrants /\ UNCHANGED <<window, now>>
    BY <1>3 DEF MarkRunning, InstallAuthorizer
  <2>2. \A i \in CapIndex : window'[i].last <= now'
    BY <2>1 DEF RateInv, WindowCoversGrants
  <2>. QED  BY <1>1, <2>1, <2>2, RateReset DEF RateInv
<1>4. CASE EnterNoBundle \/ StopApp
  <2>1. UNCHANGED <<window, granted, auth>> /\ now' = now
    BY <1>4 DEF EnterNoBundle, StopApp
  <2>. QED  BY <1>1, <2>1, RateIdle DEF RateInv
<1>5. ASSUME NEW p \in Pins, NEW v \in Levels, GpioSet(p, v)
      PROVE  RateInv'
  <2>1. /\ auth \in App /\ UNCHANGED <<auth, now>>
        /\ RateAllows(auth, CapFor(auth, "write", p))
        /\ TakeRate(auth, CapFor(auth, "write", p))
    BY <1>5 DEF GpioSet, Authorized, SafetyAuthorize, CapsAuthorize, RateInv, TypeOK
  <2>. QED  BY <1>1, <2>1, RateTaken DEF RateInv
<1>6. ASSUME NEW p \in Pins, GpioGet(p)
      PROVE  RateInv'
  <2>1. /\ auth \in App /\ UNCHANGED <<auth, now>>
        /\ RateAllows(auth, CapFor(auth, "read", p))
        /\ TakeRate(auth, CapFor(auth, "read", p))
    BY <1>6 DEF GpioGet, Authorized, SafetyAuthorize, CapsAuthorize, RateInv, TypeOK
  <2>. QED  BY <1>1, <2>1, RateTaken DEF RateInv
<1>7. CASE Tick
  BY <1>1, <1>7, RateIdle DEF Tick, RateInv
<1>8. CASE UNCHANGED vars
  BY <1>1, <1>8, RateIdle DEF vars, RateInv
<1>. QED  BY <1>2, <1>3, <1>4, <1>5, <1>6, <1>7, <1>8 DEF Next

\* However reads, writes and stops of one application are mixed, and whatever
\* windows it finds, one capability never lets two calls through closer than
\* its period, up to the clock's resolution: for every set of capabilities and
\* every clock.
THEOREM SafetySpaced == Spec => []CallsAreSpaced
<1>1. Init => RateInv
  <2>. SUFFICES ASSUME Init PROVE RateInv
    OBVIOUS
  <2>1. TypeOK
    BY InitInv DEF IInv
  <2>2. WindowCoversGrants
    BY DEF Init, NoGrants, NoWindow, WindowCoversGrants
  <2>3. CallsAreSpaced
    BY DEF Init, CallsAreSpaced
  <2>. QED  BY <2>1, <2>2, <2>3 DEF RateInv
<1>2. RateInv => CallsAreSpaced
  BY DEF RateInv
<1>. QED  BY <1>1, <1>2, RateStep, SafetyInv, PTL DEF Spec

=============================================================================
