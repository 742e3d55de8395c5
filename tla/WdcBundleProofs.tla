-------------------------- MODULE WdcBundleProofs --------------------------
(***************************************************************************)
(* Proofs about a bundle on its way to the runtime (WdcBundle), for words  *)
(* of any width, any header, manifest, policy and profile.                 *)
(***************************************************************************)
EXTENDS WdcBundle, FiniteSetTheorems, WellFoundedInduction, TLAPS

-----------------------------------------------------------------------------
(***************************************************************************)
(* The first of the checks that fail                                       *)
(***************************************************************************)

\* A non-empty set of naturals has a smallest element, and Min finds it.
LEMMA MinIsMember ==
    ASSUME NEW S \in SUBSET Nat, S # {}
    PROVE  Min(S) \in S /\ \A y \in S : Min(S) <= y
<1>. DEFINE R == OpToRel(<, Nat)
<1>1. IsWellFoundedOn(R, Nat)
  BY NatLessThanWellFounded
<1>2. \A x, y \in Nat : <<y, x>> \in R <=> y < x
  BY DEF OpToRel
<1>. HIDE DEF R
<1>3. PICK x \in S : \A y \in S : ~(<<y, x>> \in R)
  BY <1>1, WFMin
<1>4. ASSUME NEW y \in S PROVE x <= y
  <2>1. x \in Nat /\ y \in Nat /\ ~(y < x)
    BY <1>2, <1>3
  <2>. QED  BY <2>1
<1>5. \E z \in S : \A y \in S : z <= y
  BY <1>4
<1>. QED  BY <1>5 DEF Min

\* A sequence of checks whose errors are errors passes exactly if each check
\* does, and fails with the error of one that does not.
LEMMA FirstErrorFacts ==
    ASSUME NEW checks, DOMAIN checks \subseteq Nat,
           \A i \in DOMAIN checks : ~checks[i].ok => checks[i].err # "OK"
    PROVE  /\ FirstError(checks) = "OK" <=> \A i \in DOMAIN checks : checks[i].ok
           /\ FirstError(checks) # "OK"
                => \E i \in DOMAIN checks : /\ ~checks[i].ok
                                            /\ FirstError(checks) = checks[i].err
                                            /\ \A j \in DOMAIN checks :
                                                  j < i => checks[j].ok
<1>. DEFINE failing == {i \in DOMAIN checks : ~checks[i].ok}
<1>1. CASE failing = {}
  BY <1>1 DEF FirstError
<1>2. CASE failing # {}
  <2>1. failing \in SUBSET Nat
    OBVIOUS
  <2>2. /\ Min(failing) \in failing
        /\ \A j \in failing : Min(failing) <= j
    <3>. HIDE DEF failing
    <3>. QED  BY <1>2, <2>1, MinIsMember
  <2>3. FirstError(checks) = checks[Min(failing)].err
    BY <1>2 DEF FirstError
  <2>4. PICK m : m = Min(failing)
    OBVIOUS
  <2>5. /\ m \in DOMAIN checks /\ ~checks[m].ok
        /\ FirstError(checks) = checks[m].err
    BY <2>2, <2>3, <2>4
  <2>6. ASSUME NEW j \in DOMAIN checks, j < m PROVE checks[j].ok
    <3>1. j \in failing => m <= j
      BY <2>2, <2>4
    <3>2. j \in Nat /\ m \in Nat
      BY <2>5
    <3>. QED  BY <2>6, <3>1, <3>2
  <2>. QED  BY <2>5, <2>6
<1>. QED  BY <1>1, <1>2

-----------------------------------------------------------------------------
(***************************************************************************)
(* What a check sequence that returns OK has checked.                      *)
(***************************************************************************)

\* A sum that is not below what it was made from has not wrapped.
LEMMA PlusExact ==
    ASSUME NEW a \in Words, NEW b \in Words
    PROVE  /\ Plus(a, b) \in Words
           /\ a <= Plus(a, b) => Plus(a, b) = a + b
<1>1. Word \in Nat \ {0}
  BY CapsAssumption DEF Words
<1>2. CASE a + b < Word
  <2>1. (a + b) % Word = a + b
    BY <1>1, <1>2 DEF Words
  <2>. QED  BY <1>1, <1>2, <2>1 DEF Plus, Words
<1>3. CASE a + b >= Word
  <2>1. a + b - Word \in 0..Word - 1
    BY <1>1, <1>3 DEF Words
  <2>2. (a + b) % Word = a + b - Word
    BY <1>1, <2>1 DEF Words
  <2>. QED  BY <1>1, <1>3, <2>1, <2>2 DEF Plus, Words
<1>. QED  BY <1>1, <1>2, <1>3 DEF Words

\* wdc_bundle_parse_header returns OK only if no offset has wrapped and there
\* is a payload.
LEMMA ParseHeaderFacts ==
    ASSUME NEW h, NEW len, ParseHeader(h, len) = "OK"
    PROVE  NoWrap(Offsets(h)) /\ h.payload_len # 0
<1>. DEFINE s == <<
        Check(len >= HeaderLen, "BAD_LENGTH"),
        Check(h.magic, "BAD_ENCODING"),
        Check(h.version, "UNSUPPORTED_ABI"),
        Check(h.manifest_len # 0 /\ h.payload_len # 0, "BAD_LENGTH"),
        Check(h.alg = "unknown" \/ h.signature_len = SigLen[h.alg], "BAD_LENGTH"),
        Check(NoWrap(Offsets(h)), "BAD_LENGTH"),
        Check(len = HeaderLen \/ Offsets(h).total <= len, "BAD_LENGTH")>>
<1>1. DOMAIN s = {1, 2, 3, 4, 5, 6, 7}
  OBVIOUS
<1>2. \A i \in DOMAIN s : s[i].err # "OK"
  BY <1>1 DEF Check
<1>3. /\ s[6].ok = NoWrap(Offsets(h))
      /\ s[4].ok = (h.manifest_len # 0 /\ h.payload_len # 0)
  BY DEF Check
<1>4. FirstError(s) = "OK"
  BY DEF ParseHeader
<1>. HIDE DEF s
<1>5. DOMAIN s \subseteq Nat
  BY <1>1
<1>6. \A i \in DOMAIN s : s[i].ok
  BY <1>2, <1>4, <1>5, FirstErrorFacts
<1>. QED  BY <1>1, <1>3, <1>6

\* The lengths of a header are words.
WordLengths(h) == {h.manifest_len, h.payload_len, h.signature_len} \subseteq Words

\* ... and then the offsets are what they would be in whole numbers.
LEMMA OffsetsExact ==
    ASSUME NEW h, WordLengths(h), NEW len, ParseHeader(h, len) = "OK"
    PROVE  LET o == Offsets(h)
           IN  /\ o.manifest = HeaderLen
               /\ o.payload = HeaderLen + h.manifest_len
               /\ o.signature = o.payload + h.payload_len
               /\ o.total = o.signature + h.signature_len
               /\ o.payload \in Words /\ o.signature \in Words /\ o.total \in Words
<1>. DEFINE p == Plus(HeaderLen, h.manifest_len)
            s == Plus(p, h.payload_len)
            t == Plus(s, h.signature_len)
<1>1. /\ HeaderLen \in Words /\ h.manifest_len \in Words
      /\ h.payload_len \in Words /\ h.signature_len \in Words
  BY BundleAssumption, CapsAssumption DEF WordLengths, Words
<1>2. Offsets(h) = [manifest |-> HeaderLen, payload |-> p, signature |-> s, total |-> t]
  BY DEF Offsets
<1>. HIDE DEF p, s, t
<1>3. HeaderLen <= p /\ p <= s /\ s <= t
  BY <1>2, ParseHeaderFacts DEF NoWrap
<1>4. p \in Words /\ p = HeaderLen + h.manifest_len
  BY <1>1, <1>3, PlusExact DEF p
<1>5. s \in Words /\ s = p + h.payload_len
  BY <1>1, <1>3, <1>4, PlusExact DEF s
<1>6. t \in Words /\ t = s + h.signature_len
  BY <1>1, <1>3, <1>5, PlusExact DEF t
<1>. QED  BY <1>2, <1>4, <1>5, <1>6

\* wdc_bundle_verify returns OK only after each of its checks; those the
\* theorems below need.
LEMMA VerifyFacts ==
    ASSUME NEW i, NEW len, NEW p, VerifyStatus(i, len, p) = "OK"
    PROVE  LET h == i.header
               m == i.manifest
           IN  /\ ParseHeader(h, len) = "OK"
               /\ Offsets(h).total = len
               /\ m.alg = h.alg /\ Matches(p.alg, m.alg) /\ Matches(p.key, m.key)
               /\ SignatureOk(h, m, p)
               /\ LimitsOk(m, p)
               /\ AntiRollbackOk(m, p)
               /\ CapsStatus(m.capabilities) = "OK"
               /\ HasRequiredExports(i.wasm)
<1>. DEFINE h == i.header
            m == i.manifest
            s == <<
            Check(ParseHeader(h, len) = "OK", ParseHeader(h, len)),
            Check(Offsets(h).total = len, "BAD_LENGTH"),
            Check(h.payload_len <= MaxPayload(p), "BAD_LENGTH"),
            Check(i.manifest_hash, "CONTRACT_VIOLATION"),
            Check(i.payload_hash, "CONTRACT_VIOLATION"),
            Check(ManifestStatus(m) = "OK", ManifestStatus(m)),
            Check(m.sha256 /\ m.size_bytes = h.payload_len, "CONTRACT_VIOLATION"),
            Check(m.alg = h.alg, "CONTRACT_VIOLATION"),
            Check(Matches(p.alg, m.alg), "CONTRACT_VIOLATION"),
            Check(Matches(p.key, m.key), "CONTRACT_VIOLATION"),
            Check(SignatureOk(h, m, p), "CONTRACT_VIOLATION"),
            Check(AbiOk(m.abi), "UNSUPPORTED_ABI"),
            Check(TargetOk(m.target), "INVALID_RESOURCE"),
            Check(LimitsOk(m, p), "BAD_LENGTH"),
            Check(AntiRollbackOk(m, p), "CONTRACT_VIOLATION"),
            Check(CapsStatus(m.capabilities) = "OK", CapsStatus(m.capabilities)),
            Check(HasRequiredExports(i.wasm), "NOT_AVAILABLE")>>
<1>1. DOMAIN s = 1..17
  OBVIOUS
<1>2. /\ s[1] = Check(ParseHeader(h, len) = "OK", ParseHeader(h, len))
      /\ s[2] = Check(Offsets(h).total = len, "BAD_LENGTH")
      /\ s[3] = Check(h.payload_len <= MaxPayload(p), "BAD_LENGTH")
      /\ s[4] = Check(i.manifest_hash, "CONTRACT_VIOLATION")
      /\ s[5] = Check(i.payload_hash, "CONTRACT_VIOLATION")
      /\ s[6] = Check(ManifestStatus(m) = "OK", ManifestStatus(m))
      /\ s[7] = Check(m.sha256 /\ m.size_bytes = h.payload_len, "CONTRACT_VIOLATION")
      /\ s[8] = Check(m.alg = h.alg, "CONTRACT_VIOLATION")
      /\ s[9] = Check(Matches(p.alg, m.alg), "CONTRACT_VIOLATION")
      /\ s[10] = Check(Matches(p.key, m.key), "CONTRACT_VIOLATION")
      /\ s[11] = Check(SignatureOk(h, m, p), "CONTRACT_VIOLATION")
      /\ s[12] = Check(AbiOk(m.abi), "UNSUPPORTED_ABI")
      /\ s[13] = Check(TargetOk(m.target), "INVALID_RESOURCE")
      /\ s[14] = Check(LimitsOk(m, p), "BAD_LENGTH")
      /\ s[15] = Check(AntiRollbackOk(m, p), "CONTRACT_VIOLATION")
      /\ s[16] = Check(CapsStatus(m.capabilities) = "OK", CapsStatus(m.capabilities))
      /\ s[17] = Check(HasRequiredExports(i.wasm), "NOT_AVAILABLE")
  OBVIOUS
<1>3. FirstError(s) = "OK"
  BY DEF VerifyStatus
<1>. HIDE DEF s
<1>e. /\ s[1].err = ParseHeader(h, len) /\ s[6].err = ManifestStatus(m)
      /\ s[16].err = CapsStatus(m.capabilities)
      /\ s[1].ok = (ParseHeader(h, len) = "OK") /\ s[6].ok = (ManifestStatus(m) = "OK")
      /\ s[16].ok = (CapsStatus(m.capabilities) = "OK")
  BY <1>2 DEF Check
<1>f. \A k \in {2, 3, 4, 5, 7, 8, 9, 10, 11, 12, 13, 14, 15, 17} : s[k].err # "OK"
  BY <1>2 DEF Check
<1>4. \A k \in DOMAIN s : ~s[k].ok => s[k].err # "OK"
  <2>1. \A k \in {1, 6, 16} : ~s[k].ok => s[k].err # "OK"
    BY <1>e
  <2>. QED  BY <1>1, <1>f, <2>1
<1>5. DOMAIN s \subseteq Nat
  BY <1>1
<1>6. \A k \in DOMAIN s : s[k].ok
  BY <1>3, <1>4, <1>5, FirstErrorFacts
<1>7. s[1].ok /\ s[2].ok /\ s[3].ok /\ s[8].ok /\ s[9].ok /\ s[10].ok
  BY <1>1, <1>6
<1>8. s[11].ok /\ s[14].ok /\ s[15].ok /\ s[16].ok /\ s[17].ok
  BY <1>1, <1>6
<1>9. ParseHeader(h, len) = "OK" /\ CapsStatus(m.capabilities) = "OK"
  BY <1>e, <1>7, <1>8
<1>10. Offsets(h).total = len /\ m.alg = h.alg
  <2>1. s[2].ok = (Offsets(h).total = len)
    BY <1>2 DEF Check
  <2>2. s[8].ok = (m.alg = h.alg)
    BY <1>2 DEF Check
  <2>. QED  BY <1>7, <2>1, <2>2, Zenon
<1>11. Matches(p.alg, m.alg) /\ Matches(p.key, m.key)
  BY <1>2, <1>7 DEF Check
<1>12. SignatureOk(h, m, p) /\ LimitsOk(m, p)
  BY <1>2, <1>8 DEF Check
<1>13. AntiRollbackOk(m, p) /\ HasRequiredExports(i.wasm)
  BY <1>2, <1>8 DEF Check
<1>. QED  BY <1>9, <1>10, <1>11, <1>12, <1>13, Zenon


\* An entry as a manifest writes it.
Entry == [kind : STRING, resource : STRING, ops : SUBSET STRING,
          payload : Int, rate : Int]

\* wdc_profile_find_resource_by_name finds a resource of that kind and name.
LEMMA ResourceFacts ==
    ASSUME NEW kind, NEW name, ResourceId(kind, name) # 0
    PROVE  \E r \in Range(Profile) :
              r.kind = kind /\ r.name = name /\ r.id = ResourceId(kind, name)
<1>. DEFINE match == {i \in DOMAIN Profile :
                         Profile[i].kind = kind /\ Profile[i].name = name}
<1>1. DOMAIN Profile \subseteq Nat
  BY CapsAssumption
<1>2. match \in SUBSET Nat /\ match # {}
  BY <1>1 DEF ResourceId
<1>3. Min(match) \in match
  <2>. HIDE DEF match
  <2>. QED  BY <1>2, MinIsMember
<1>4. ResourceId(kind, name) = Profile[Min(match)].id
  BY <1>2 DEF ResourceId
<1>. QED  BY <1>3, <1>4 DEF Range

\* wdc_caps_parse_manifest_json returns OK only if every entry has an operation
\* the host knows and, where it must, a resource of the profile.
LEMMA CapsFacts ==
    ASSUME NEW entries \in Seq(Entry), CapsStatus(entries) = "OK",
           NEW k \in DOMAIN entries
    PROVE  /\ Ops(entries[k]) # {}
           /\ \/ entries[k].kind \in Unbound
              \/ ResourceId(entries[k].kind, entries[k].resource) # 0
<1>. DEFINE f == [i \in DOMAIN entries |->
                    Check(EntryStatus(entries, i) = "OK", EntryStatus(entries, i))]
            last == Check(entries # <<>>, "BAD_ENCODING")
            s == f \o <<last>>
            n == Len(entries)
            e == entries[k]
<1>1. n \in Nat /\ DOMAIN entries = 1..n
  OBVIOUS
<1>. DEFINE T == [ok : BOOLEAN,
                  err : {EntryStatus(entries, i) : i \in 1..n} \cup {"BAD_ENCODING"}]
<1>2. /\ f \in Seq(T)
      /\ Len(f) = n /\ \A i \in 1..n : /\ f[i].ok = (EntryStatus(entries, i) = "OK")
                                       /\ f[i].err = EntryStatus(entries, i)
  BY <1>1 DEF Check
<1>3. last.err = "BAD_ENCODING" /\ last \in T
  BY DEF Check
<1>4. FirstError(s) = "OK"
  BY DEF CapsStatus
<1>. HIDE DEF f, last, T
<1>5. /\ DOMAIN s = 1..n + 1 /\ \A i \in 1..n : s[i] = f[i]
      /\ s[n + 1] = last
  <2>2. <<last>> \in Seq(T) /\ Len(<<last>>) = 1 /\ <<last>>[1] = last
    BY <1>3
  <2>3. s \in Seq(T) /\ Len(s) = n + 1
    BY <1>1, <1>2, <2>2
  <2>. QED  BY <1>1, <1>2, <2>2, <2>3
<1>. HIDE DEF s
<1>6. ASSUME NEW i \in DOMAIN s, ~s[i].ok PROVE s[i].err # "OK"
  <2>1. CASE i \in 1..n
    BY <1>2, <1>5, <1>6, <2>1
  <2>2. CASE i = n + 1
    BY <1>3, <1>5, <2>2
  <2>. QED  BY <1>1, <1>5, <2>1, <2>2
<1>7. DOMAIN s \subseteq Nat
  BY <1>1, <1>5
<1>8. s[k].ok
  <2>1. \A i \in DOMAIN s : s[i].ok
    BY <1>4, <1>6, <1>7, FirstErrorFacts
  <2>. QED  BY <1>1, <1>5, <2>1
<1>9. EntryStatus(entries, k) = "OK"
  BY <1>1, <1>2, <1>5, <1>8
<1>. DEFINE c == <<
            Check(k <= MaxCaps, "NO_MEMORY"),
            Check(e.kind \in Kinds, "BAD_ENCODING"),
            Check(Ops(e) # {}, "BAD_ENCODING"),
            Check(ArenaUsed(SubSeq(entries, 1, k)) <= ArenaBytes, "NO_MEMORY"),
            Check(e.kind \in Unbound \/ ResourceId(e.kind, e.resource) # 0,
                  "INVALID_RESOURCE")>>
<1>. HIDE DEF e
<1>10. DOMAIN c = {1, 2, 3, 4, 5}
  OBVIOUS
<1>11. \A i \in DOMAIN c : c[i].err # "OK"
  BY <1>10 DEF Check
<1>12. FirstError(c) = "OK"
  BY <1>9, Zenon DEF EntryStatus, e
<1>13. /\ c[3].ok = (Ops(e) # {})
       /\ c[5].ok = (e.kind \in Unbound \/ ResourceId(e.kind, e.resource) # 0)
  BY DEF Check
<1>. HIDE DEF c
<1>14. DOMAIN c \subseteq Nat
  BY <1>10
<1>15. c[3].ok /\ c[5].ok
  BY <1>10, <1>11, <1>12, <1>14, FirstErrorFacts
<1>16. Ops(e) # {} /\ (e.kind \in Unbound \/ ResourceId(e.kind, e.resource) # 0)
  BY <1>13, <1>15, Zenon
<1>. QED  BY <1>16 DEF e

-----------------------------------------------------------------------------
(***************************************************************************)
(* The inductive invariant: the inputs are inputs, and each stage is what  *)
(* the steps before it left.                                               *)
(***************************************************************************)

InputsStay ==
    \E i \in Inputs : image = i.image /\ policy = i.policy /\ request = i.request

\* The buffer is filled to what the header says, and fits.
BufferFilled ==
    stage \in {"read", "verified", "loaded"} =>
        /\ ParseHeader(image.header, HeaderLen) = "OK"
        /\ buffer_len = Offsets(image.header).total
        /\ buffer_len <= BufferCap /\ buffer_len <= SlotSize

\* An accepted bundle is one wdc_bundle_verify accepted, under this policy.
ResultHolds ==
    AcceptedBundle => /\ VerifyStatus(image, buffer_len, policy.verify) = "OK"
                      /\ result = VerifyResult(image, buffer_len, policy.verify)

\* What the runtime is given.
LoadedHolds ==
    stage = "loaded" =>
        /\ payload = [offset |-> result.header.payload, len |-> image.header.payload_len]
        /\ config = WithDefaults(ConfigFromManifest(request, image))

BInv == InputsStay /\ BufferFilled /\ ResultHolds /\ LoadedHolds

\* A refusal keeps the invariant: it leaves the inputs and claims nothing.
LEMMA RefusedKeeps ==
    ASSUME InputsStay, NEW st, Refused(st)
    PROVE  BInv'
BY DEF BInv, Refused, inputs, InputsStay, BufferFilled, ResultHolds, AcceptedBundle,
       LoadedHolds

\* The invariant holds and is kept.
LEMMA InitBInv == Init => BInv
BY DEF Init, BInv, InputsStay, BufferFilled, ResultHolds, LoadedHolds, AcceptedBundle

LEMMA StepBInv == BInv /\ [Next]_vars => BInv'
<1>. SUFFICES ASSUME BInv, [Next]_vars PROVE BInv'
  OBVIOUS
<1>0. InputsStay /\ BufferFilled /\ ResultHolds /\ LoadedHolds
  BY DEF BInv
<1>1. CASE ReadSlot
  <2>1. CASE \E st : Refused(st)
    BY <1>0, <2>1, RefusedKeeps
  <2>2. CASE /\ ParseHeader(image.header, HeaderLen) = "OK"
             /\ Offsets(image.header).total <= BufferCap
             /\ Offsets(image.header).total <= SlotSize
             /\ buffer_len' = Offsets(image.header).total /\ stage' = "read"
             /\ UNCHANGED <<inputs, status, result, payload, config>>
    BY <1>0, <2>2 DEF BInv, inputs, InputsStay, BufferFilled, ResultHolds,
                      AcceptedBundle, LoadedHolds
  <2>. QED  BY <1>1, <2>1, <2>2 DEF ReadSlot
<1>2. CASE ReadFails
  BY <1>0, <1>2, RefusedKeeps DEF ReadFails
<1>3. CASE Verify
  <2>1. CASE \E st : Refused(st)
    BY <1>0, <2>1, RefusedKeeps
  <2>2. CASE /\ stage = "read" /\ result' = VerifyResult(image, buffer_len, policy.verify)
             /\ result'.status = "OK" /\ stage' = "verified"
             /\ UNCHANGED <<inputs, status, buffer_len, payload, config>>
    <3>1. VerifyStatus(image, buffer_len, policy.verify) = "OK"
      <4>1. PICK st : st = VerifyStatus(image, buffer_len, policy.verify)
        OBVIOUS
      <4>2. st # "OK" => VerifyResult(image, buffer_len, policy.verify).status = st
        BY <4>1 DEF VerifyResult, NoResult
      <4>. QED  BY <2>2, <4>1, <4>2
    <3>2. /\ InputsStay' /\ BufferFilled' /\ LoadedHolds'
      BY <1>0, <2>2 DEF inputs, InputsStay, BufferFilled, LoadedHolds
    <3>3. ResultHolds'
      BY <2>2, <3>1 DEF inputs, ResultHolds
    <3>. QED  BY <3>2, <3>3 DEF BInv
  <2>. QED  BY <1>3, <2>1, <2>2 DEF Verify
<1>4. CASE TakePayload
  <2>1. CASE \E st : Refused(st)
    BY <1>0, <2>1, RefusedKeeps
  <2>2. CASE /\ stage = "verified"
             /\ payload' = [offset |-> result.header.payload,
                            len |-> image.header.payload_len]
             /\ config' = WithDefaults(ConfigFromManifest(request, image))
             /\ stage' = "loaded"
             /\ UNCHANGED <<inputs, status, buffer_len, result>>
    BY <1>0, <2>2 DEF BInv, inputs, InputsStay, BufferFilled, ResultHolds,
                      AcceptedBundle, LoadedHolds
  <2>. QED  BY <1>4, <2>1, <2>2 DEF TakePayload
<1>5. CASE Done \/ UNCHANGED vars
  BY <1>0, <1>5 DEF Done, vars, BInv, InputsStay, BufferFilled, ResultHolds,
                    AcceptedBundle, LoadedHolds
<1>. QED  BY <1>1, <1>2, <1>3, <1>4, <1>5 DEF Next

\* A bundle moves through its stages only by passing each one's checks, on the
\* inputs it started with.
THEOREM BundleInv == Spec => []BInv
<1>. QED  BY InitBInv, StepBInv, PTL DEF Spec


-----------------------------------------------------------------------------
(***************************************************************************)
(* What follows of an accepted bundle.                                     *)
(***************************************************************************)

\* The inputs are of their types.
LEMMA InputTypes ==
    ASSUME InputsStay
    PROVE  LET h == image.header
               m == image.manifest
               p == policy.verify
           IN  /\ WordLengths(h)
               /\ m.limits \in [LimitNames -> Words] /\ m.counter \in Words
               /\ m.capabilities \in Seq(Entry)
               /\ p.max \in [LimitNames -> Words] /\ p.floor \in Words
               /\ request \in [ConfigFields -> Words]
               /\ policy.gate => p = VerifyPolicy(policy.security, p.floor)
<1>1. PICK i \in Inputs : image = i.image /\ policy = i.policy /\ request = i.request
  BY DEF InputsStay
<1>2. IsInput(i)
  BY BundleAssumption
<1>. QED  BY <1>1, <1>2, Zenon DEF IsInput, WordLengths, Entry

\* What the invariant says of an accepted bundle.
LEMMA AcceptedFacts ==
    ASSUME BInv, AcceptedBundle
    PROVE  /\ InputsStay
           /\ VerifyStatus(image, buffer_len, policy.verify) = "OK"
           /\ result.status = "OK" /\ result.header = Offsets(image.header)
           /\ result.alg = image.manifest.alg
           /\ result.caps = CapabilitySet(image.manifest.capabilities)
           /\ result.signature_ok = SignatureOk(image.header, image.manifest, policy.verify)
           /\ result.anti_rollback_ok = AntiRollbackOk(image.manifest, policy.verify)
<1>1. /\ InputsStay /\ VerifyStatus(image, buffer_len, policy.verify) = "OK"
      /\ result = VerifyResult(image, buffer_len, policy.verify)
  BY DEF BInv, ResultHolds
<1>2. PICK a, b : /\ a = SignatureOk(image.header, image.manifest, policy.verify)
                  /\ b = AntiRollbackOk(image.manifest, policy.verify)
  OBVIOUS
<1>3. result = [status |-> "OK", header |-> Offsets(image.header),
                alg |-> image.manifest.alg,
                caps |-> CapabilitySet(image.manifest.capabilities),
                signature_ok |-> a, anti_rollback_ok |-> b]
  BY <1>1, <1>2, Zenon DEF VerifyResult
<1>4. result.signature_ok = a /\ result.anti_rollback_ok = b
  BY <1>3
<1>5. /\ result.signature_ok = SignatureOk(image.header, image.manifest, policy.verify)
      /\ result.anti_rollback_ok = AntiRollbackOk(image.manifest, policy.verify)
  BY <1>2, <1>4, Zenon
<1>6. /\ result.status = "OK" /\ result.header = Offsets(image.header)
      /\ result.alg = image.manifest.alg
      /\ result.caps = CapabilitySet(image.manifest.capabilities)
  BY <1>3
<1>. QED  BY <1>1, <1>5, <1>6, Zenon

\* A bundle that is accepted fills the buffer exactly, its pieces one after the
\* other in whole numbers and not only modulo 2^32: wdc_bundle_parse_header's
\* comparisons of each offset with the one before are enough.
THEOREM BundleLayoutTiles == Spec => []LayoutTiles
<1>1. BInv => LayoutTiles
  <2>. SUFFICES ASSUME BInv, AcceptedBundle
                PROVE  LayoutTiles
    BY DEF LayoutTiles
  <2>. DEFINE h == image.header
              o == Offsets(h)
  <2>1. /\ result.header = o /\ InputsStay
        /\ VerifyStatus(image, buffer_len, policy.verify) = "OK"
    BY AcceptedFacts
  <2>2. WordLengths(h)
    BY <2>1, InputTypes
  <2>3. ParseHeader(h, buffer_len) = "OK" /\ o.total = buffer_len
    BY <2>1, VerifyFacts
  <2>4. /\ o.manifest = HeaderLen
        /\ o.payload = HeaderLen + h.manifest_len
        /\ o.signature = o.payload + h.payload_len
        /\ o.total = o.signature + h.signature_len
    BY <2>2, <2>3, OffsetsExact
  <2>5. buffer_len <= BufferCap /\ buffer_len <= SlotSize
    BY DEF BInv, BufferFilled, AcceptedBundle
  <2>6. stage = "loaded" => payload = [offset |-> result.header.payload,
                                       len |-> image.header.payload_len]
    BY DEF BInv, LoadedHolds
  <2>. HIDE DEF o
  <2>7. stage = "loaded" => payload.offset = o.payload /\ payload.len = h.payload_len
    BY <2>1, <2>6
  <2>. QED  BY <2>1, <2>3, <2>4, <2>5, <2>7 DEF LayoutTiles
<1>. QED  BY <1>1, BundleInv, PTL

\* In production a bundle is accepted only with a signature the verifier
\* vouches for and a counter at or above the floor, whatever policy function of
\* wdc_security or wdc_bundle made the policy and whatever else it says.
THEOREM BundleProductionIsAuthentic == Spec => []ProductionIsAuthentic
<1>1. BInv => ProductionIsAuthentic
  <2>. SUFFICES ASSUME BInv, AcceptedBundle, policy.verify.production
                PROVE  ProductionIsAuthentic
    BY DEF ProductionIsAuthentic
  <2>1. VerifyStatus(image, buffer_len, policy.verify) = "OK"
    BY AcceptedFacts
  <2>2. /\ image.manifest.alg = image.header.alg
        /\ SignatureOk(image.header, image.manifest, policy.verify)
        /\ AntiRollbackOk(image.manifest, policy.verify)
    BY <2>1, VerifyFacts
  <2>3. /\ image.header.alg = "ed25519"
        /\ policy.verify.verifier # "" /\ image.manifest.signer = policy.verify.verifier
    BY <2>2 DEF SignatureOk
  <2>. QED  BY <2>2, <2>3 DEF ProductionIsAuthentic, AntiRollbackOk
<1>. QED  BY <1>1, BundleInv, PTL

\* A bundle that wdc_bundle_verify accepts under the policy made from a security
\* policy is accepted by wdc_security_validate_bundle_result under that same
\* security policy, whatever its flags and its required algorithm.
THEOREM BundleGatesAgree == Spec => []GatesAgree
<1>1. BInv => GatesAgree
  <2>. SUFFICES ASSUME BInv, AcceptedBundle, policy.gate
                PROVE  SecondGate(policy.security, result) = "OK"
    BY DEF GatesAgree
  <2>. DEFINE s == policy.security
              p == policy.verify
              alg == image.manifest.alg
  <2>1. /\ VerifyStatus(image, buffer_len, p) = "OK" /\ InputsStay
        /\ result.status = "OK" /\ result.alg = alg
        /\ result.signature_ok = SignatureOk(image.header, image.manifest, p)
        /\ result.anti_rollback_ok = AntiRollbackOk(image.manifest, p)
    BY AcceptedFacts, Zenon
  <2>2. /\ alg = image.header.alg /\ Matches(p.alg, alg)
        /\ SignatureOk(image.header, image.manifest, p)
        /\ AntiRollbackOk(image.manifest, p)
    BY <2>1, VerifyFacts
  <2>3. p = VerifyPolicy(s, p.floor)
    BY <2>1, InputTypes
  <2>4. s.require => p.alg = RequiredAlg(s)
    <3>1. VerifyPolicy(s, p.floor).alg = IF s.require THEN RequiredAlg(s) ELSE ""
      BY DEF VerifyPolicy, DefaultDevPolicy
    <3>. QED  BY <2>3, <3>1, Zenon
  <2>5. p.dev_key => ~s.reject_dev
    <3>2. VerifyPolicy(s, p.floor).dev_key = (~(s.production \/ s.reject_dev))
      BY DEF VerifyPolicy, DefaultDevPolicy
    <3>. QED  BY <2>3, <3>2, Zenon
  <2>6. alg = "hmac-sha256-dev" => p.dev_key
    BY <2>2 DEF SignatureOk
  <2>7. s.require => s.alg \in {"null", "", alg}
    BY <2>2, <2>4 DEF Matches, RequiredAlg
  <2>8. result.signature_ok /\ result.anti_rollback_ok
    BY <2>1, <2>2, Zenon
  <2>. DEFINE c == <<
        Check(result.status = "OK", result.status),
        Check(~s.require \/ result.signature_ok, "CONTRACT_VIOLATION"),
        Check(~(s.reject_dev /\ result.alg = "hmac-sha256-dev"), "CONTRACT_VIOLATION"),
        Check(~s.require \/ s.alg \in {"null", "", result.alg}, "CONTRACT_VIOLATION"),
        Check(~s.anti_rollback \/ result.anti_rollback_ok, "CONTRACT_VIOLATION")>>
  <2>9. DOMAIN c = {1, 2, 3, 4, 5}
    OBVIOUS
  <2>10. /\ c[1].ok = (result.status = "OK")
         /\ c[2].ok = (~s.require \/ result.signature_ok)
         /\ c[3].ok = (~(s.reject_dev /\ result.alg = "hmac-sha256-dev"))
         /\ c[4].ok = (~s.require \/ s.alg \in {"null", "", result.alg})
         /\ c[5].ok = (~s.anti_rollback \/ result.anti_rollback_ok)
    BY DEF Check
  <2>. HIDE DEF c, s, p, alg
  <2>11. /\ result.status = "OK"
         /\ ~s.require \/ result.signature_ok
         /\ ~(s.reject_dev /\ result.alg = "hmac-sha256-dev")
         /\ ~s.require \/ s.alg \in {"null", "", result.alg}
         /\ ~s.anti_rollback \/ result.anti_rollback_ok
    BY <2>1, <2>5, <2>6, <2>7, <2>8
  <2>12. c[1].ok /\ c[2].ok /\ c[3].ok /\ c[4].ok /\ c[5].ok
    BY <2>10, <2>11, Zenon
  <2>13. FirstError(c) = "OK"
    <3>1. \A i \in DOMAIN c : c[i].ok
      BY <2>9, <2>12
    <3>2. {i \in DOMAIN c : ~c[i].ok} = {}
      BY <3>1
    <3>. QED  BY <3>2 DEF FirstError
  <2>. QED  BY <2>13, Zenon DEF SecondGate, c, s
<1>. QED  BY <1>1, BundleInv, PTL


\* The rights an accepted bundle gets are those its manifest writes down, entry
\* by entry, on the profile's own resources, with the limits as written where
\* they fit a word.
THEOREM BundleGrantsAreWritten == Spec => []GrantsAreWritten
<1>1. BInv => GrantsAreWritten
  <2>. SUFFICES ASSUME BInv, AcceptedBundle
                PROVE  GrantsAreWritten
    BY DEF GrantsAreWritten
  <2>1. PICK written : written = image.manifest.capabilities
    OBVIOUS
  <2>2. /\ written \in Seq(Entry) /\ CapsStatus(written) = "OK"
        /\ result.caps = CapabilitySet(written)
    BY <2>1, AcceptedFacts, InputTypes, VerifyFacts
  <2>3. DOMAIN written = 1..Len(written) /\ Len(written) \in Nat
    BY <2>2
  <2>4. Len(result.caps) = Len(written)
    BY <2>2, <2>3 DEF CapabilitySet
  <2>5. ASSUME NEW i \in DOMAIN written
        PROVE  /\ result.caps[i].kind = written[i].kind
               /\ result.caps[i].ops = Ops(written[i])
               /\ result.caps[i].resource =
                      IF written[i].kind \in Unbound THEN 0
                      ELSE ResourceId(written[i].kind, written[i].resource)
               /\ result.caps[i].payload = Limit(written[i].payload)
               /\ result.caps[i].rate = Limit(written[i].rate)
    BY <2>2 DEF CapabilitySet
  <2>6. ASSUME NEW n \in 0..Word - 1 PROVE Limit(n) = n
    BY CapsAssumption DEF Limit
  <2>7. ASSUME NEW i \in DOMAIN written
        PROVE  LET c == result.caps[i]
                   w == written[i]
               IN  /\ c.kind = w.kind /\ c.ops \subseteq w.ops /\ c.ops # {}
                   /\ \/ c.kind \in Unbound /\ c.resource = 0
                      \/ \E r \in Range(Profile) :
                            /\ r.kind = w.kind /\ r.name = w.resource
                            /\ r.id = c.resource
                   /\ \A f \in {"payload", "rate"} :
                         w[f] \in 0..Word - 1 => c[f] = w[f]
    <3>1. PICK c, w : c = result.caps[i] /\ w = written[i]
      OBVIOUS
    <3>2. /\ c.kind = w.kind /\ c.ops = Ops(w)
          /\ c.resource = IF w.kind \in Unbound THEN 0 ELSE ResourceId(w.kind, w.resource)
          /\ c.payload = Limit(w.payload) /\ c.rate = Limit(w.rate)
      BY <2>5, <3>1
    <3>3. Ops(w) # {} /\ (w.kind \in Unbound \/ ResourceId(w.kind, w.resource) # 0)
      BY <2>2, <3>1, CapsFacts
    <3>4. c.ops \subseteq w.ops /\ c.ops # {}
      BY <3>2, <3>3 DEF Ops
    <3>5. \/ c.kind \in Unbound /\ c.resource = 0
          \/ \E r \in Range(Profile) : r.kind = w.kind /\ r.name = w.resource /\ r.id = c.resource
      BY <3>2, <3>3, ResourceFacts
    <3>6. \A f \in {"payload", "rate"} : w[f] \in 0..Word - 1 => c[f] = w[f]
      <4>1. w["payload"] \in 0..Word - 1 => c["payload"] = w["payload"]
        BY <2>6, <3>2
      <4>2. w["rate"] \in 0..Word - 1 => c["rate"] = w["rate"]
        BY <2>6, <3>2
      <4>. QED  BY <4>1, <4>2
    <3>. QED  BY <3>1, <3>2, <3>4, <3>5, <3>6
  <2>. QED  BY <2>1, <2>4, <2>7, Zenon DEF GrantsAreWritten
<1>. QED  BY <1>1, BundleInv, PTL

\* runtime_config_from_manifest gives at most what is allowed and at most what
\* is asked for, and a 0 only where nothing is allowed.
LEMMA CappedFacts ==
    ASSUME NEW asked \in Words, NEW allowed \in Words
    PROVE  /\ Capped(asked, allowed) \in Words
           /\ Capped(asked, allowed) <= allowed
           /\ asked # 0 => Capped(asked, allowed) <= asked
           /\ Capped(asked, allowed) = 0 <=> allowed = 0
BY CapsAssumption DEF Capped, Words

\* The sizes the runtime runs with are positive and within manifest, policy (its
\* zeros read as the defaults) and shell, except that a limit of 0 in the
\* manifest gives the runtime's default, whatever it is; the largest module is
\* never above the payload.
THEOREM BundleRunsWithinLimits == Spec => []RunsWithinLimits
<1>1. BInv => RunsWithinLimits
  <2>. SUFFICES ASSUME BInv, stage = "loaded"
                PROVE  RunsWithinLimits
    BY DEF RunsWithinLimits
  <2>. DEFINE m == image.manifest.limits
              p == policy.verify
              r == request
              c == ConfigFromManifest(r, image)
  <2>0. AcceptedBundle
    BY DEF AcceptedBundle
  <2>1. InputsStay /\ VerifyStatus(image, buffer_len, p) = "OK"
    BY <2>0, AcceptedFacts
  <2>2. /\ m \in [LimitNames -> Words] /\ p.max \in [LimitNames -> Words]
        /\ r \in [ConfigFields -> Words]
        /\ image.header.payload_len \in Words
    BY <2>1, InputTypes DEF WordLengths
  <2>3. /\ \A f \in LimitNames : m[f] <= MaxOf(p, f)
        /\ image.header.payload_len # 0
    <3>1. LimitsOk(image.manifest, p) /\ ParseHeader(image.header, buffer_len) = "OK"
      BY <2>1, VerifyFacts
    <3>2. \A f \in LimitNames : m[f] <= MaxOf(p, f)
      BY <3>1 DEF LimitsOk
    <3>3. image.header.payload_len # 0
      BY <3>1, ParseHeaderFacts
    <3>. QED  BY <3>2, <3>3
  <2>4. /\ config = WithDefaults(c)
        /\ payload.len = image.header.payload_len
    BY DEF BInv, LoadedHolds
  <2>5. /\ c.instance_stack = Capped(r.instance_stack, m["stack"])
        /\ c.exec_stack = Capped(r.exec_stack, m["stack"])
        /\ c.heap = Capped(r.heap, m["linear_memory"])
        /\ c.event = Capped(r.event, m["event"])
        /\ c.module = Capped(r.module, image.header.payload_len)
    BY DEF ConfigFromManifest
  <2>6. ASSUME NEW f \in ConfigFields
        PROVE  config[f] = IF c[f] = 0 THEN RuntimeDefault[f] ELSE c[f]
    BY <2>4, <2>6 DEF WithDefaults
  <2>7. ASSUME NEW f \in {"stack", "linear_memory", "event"}
        PROVE  m[f] \in Words /\ MaxOf(p, f) \in Nat /\ m[f] <= MaxOf(p, f)
    <3>1. f \in LimitNames
      BY DEF LimitNames
    <3>2. p.max[f] \in Nat /\ m[f] \in Words
      BY <2>2, <3>1, CapsAssumption DEF Words
    <3>3. DefaultMax[f] \in Nat
      BY <3>1, SecurityAssumption
    <3>4. MaxOf(p, f) \in Nat
      BY <3>2, <3>3 DEF MaxOf
    <3>. QED  BY <2>3, <3>1, <3>2, <3>4
  <2>. HIDE DEF m, p, r, c
  <2>. DEFINE Within(f, limit, max) ==
                  IF limit = 0 THEN config[f] = RuntimeDefault[f]
                  ELSE /\ config[f] > 0 /\ config[f] <= limit /\ config[f] <= max
                       /\ r[f] # 0 => config[f] <= r[f]
  <2>8. ASSUME NEW f \in ConfigFields, NEW g \in {"stack", "linear_memory", "event"},
               c[f] = Capped(r[f], m[g])
        PROVE  Within(f, m[g], MaxOf(p, g))
    <3>1. m[g] \in Words /\ MaxOf(p, g) \in Nat /\ m[g] <= MaxOf(p, g) /\ r[f] \in Words
      BY <2>2, <2>7
    <3>2. /\ c[f] \in Words /\ c[f] <= m[g] /\ (r[f] # 0 => c[f] <= r[f])
          /\ c[f] = 0 <=> m[g] = 0
      BY <2>8, <3>1, CappedFacts
    <3>3. config[f] = IF c[f] = 0 THEN RuntimeDefault[f] ELSE c[f]
      BY <2>6
    <3>. QED  BY <3>1, <3>2, <3>3, CapsAssumption DEF Words
  <2>. HIDE DEF Within
  <2>9. \A f \in DOMAIN LimitOf : Within(f, m[LimitOf[f]], MaxOf(p, LimitOf[f]))
    <3>1. /\ Within("instance_stack", m["stack"], MaxOf(p, "stack"))
          /\ Within("exec_stack", m["stack"], MaxOf(p, "stack"))
          /\ Within("heap", m["linear_memory"], MaxOf(p, "linear_memory"))
          /\ Within("event", m["event"], MaxOf(p, "event"))
      BY <2>5, <2>8 DEF ConfigFields
    <3>2. DOMAIN LimitOf = {"instance_stack", "exec_stack", "heap", "event"}
      BY DEF LimitOf
    <3>3. /\ LimitOf["instance_stack"] = "stack" /\ LimitOf["exec_stack"] = "stack"
          /\ LimitOf["heap"] = "linear_memory" /\ LimitOf["event"] = "event"
      BY DEF LimitOf
    <3>. QED  BY <3>1, <3>2, <3>3
  <2>10. config.module > 0 /\ config.module <= payload.len
    <3>1. r.module \in Words
      BY <2>2 DEF ConfigFields
    <3>2. c.module \in Words /\ c.module # 0 /\ c.module <= image.header.payload_len
      BY <2>2, <2>3, <2>5, <3>1, CappedFacts
    <3>3. config.module = c.module
      BY <2>6, <3>2 DEF ConfigFields
    <3>. QED  BY <2>4, <3>2, <3>3, CapsAssumption DEF Words
  <2>. QED  BY <2>9, <2>10, Zenon DEF RunsWithinLimits, Within, m, p, r
<1>. QED  BY <1>1, BundleInv, PTL

-----------------------------------------------------------------------------
(***************************************************************************)
(* The section walk (wasm_payload_has_required_exports).  What the loop    *)
(* has after n sections in closed form: whether they all fit and their ids *)
(* increase, the id of the last that is not custom, the functions found.   *)
(***************************************************************************)

Known(w, n) == {i \in 1..n : w[i].id # 0}

LastKnown(w, n) ==
    IF Known(w, n) = {} THEN 0
    ELSE w[CHOOSE i \in Known(w, n) : \A j \in Known(w, n) : j <= i].id

Orderly(w, n) ==
    /\ \A i \in 1..n : w[i].fits
    /\ \A i, j \in Known(w, n) : i < j => w[i].id < w[j].id

FoundIn(w, n) ==
    UNION {Functions(w[i]) : i \in {j \in 1..n : w[j].id = ExportSection}}

Walked(w, n) ==
    [ok |-> Orderly(w, n), previous |-> LastKnown(w, n), found |-> FoundIn(w, n)]

\* The n-th section is known or not.
LEMMA KnownMore ==
    ASSUME NEW w, NEW n \in Nat \ {0}
    PROVE  /\ Known(w, n - 1) \subseteq 1..n - 1
           /\ Known(w, n) = IF w[n].id = 0 THEN Known(w, n - 1)
                            ELSE Known(w, n - 1) \cup {n}
  BY DEF Known

\* A set of places has a last one.
LEMMA LastExists ==
    ASSUME NEW n \in Nat, NEW S \in SUBSET (1..n), S # {}
    PROVE  \E i \in S : \A j \in S : j <= i
<1>. DEFINE U == {u \in Nat : \A j \in S : j <= u}
<1>1. n \in U /\ U \subseteq Nat
  OBVIOUS
<1>2. PICK u \in U : \A y \in U : u <= y
  BY <1>1, MinIsMember
<1>3. u \in S
  <2>. SUFFICES ASSUME u \notin S PROVE FALSE
    OBVIOUS
  <2>1. \A j \in S : j \in Nat /\ j >= 1 /\ j <= u /\ j # u
    BY <1>2
  <2>0. PICK j \in S : TRUE
    OBVIOUS
  <2>2. u \in Nat /\ u >= 1
    <3>1. u \in Nat
      BY <1>2
    <3>2. j \in Nat /\ j >= 1 /\ j <= u
      BY <2>1
    <3>. QED  BY <3>1, <3>2
  <2>3. u - 1 \in U
    BY <2>1, <2>2
  <2>. QED  BY <1>2, <2>2, <2>3
<1>. QED  BY <1>2, <1>3

\* The previous id is that of the last known section, or 0.
LEMMA LastKnownFacts ==
    ASSUME NEW w, NEW n \in Nat
    PROVE  \/ Known(w, n) = {} /\ LastKnown(w, n) = 0
           \/ \E i \in Known(w, n) : /\ \A j \in Known(w, n) : j <= i
                                     /\ LastKnown(w, n) = w[i].id
<1>1. CASE Known(w, n) = {}
  BY <1>1 DEF LastKnown
<1>2. CASE Known(w, n) # {}
  <2>1. Known(w, n) \in SUBSET (1..n)
    BY DEF Known
  <2>2. \E i \in Known(w, n) : \A j \in Known(w, n) : j <= i
    BY <1>2, <2>1, LastExists
  <2>. DEFINE m == CHOOSE i \in Known(w, n) : \A j \in Known(w, n) : j <= i
  <2>3. m \in Known(w, n) /\ \A j \in Known(w, n) : j <= m
    BY <2>2
  <2>4. LastKnown(w, n) = w[m].id
    BY <1>2 DEF LastKnown
  <2>. HIDE DEF m
  <2>. QED  BY <2>3, <2>4
<1>. QED  BY <1>1, <1>2

\* One turn of the loop, for each of the three.
LEMMA WalkedMore ==
    ASSUME NEW w \in Seq(WasmSection), NEW n \in 1..Len(w)
    PROVE  Walked(w, n) = WalkStep(Walked(w, n - 1), w[n])
<1>. DEFINE K == Known(w, n - 1)
<1>0. n \in Nat \ {0} /\ n - 1 \in Nat
  OBVIOUS
<1>1. \A i \in 1..n : w[i].id \in Nat
  <2>1. \A i \in 1..n : w[i] \in WasmSection
    OBVIOUS
  <2>2. \A s \in WasmSection : s.id \in 0..255
    BY DEF WasmSection
  <2>3. \A x \in 0..255 : x \in Nat
    OBVIOUS
  <2>. QED  BY <2>1, <2>2, <2>3, Zenon
<1>2. K \subseteq 1..n - 1 /\ Known(w, n) = IF w[n].id = 0 THEN K ELSE K \cup {n}
  BY <1>0, KnownMore
<1>k. \A i \in K : i \in Nat /\ i < n
  <2>1. \A i \in 1..n - 1 : i \in Nat /\ i < n
    BY <1>0
  <2>. QED  BY <1>2, <2>1
<1>p. \/ K = {} /\ LastKnown(w, n - 1) = 0
      \/ \E i \in K : (\A j \in K : j <= i) /\ LastKnown(w, n - 1) = w[i].id
  BY <1>0, LastKnownFacts
<1>. HIDE DEF K
<1>3. LastKnown(w, n) = IF w[n].id = 0 THEN LastKnown(w, n - 1) ELSE w[n].id
  <2>1. CASE w[n].id = 0
    BY <1>2, <2>1 DEF LastKnown, K
  <2>2. CASE w[n].id # 0
    <3>0. Known(w, n) = K \cup {n}
      BY <1>2, <2>2
    <3>1. n \in Known(w, n) /\ \A j \in Known(w, n) : j \in Nat /\ j <= n
      BY <1>0, <1>k, <3>0
    <3>2. PICK i \in Known(w, n) : /\ \A j \in Known(w, n) : j <= i
                                   /\ LastKnown(w, n) = w[i].id
      BY <1>0, <3>1, LastKnownFacts
    <3>3. i = n
      BY <1>0, <3>1, <3>2
    <3>. QED  BY <2>2, <3>2, <3>3
  <2>. QED  BY <2>1, <2>2
<1>4. FoundIn(w, n) = IF w[n].id = ExportSection
                      THEN FoundIn(w, n - 1) \cup Functions(w[n]) ELSE FoundIn(w, n - 1)
  <2>1. {j \in 1..n : w[j].id = ExportSection} =
          IF w[n].id = ExportSection
          THEN {j \in 1..n - 1 : w[j].id = ExportSection} \cup {n}
          ELSE {j \in 1..n - 1 : w[j].id = ExportSection}
    BY <1>0
  <2>. QED  BY <2>1 DEF FoundIn
<1>5. Orderly(w, n) <=> /\ Orderly(w, n - 1) /\ w[n].fits
                        /\ InOrder(w[n].id, LastKnown(w, n - 1))
  <2>1. (\A i \in 1..n : w[i].fits) <=> (\A i \in 1..n - 1 : w[i].fits) /\ w[n].fits
    BY <1>0
  <2>2. CASE w[n].id = 0
    BY <1>2, <2>1, <2>2 DEF Orderly, InOrder, K
  <2>3. CASE w[n].id # 0
    <3>. DEFINE Up == \A i, j \in K : i < j => w[i].id < w[j].id
    <3>1. (\A i, j \in Known(w, n) : i < j => w[i].id < w[j].id)
            <=> Up /\ \A i \in K : w[i].id < w[n].id
      <4>1. Known(w, n) = K \cup {n} /\ \A i \in K : i < n /\ ~(n < i)
        BY <1>0, <1>2, <1>k, <2>3
      <4>2. ~(n < n)
        BY <1>0
      <4>. QED  BY <4>1, <4>2
    <3>2. Up => ((\A i \in K : w[i].id < w[n].id) <=> w[n].id > LastKnown(w, n - 1))
      <4>. SUFFICES ASSUME Up
                    PROVE (\A i \in K : w[i].id < w[n].id) <=> w[n].id > LastKnown(w, n - 1)
        OBVIOUS
      <4>1. CASE K = {}
        BY <1>1, <1>p, <2>3, <4>1
      <4>2. CASE K # {}
        <5>1. PICK m \in K : (\A j \in K : j <= m) /\ LastKnown(w, n - 1) = w[m].id
          BY <1>p, <4>2
        <5>2. \A i \in K : w[i].id <= w[m].id
          <6>. SUFFICES ASSUME NEW i \in K PROVE w[i].id <= w[m].id
            OBVIOUS
          <6>1. i \in 1..n /\ m \in 1..n /\ w[i].id \in Nat /\ w[m].id \in Nat
            BY <1>0, <1>1, <1>2
          <6>2. i < m \/ i = m
            BY <5>1, <6>1
          <6>. QED  BY <6>1, <6>2
        <5>3. \A i \in K : w[i].id \in Nat
          BY <1>0, <1>1, <1>2
        <5>. QED  BY <1>1, <5>1, <5>2, <5>3
      <4>. QED  BY <4>1, <4>2
    <3>. QED  BY <2>1, <2>3, <3>1, <3>2 DEF Orderly, InOrder, K
  <2>. QED  BY <2>2, <2>3
<1>6. Orderly(w, n) = (/\ Orderly(w, n - 1) /\ w[n].fits
                       /\ InOrder(w[n].id, LastKnown(w, n - 1)))
  BY <1>5 DEF Orderly
<1>. QED  BY <1>3, <1>4, <1>6, Zenon DEF Walked, WalkStep

\* The loop ends with that for the whole sequence: the function Walk
\* recurses with exists, as Walked is one, and has no other values.
LEMMA WalkIsWalked ==
    ASSUME NEW w \in Seq(WasmSection)
    PROVE  Walk(w) = Walked(w, Len(w))
<1>. DEFINE start == [ok |-> TRUE, previous |-> 0, found |-> {}]
            g == [n \in 0..Len(w) |-> Walked(w, n)]
            f == CHOOSE after : after = [n \in 0..Len(w) |->
                    IF n = 0 THEN start ELSE WalkStep(after[n - 1], w[n])]
<1>0. Len(w) \in Nat
  OBVIOUS
<1>1. Walked(w, 0) = start
  <2>1. Known(w, 0) = {} /\ {j \in 1..0 : w[j].id = ExportSection} = {}
    BY DEF Known
  <2>2. LastKnown(w, 0) = 0
    BY <2>1 DEF LastKnown
  <2>3. FoundIn(w, 0) = {}
    BY <2>1 DEF FoundIn
  <2>4. Orderly(w, 0) = TRUE
    BY <2>1 DEF Orderly
  <2>. QED  BY <2>2, <2>3, <2>4 DEF Walked
<1>2. g = [n \in 0..Len(w) |-> IF n = 0 THEN start ELSE WalkStep(g[n - 1], w[n])]
  <2>1. ASSUME NEW n \in 0..Len(w)
        PROVE  Walked(w, n) = IF n = 0 THEN start ELSE WalkStep(g[n - 1], w[n])
    <3>1. CASE n = 0
      BY <1>1, <3>1
    <3>2. CASE n # 0
      <4>1. n \in 1..Len(w) /\ n - 1 \in 0..Len(w)
        BY <1>0, <3>2
      <4>2. g[n - 1] = Walked(w, n - 1)
        BY <4>1
      <4>. QED  BY <3>2, <4>1, <4>2, WalkedMore
    <3>. QED  BY <3>1, <3>2
  <2>. QED  BY <2>1
<1>3. f = [n \in 0..Len(w) |-> IF n = 0 THEN start ELSE WalkStep(f[n - 1], w[n])]
  <2>. HIDE DEF g, start
  <2>. QED  BY <1>2
<1>4. Walk(w) = f[Len(w)]
  BY DEF Walk
<1>5. \A n \in 0..Len(w) : g[n] = Walked(w, n)
  OBVIOUS
<1>. HIDE DEF f, g, start
<1>. DEFINE Wrong == {n \in 0..Len(w) : f[n] # g[n]}
<1>6. Wrong = {}
  <2>. SUFFICES ASSUME Wrong # {} PROVE FALSE
    OBVIOUS
  <2>1. Wrong \in SUBSET Nat
    BY <1>0
  <2>2. PICK n \in Wrong : \A y \in Wrong : n <= y
    BY <2>1, MinIsMember
  <2>3. n \in 0..Len(w) /\ f[n] # g[n]
    BY <2>2
  <2>4. CASE n = 0
    <3>1. f[0] = start /\ g[0] = start
      BY <1>0, <1>2, <1>3
    <3>. QED  BY <2>3, <2>4, <3>1
  <2>5. CASE n # 0
    <3>1. n - 1 \in 0..Len(w) /\ ~(n <= n - 1)
      BY <1>0, <2>3, <2>5
    <3>2. f[n - 1] = g[n - 1]
      BY <2>2, <3>1
    <3>3. f[n] = WalkStep(f[n - 1], w[n]) /\ g[n] = WalkStep(g[n - 1], w[n])
      BY <1>2, <1>3, <2>3, <2>5
    <3>. QED  BY <2>3, <3>2, <3>3
  <2>. QED  BY <2>4, <2>5
<1>7. Len(w) \in 0..Len(w)
  BY <1>0
<1>8. f[Len(w)] = g[Len(w)]
  BY <1>6, <1>7
<1>. QED  BY <1>4, <1>5, <1>7, <1>8

\* The section walk accepts exactly the payloads whose sections all fit,
\* whose non-custom sections have increasing ids, and whose one export
\* section exports every required function before the first entry that
\* cannot be read: for payloads of any length, by induction over the sections.
THEOREM BundleWalkIsExact == Spec => []WalkIsExact
<1>1. ASSUME NEW w \in Seq(WasmSection)
      PROVE  /\ Walk(w).ok <=> Orderly(w, Len(w))
             /\ Walk(w).found = FoundIn(w, Len(w))
  BY WalkIsWalked DEF Walked
<1>2. BInv => WalkIsExact
  <2>. SUFFICES ASSUME BInv PROVE WalkIsExact
    OBVIOUS
  <2>. DEFINE s == image.wasm.sections
              known == {i \in DOMAIN s : s[i].id # 0}
              E == {i \in known : s[i].id = ExportSection}
              named(i, f) == \E k \in DOMAIN s[i].exports :
                                /\ s[i].exports[k].name = f /\ s[i].exports[k].kind = 0
                                /\ \A j \in 1..k : s[i].exports[j].fits
  <2>1. s \in Seq(WasmSection)
    BY BundleAssumption DEF BInv, InputsStay, IsInput
  <2>2. DOMAIN s = 1..Len(s) /\ Len(s) \in Nat
    BY <2>1
  <2>3. /\ HasRequiredExports(image.wasm) <=>
             image.wasm.magic /\ Orderly(s, Len(s)) /\ Required \subseteq FoundIn(s, Len(s))
    BY <1>1, <2>1 DEF HasRequiredExports
  <2>4. known = Known(s, Len(s))
    BY <2>2 DEF Known
  <2>5. E = {j \in 1..Len(s) : s[j].id = ExportSection}
    BY <2>2 DEF ExportSection
  <2>6. \A i, f : f \in Functions(s[i]) <=> named(i, f)
    BY DEF Functions
  <2>7. Orderly(s, Len(s)) <=> /\ \A i \in DOMAIN s : s[i].fits
                               /\ \A i, j \in known : i < j => s[i].id < s[j].id
    BY <2>2, <2>4 DEF Orderly
  <2>8. Required \subseteq FoundIn(s, Len(s)) <=>
          \A f \in Required : \E i \in known : s[i].id = ExportSection /\ named(i, f)
    <3>. HIDE DEF named
    <3>1. FoundIn(s, Len(s)) = UNION {Functions(s[i]) : i \in E}
      BY <2>5 DEF FoundIn
    <3>. QED  BY <2>6, <3>1
  <2>9. ASSUME \A i, j \in known : i < j => s[i].id < s[j].id,
               \A f \in Required : \E i \in known : s[i].id = ExportSection /\ named(i, f)
        PROVE  Cardinality(E) = 1
    <3>. HIDE DEF named
    <3>1. PICK i : i \in E
      BY <2>9, BundleAssumption
    <3>2. ASSUME NEW j \in E PROVE j = i
      <4>1. i \in Nat /\ j \in Nat /\ i \in known /\ j \in known
        BY <2>2, <3>1
      <4>2. s[i].id = 7 /\ s[j].id = 7
        BY <3>1 DEF ExportSection
      <4>3. ~(i < j) /\ ~(j < i)
        BY <2>9, <4>1, <4>2
      <4>. QED  BY <4>1, <4>3
    <3>3. E = {i}
      BY <3>1, <3>2
    <3>. QED  BY <3>3, FS_Singleton
  <2>. HIDE DEF s, known, E, named
  <2>10. HasRequiredExports(image.wasm) <=>
           /\ image.wasm.magic
           /\ \A i \in DOMAIN s : s[i].fits
           /\ \A i, j \in known : i < j => s[i].id < s[j].id
           /\ Cardinality(E) = 1
           /\ \A f \in Required : \E i \in known : s[i].id = ExportSection /\ named(i, f)
    BY <2>3, <2>7, <2>8, <2>9
  <2>. QED  BY <2>10 DEF WalkIsExact, s, known, E, named
<1>. QED  BY <1>2, BundleInv, PTL

=============================================================================
