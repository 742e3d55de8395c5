----------------------------- MODULE WdcBundle -----------------------------
(***************************************************************************)
(* A bundle on its way from a slot to the runtime: the slot is read into   *)
(* a buffer (wdc_ota_read_slot_to_buffer), verified (wdc_bundle_verify),   *)
(* its payload located (wdc_bundle_get_payload) and the runtime's limits   *)
(* taken from its manifest (runtime_config_from_manifest).                 *)
(*                                                                         *)
(* Lengths and offsets are the code's 32-bit words, at Word = 2^32.  The   *)
(* bytes are abstracted to what the checks see: whether a hash matches,    *)
(* who made the signature, the manifest's values, the sections of the      *)
(* payload.  What pieces of a bundle "are" is thus what an image says, and *)
(* what the code finds out is computed.                                    *)
(***************************************************************************)
EXTENDS WdcCaps, WdcSecurity

CONSTANTS
    Inputs,         \* [image, policy, request]: what a slot may hold, the
                    \* policies, the runtime configurations asked for
    HeaderLen,      \* WDC_BUNDLE_HEADER_LEN_V1
    SigLen,         \* SigLen[alg]: the length a signature must have
    BufferCap,      \* the shell's bundle buffer
    SlotSize,       \* the size of a slot's partition
    Device,         \* [soc, device_class, board_rev]: the profile's identity
    AbiMajor, AbiMinor,
    Required,       \* the names of the functions a payload must export
    RuntimeDefault  \* WDC_RUNTIME_DEFAULT_*: what the runtime puts for a 0

Words == 0..Word - 1

\* The members of WdcRuntimeConfig.
ConfigFields == {"instance_stack", "exec_stack", "heap", "module", "event"}

\* The sections of a payload, as wasm_payload_has_required_exports meets them.
WasmSection == [id : 0..255, fits : BOOLEAN,
                exports : Seq([name : STRING, kind : 0..255, fits : BOOLEAN])]

\* What the C types say of an input: lengths, limits, counters and floors are
\* words; and what "gate" means, that a security policy made the policy.
IsInput(i) ==
    LET h == i.image.header
        m == i.image.manifest
        p == i.policy.verify
    IN  /\ {h.manifest_len, h.payload_len, h.signature_len} \subseteq Words
        /\ m.limits \in [LimitNames -> Words] /\ m.counter \in Words
        /\ m.capabilities \in Seq([kind : STRING, resource : STRING,
                                   ops : SUBSET STRING, payload : Int, rate : Int])
        /\ i.image.wasm.sections \in Seq(WasmSection)
        /\ p.max \in [LimitNames -> Words] /\ p.floor \in Words
        /\ i.request \in [ConfigFields -> Words]
        /\ i.policy.gate => p = VerifyPolicy(i.policy.security, p.floor)

ASSUME BundleAssumption ==
    /\ HeaderLen \in Nat \ {0}
    /\ BufferCap \in HeaderLen..Word - 1 /\ SlotSize \in HeaderLen..Word - 1
    /\ Required # {}
    /\ RuntimeDefault \in [ConfigFields -> Words \ {0}]
    /\ \A i \in Inputs : IsInput(i)

VARIABLES
    image, request,           \* the slot's, and the runtime configuration
    policy,                   \* [verify, gate, security]: the verify policy,
                              \* and whether a security policy made it
    stage,                    \* how far the bundle has come
    status,                   \* the status the boot path has
    buffer_len,               \* how much of the buffer is the bundle
    result,                   \* s_active_verify
    payload,                  \* [offset, len]: what the runtime is given
    config                    \* the runtime's configuration (runtime->config)

vars == <<image, policy, request, stage, status, buffer_len, result, payload,
          config>>

NoPayload == [offset |-> 0, len |-> 0]
NoConfig == [f \in ConfigFields |-> 0]
NoResult == [status |-> "none", header |-> <<>>, alg |-> "", caps |-> <<>>,
             signature_ok |-> FALSE, anti_rollback_ok |-> FALSE]

Init ==
    /\ \E i \in Inputs :
          image = i.image /\ policy = i.policy /\ request = i.request
    /\ stage = "slot" /\ status = "OK" /\ buffer_len = 0
    /\ result = NoResult /\ payload = NoPayload /\ config = NoConfig

-----------------------------------------------------------------------------
(***************************************************************************)
(* wdc_bundle_parse_header                                                 *)
(***************************************************************************)

Plus(a, b) == (a + b) % Word

\* The offsets, each the sum of a word and a length.
Offsets(h) ==
    LET p == Plus(HeaderLen, h.manifest_len)
        s == Plus(p, h.payload_len)
    IN  [manifest |-> HeaderLen, payload |-> p, signature |-> s,
         total |-> Plus(s, h.signature_len)]

\* An offset below the one it was made from has wrapped.
NoWrap_m1(o) == o.manifest <= o.payload /\ o.payload <= o.signature   \* mutant
NoWrap(o) ==
    /\ o.manifest <= o.payload
    /\ o.payload <= o.signature
    /\ o.signature <= o.total

ParseHeader(h, len) ==
    FirstError(<<
        Check(len >= HeaderLen, "BAD_LENGTH"),
        Check(h.magic, "BAD_ENCODING"),
        Check(h.version, "UNSUPPORTED_ABI"),
        Check(h.manifest_len # 0 /\ h.payload_len # 0, "BAD_LENGTH"),
        Check(h.alg = "unknown" \/ h.signature_len = SigLen[h.alg], "BAD_LENGTH"),
        Check(NoWrap(Offsets(h)), "BAD_LENGTH"),
        Check(len = HeaderLen \/ Offsets(h).total <= len, "BAD_LENGTH")>>)

(***************************************************************************)
(* wasm_payload_has_required_exports.  A payload is a sequence of sections *)
(* [id, fits, exports]; fits: the length is readable and does not run past *)
(* the payload; an export is [name, kind, fits].                           *)
(***************************************************************************)

ExportSection == 7

\* wasm_export_section_has_function stops at an entry it cannot read.
Functions(section) ==
    {section.exports[i].name :
        i \in {j \in DOMAIN section.exports :
                   /\ section.exports[j].kind = 0
                   /\ \A k \in 1..j : section.exports[k].fits}}

InOrder_m1(id, previous) == id = 0 \/ id >= previous   \* mutant: a repeat passes
InOrder(id, previous) == id = 0 \/ id > previous

\* One turn of the loop.
WalkStep(s, section) ==
    [ok       |-> s.ok /\ section.fits /\ InOrder(section.id, s.previous),
     previous |-> IF section.id = 0 THEN s.previous ELSE section.id,
     found    |-> IF section.id = ExportSection
                  THEN s.found \cup Functions(section) ELSE s.found]

Walk(w) ==
    LET after[n \in 0..Len(w)] ==
            IF n = 0 THEN [ok |-> TRUE, previous |-> 0, found |-> {}]
            ELSE WalkStep(after[n - 1], w[n])
    IN  after[Len(w)]

HasRequiredExports(w) ==
    w.magic /\ Walk(w.sections).ok /\ Required \subseteq Walk(w.sections).found

-----------------------------------------------------------------------------
(***************************************************************************)
(* wdc_bundle_verify                                                       *)
(***************************************************************************)

\* A maximum of 0 stands for the default.
MaxOf(p, f) == IF p.max[f] = 0 THEN DefaultMax[f] ELSE p.max[f]
MaxPayload(p) == IF p.max_payload = 0 THEN DefaultPayloadMax ELSE p.max_payload

\* optional_text_matches
Matches(wanted, actual) == wanted \in {"", actual}

\* The signature is over header, manifest and payload; signer is who made it,
\* with the algorithm the header names.
SignatureOk_m1(h, m, p) ==   \* mutant: the verifier's answer is ignored
    CASE h.alg = "none"            -> ~p.production /\ p.unsigned
      [] h.alg = "hmac-sha256-dev" -> ~p.production /\ p.dev_key /\ m.signer = "dev"
      [] h.alg = "ed25519"         -> p.verifier # "" /\ m.alg = "ed25519"
      [] OTHER                     -> FALSE
SignatureOk(h, m, p) ==
    CASE h.alg = "none"            -> ~p.production /\ p.unsigned
      [] h.alg = "hmac-sha256-dev" -> ~p.production /\ p.dev_key /\ m.signer = "dev"
      [] h.alg = "ed25519"         -> /\ p.verifier # "" /\ m.alg = "ed25519"
                                      /\ m.signer = p.verifier
      [] OTHER                     -> FALSE

AbiOk(abi) ==
    abi.major = AbiMajor /\ abi.min_minor <= AbiMinor /\ AbiMinor <= abi.max_minor

\* target_array_contains, board_rev_compatible; a revision is its place in
\* the order of texts, 0 the empty one.
TargetOk(t) ==
    /\ Device.soc \in t.soc /\ Device.device_class \in t.device_class
    /\ t.board_rev_min # 0 /\ Device.board_rev >= t.board_rev_min

LimitsOk(m, p) ==
    (\A f \in LimitNames : m.limits[f] <= MaxOf(p, f)) /\ m.features

AntiRollbackOk(m, p) == m.counter >= p.floor

\* wdc_bundle_parse_manifest_summary: a member that is missing, of the wrong
\* type or too long is refused alike, whichever it is.
ManifestStatus(m) == IF m.parses THEN "OK" ELSE "BAD_ENCODING"

VerifyStatus(i, len, p) ==
    LET h == i.header
        m == i.manifest
    IN  FirstError(<<
            Check(ParseHeader(h, len) = "OK", ParseHeader(h, len)),
            Check(Offsets(h).total = len, "BAD_LENGTH"),
            Check(h.payload_len <= MaxPayload(p), "BAD_LENGTH"),
            Check(i.manifest_hash, "CONTRACT_VIOLATION"),
            Check(i.payload_hash, "CONTRACT_VIOLATION"),
            Check(ManifestStatus(m) = "OK", ManifestStatus(m)),
            Check(m.sha256 /\ m.size_bytes = h.payload_len, "CONTRACT_VIOLATION"),
            Check(m.alg = h.alg, "CONTRACT_VIOLATION"),
            Check(Matches(p.alg, m.alg), "CONTRACT_VIOLATION"),
            Check(Matches(p.key, m.key), "CONTRACT_VIOLATION"),
            Check(SignatureOk(h, m, p), "CONTRACT_VIOLATION"),
            Check(AbiOk(m.abi), "UNSUPPORTED_ABI"),
            Check(TargetOk(m.target), "INVALID_RESOURCE"),
            Check(LimitsOk(m, p), "BAD_LENGTH"),
            Check(AntiRollbackOk(m, p), "CONTRACT_VIOLATION"),
            Check(CapsStatus(m.capabilities) = "OK", CapsStatus(m.capabilities)),
            Check(HasRequiredExports(i.wasm), "NOT_AVAILABLE")>>)

\* The result; of a bundle that is refused only the status is used.
VerifyResult(i, len, p) ==
    LET st == VerifyStatus(i, len, p)
    IN  IF st # "OK" THEN [NoResult EXCEPT !.status = st]
        ELSE [status |-> st, header |-> Offsets(i.header), alg |-> i.manifest.alg,
              caps |-> CapabilitySet(i.manifest.capabilities),
              signature_ok |-> SignatureOk(i.header, i.manifest, p),
              anti_rollback_ok |-> AntiRollbackOk(i.manifest, p)]

-----------------------------------------------------------------------------
(***************************************************************************)
(* The boot path                                                           *)
(***************************************************************************)

inputs == <<image, policy, request>>

Refused(st) ==
    /\ stage' = "refused" /\ status' = st
    /\ UNCHANGED <<inputs, buffer_len, payload, config>>

\* wdc_ota_read_slot_to_buffer: the header, then what the header says is left.
ReadSlot ==
    LET st == ParseHeader(image.header, HeaderLen)
        total == Offsets(image.header).total
    IN  /\ stage = "slot"
        /\ \/ st # "OK" /\ Refused(st) /\ UNCHANGED result
           \/ /\ st = "OK" /\ (total > BufferCap \/ total > SlotSize)
              /\ Refused("BAD_LENGTH") /\ UNCHANGED result
           \/ /\ st = "OK" /\ total <= BufferCap /\ total <= SlotSize
              /\ buffer_len' = total /\ stage' = "read"
              /\ UNCHANGED <<inputs, status, result, payload, config>>

\* No partition, or a flash error.
ReadFails ==
    /\ stage = "slot"
    /\ \E st \in {"NOT_AVAILABLE", "IO"} : Refused(st)
    /\ UNCHANGED result

\* wdc_app_boot_active_slot: wdc_bundle_verify
Verify ==
    /\ stage = "read"
    /\ result' = VerifyResult(image, buffer_len, policy.verify)
    /\ \/ /\ result'.status = "OK"
          /\ stage' = "verified"
          /\ UNCHANGED <<inputs, status, buffer_len, payload, config>>
       \/ result'.status # "OK" /\ Refused(result'.status)

\* wdc_bundle_get_payload
PayloadInside(o, plen, len) ==
    o.payload <= Plus(o.payload, plen) /\ Plus(o.payload, plen) <= len

\* runtime_config_from_manifest: each value is the one asked for unless that is
\* 0 or more than the manifest allows.  No configuration at all (NULL) comes to
\* the same as one of zeros.
Capped_m1(asked, allowed) ==   \* mutant: a 0 is left to the runtime's default
    IF asked > allowed THEN allowed ELSE asked
Capped(asked, allowed) ==
    IF asked = 0 \/ asked > allowed THEN allowed ELSE asked

ConfigFromManifest(r, i) ==
    [instance_stack |-> Capped(r.instance_stack, i.manifest.limits["stack"]),
     exec_stack     |-> Capped(r.exec_stack, i.manifest.limits["stack"]),
     heap           |-> Capped(r.heap, i.manifest.limits["linear_memory"]),
     module         |-> Capped(r.module, i.header.payload_len),
     event          |-> Capped(r.event, i.manifest.limits["event"])]

\* wdc_runtime_apply_default_config: what is still 0 becomes the default.
WithDefaults(c) ==
    [f \in ConfigFields |-> IF c[f] = 0 THEN RuntimeDefault[f] ELSE c[f]]

\* From the payload to wdc_runtime_init, which takes the configuration over.
\* Between verification and this the payload's hash is compared with the one
\* in the metadata, which WdcBoot models (BundleIsExpected).
TakePayload ==
    LET inside == PayloadInside(result.header, image.header.payload_len, buffer_len)
    IN  /\ stage = "verified"
        /\ IF inside
           THEN /\ payload' = [offset |-> result.header.payload,
                               len |-> image.header.payload_len]
                /\ config' = WithDefaults(ConfigFromManifest(request, image))
                /\ stage' = "loaded"
                /\ UNCHANGED <<inputs, status, buffer_len, result>>
           ELSE Refused("BAD_LENGTH") /\ UNCHANGED result

Done == stage \in {"refused", "loaded"} /\ UNCHANGED vars

Next == ReadSlot \/ ReadFails \/ Verify \/ TakePayload \/ Done

Spec == Init /\ [][Next]_vars

-----------------------------------------------------------------------------
(***************************************************************************)
(* Properties                                                              *)
(***************************************************************************)

AcceptedBundle == stage \in {"verified", "loaded"}

\* A bundle that is accepted fills the buffer exactly: header, manifest,
\* payload and signature follow each other, without gap, overlap or unsigned
\* tail, in whole numbers and not only modulo 2^32, within the buffer and the
\* slot; the runtime is given the payload and nothing else.
LayoutTiles ==
    AcceptedBundle =>
        LET h == image.header
            o == result.header
        IN  /\ o.payload = o.manifest + h.manifest_len
            /\ o.signature = o.payload + h.payload_len
            /\ buffer_len = o.signature + h.signature_len
            /\ buffer_len <= BufferCap /\ buffer_len <= SlotSize
            /\ stage = "loaded" => /\ payload.offset = o.payload
                                   /\ payload.offset + payload.len = o.signature

\* In production a bundle is accepted only if the verifier vouches for the
\* signer of these bytes under the algorithm the header and the manifest both
\* name, and only if its counter is not below the floor: neither an unsigned
\* bundle, a development key nor another algorithm gets past the checks,
\* whatever policy function made the policy.
ProductionIsAuthentic ==
    AcceptedBundle /\ policy.verify.production =>
        /\ image.header.alg = "ed25519" /\ image.manifest.alg = "ed25519"
        /\ image.manifest.signer = policy.verify.verifier
        /\ policy.verify.verifier # ""
        /\ image.manifest.counter >= policy.verify.floor

\* The two gates agree: a bundle that wdc_bundle_verify accepts under the
\* policy made from a security policy is also accepted when the result is
\* judged by wdc_security_validate_bundle_result under that security policy,
\* for every combination of its flags.
GatesAgree ==
    AcceptedBundle /\ policy.gate => SecondGate(policy.security, result) = "OK"

\* The rights an accepted bundle gets are those its manifest writes down, in
\* the same order: each on the profile's resource of that kind and that name,
\* with the operations the host knows, and with the limits as written, for
\* every limit that fits 32 bits.
GrantsAreWritten ==
    AcceptedBundle =>
        LET written == image.manifest.capabilities
        IN  /\ Len(result.caps) = Len(written)
            /\ \A i \in DOMAIN written :
                  LET c == result.caps[i]
                      w == written[i]
                  IN  /\ c.kind = w.kind /\ c.ops \subseteq w.ops /\ c.ops # {}
                      /\ \/ c.kind \in Unbound /\ c.resource = 0
                         \/ \E r \in Range(Profile) :
                               /\ r.kind = w.kind /\ r.name = w.resource
                               /\ r.id = c.resource
                      /\ \A f \in {"payload", "rate"} :
                            w[f] \in 0..Word - 1 => c[f] = w[f]

\* Which of the manifest's limits bounds a member of the configuration.
LimitOf == [instance_stack |-> "stack", exec_stack |-> "stack",
            heap |-> "linear_memory", event |-> "event"]

\* The sizes the runtime runs with are positive, and each is within what the
\* manifest, the policy (its zeros read as defaults) and the shell allow, or it
\* is the runtime's own default: exactly when the manifest's limit is 0.  A
\* module larger than the payload is never allowed for, whatever is asked.
RunsWithinLimits ==
    stage = "loaded" =>
        /\ \A f \in DOMAIN LimitOf :
              LET limit == image.manifest.limits[LimitOf[f]]
              IN  IF limit = 0 THEN config[f] = RuntimeDefault[f]
                  ELSE /\ config[f] > 0 /\ config[f] <= limit
                       /\ config[f] <= MaxOf(policy.verify, LimitOf[f])
                       /\ request[f] # 0 => config[f] <= request[f]
        /\ config.module > 0 /\ config.module <= payload.len

\* The section walk against what a payload is: it accepts exactly the payloads
\* whose sections all fit, whose non-custom sections have strictly increasing
\* ids, and whose one export section exports every required function before
\* the first entry that cannot be read.
WalkIsExact ==
    LET s == image.wasm.sections
        known == {i \in DOMAIN s : s[i].id # 0}
    IN  HasRequiredExports(image.wasm) <=>
        /\ image.wasm.magic
        /\ \A i \in DOMAIN s : s[i].fits
        /\ \A i, j \in known : i < j => s[i].id < s[j].id
        /\ Cardinality({i \in known : s[i].id = ExportSection}) = 1
        /\ \A f \in Required : \E i \in known :
              /\ s[i].id = ExportSection
              /\ \E k \in DOMAIN s[i].exports :
                    /\ s[i].exports[k].name = f /\ s[i].exports[k].kind = 0
                    /\ \A j \in 1..k : s[i].exports[j].fits

=============================================================================
