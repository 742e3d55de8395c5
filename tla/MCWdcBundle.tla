---------------------------- MODULE MCWdcBundle ----------------------------
(***************************************************************************)
(* Images in families, each around one good bundle: every header, every    *)
(* claim about the signature, and every other part of a bundle with one    *)
(* thing wrong.                                                            *)
(***************************************************************************)
EXTENDS WdcBundle

\* The name "relay1" stands for a resource of two kinds.
MCProfile == <<[kind |-> "sensor", name |-> "relay1", id |-> 7],
               [kind |-> "gpio", name |-> "relay1", id |-> 1],
               [kind |-> "gpio", name |-> "relay2", id |-> 2]>>
MCNameBytes == [n \in {"relay1", "relay2", "pump"} |-> 7] @@ ("app/*" :> 8)
MCDefaultMax == [f \in LimitNames |-> IF f = "stack" THEN 3 ELSE 5]
MCSigLen == [none |-> 0, ed25519 |-> 5] @@ ("hmac-sha256-dev" :> 4)
MCDevice == [soc |-> "esp32", device_class |-> "relay", board_rev |-> 2]
MCRequired == {"init", "health"}
\* As in the code: the default for an event is the policy's own maximum, the
\* others are below it.
MCRuntimeDefault == [instance_stack |-> 2, exec_stack |-> 2, heap |-> 4,
                     module |-> 9, event |-> 5]

Header(mlen, plen, alg, slen) ==
    [magic |-> TRUE, version |-> TRUE, manifest_len |-> mlen,
     payload_len |-> plen, alg |-> alg, signature_len |-> slen]

Export(name) == [name |-> name, kind |-> 0, fits |-> TRUE]
Section(id, exports) == [id |-> id, fits |-> TRUE, exports |-> exports]
Cap(kind, name, ops, n) ==
    [kind |-> kind, resource |-> name, ops |-> ops, payload |-> n, rate |-> n]

GoodCaps == <<Cap("gpio", "relay1", {"write"}, 2)>>
GoodWasm == [magic |-> TRUE,
             sections |-> <<Section(1, <<>>), Section(0, <<>>),
                            Section(7, <<Export("init"), Export("health")>>)>>]
GoodManifest ==
    [parses |-> TRUE, sha256 |-> TRUE, size_bytes |-> 2,
     alg |-> "hmac-sha256-dev", key |-> "k1", signer |-> "dev", counter |-> 1,
     abi |-> [major |-> AbiMajor, min_minor |-> AbiMinor, max_minor |-> AbiMinor],
     target |-> [soc |-> {"esp32"}, device_class |-> {"relay"}, board_rev_min |-> 2],
     limits |-> [f \in LimitNames |-> 3], features |-> TRUE,
     capabilities |-> GoodCaps]
Good == [header |-> Header(1, 2, "hmac-sha256-dev", 4), manifest |-> GoodManifest,
         manifest_hash |-> TRUE, payload_hash |-> TRUE, wasm |-> GoodWasm]

\* Every header, over a manifest that fits it.
Headers ==
    {[Good EXCEPT !.header = Header(ml, pl, a, sl), !.manifest.size_bytes = pl,
                  !.manifest.alg = a] :
        ml \in 0..Word - 1, pl \in 0..Word - 1,
        a \in {"none", "hmac-sha256-dev", "unknown"}, sl \in {0, 4, 5}}
    \cup {[Good EXCEPT !.header.magic = FALSE],
          [Good EXCEPT !.header.version = FALSE]}

\* Every claim about the signature.
Signatures ==
    {[Good EXCEPT
        !.header = Header(1, 2, a, IF a = "unknown" THEN 1 ELSE SigLen[a]),
        !.manifest.alg = b, !.manifest.key = k, !.manifest.signer = s,
        !.manifest.counter = c] :
        a \in Algs, b \in Algs, k \in {"k1", "prod-test-r9"},
        s \in {"dev", "maker", "other"}, c \in {0, 1}}

Entries == {Cap("gpio", "relay1", {"write"}, 2), Cap("gpio", "relay2", {"read"}, Word + 1),
            Cap("sensor", "relay1", {"read", "fly"}, -1),
            Cap("config", "app/*", {"read", "write"}, Word - 1),
            Cap("gpio", "pump", {"write"}, 1), Cap("laser", "relay1", {"write"}, 1),
            Cap("gpio", "relay1", {"fly"}, 1)}
Capabilities ==
    {[Good EXCEPT !.manifest.capabilities = c] :
        c \in UNION {[1..n -> Entries] : n \in 0..3}
              \cup {<<Cap("gpio", "relay1", {"write"}, 2)>> \o
                    [i \in 1..3 |-> Cap("gpio", "relay2", {"read"}, 1)]}}

Sections ==
    {Section(0, <<>>), Section(1, <<>>), Section(10, <<>>),
     [Section(10, <<>>) EXCEPT !.fits = FALSE]}
    \cup {Section(7, e) :
            e \in {<<Export("init")>>, <<Export("health")>>,
                   <<Export("init"), Export("health")>>,
                   <<Export("init"), [Export("health") EXCEPT !.kind = 3]>>,
                   <<[Export("x") EXCEPT !.fits = FALSE],
                     Export("init"), Export("health")>>}}
Payloads ==
    {[Good EXCEPT !.wasm = [magic |-> TRUE, sections |-> s]] :
        s \in UNION {[1..n -> Sections] : n \in 0..3}}
    \cup {[Good EXCEPT !.wasm.magic = FALSE]}

Limits ==
    {[Good EXCEPT !.manifest.limits = l] :
        l \in [LimitNames -> {0, 3, 5}]}
    \cup {[Good EXCEPT !.manifest.limits["request"] = 6]}

Others ==
    {[Good EXCEPT !.manifest_hash = FALSE], [Good EXCEPT !.payload_hash = FALSE],
     [Good EXCEPT !.manifest.parses = FALSE], [Good EXCEPT !.manifest.sha256 = FALSE],
     [Good EXCEPT !.manifest.size_bytes = 3], [Good EXCEPT !.manifest.features = FALSE]}
    \cup {[Good EXCEPT !.manifest.abi = [major |-> a, min_minor |-> l, max_minor |-> h]] :
            a \in {AbiMajor, AbiMajor + 1}, l \in 0..2, h \in 0..2}
    \cup {[Good EXCEPT !.manifest.target = [soc |-> s, device_class |-> d, board_rev_min |-> r]] :
            s \in SUBSET {"esp32", "other"}, d \in SUBSET {"relay", "other"}, r \in 0..3}

\* The policies: the development shell's, one with zero maxima, and those of
\* every security policy and configuration.
Made(s, f) == [gate |-> TRUE, security |-> s, verify |-> VerifyPolicy(s, f)]
Given(p) == [gate |-> FALSE, security |-> DevelopmentPolicy, verify |-> p]
Shell == Given(DefaultDevPolicy)
Zeros == Given([DefaultDevPolicy EXCEPT !.max = [f \in LimitNames |-> 0],
                                        !.max_payload = 0])
AllPolicies ==
    {Made(s, f) : s \in SecurityPolicies({"k1"}) \cup {ProductionPolicy}, f \in 0..1}
    \cup {Given(BundlePolicy(c)) :
        c \in [mode : {"dev", "production"}, floor : 0..1, key : {"", "k1"},
               verifier : {"", "maker"}]}

Asked == [instance_stack |-> 2, exec_stack |-> 2, heap |-> 4, module |-> 9,
          event |-> 4]
AllAsked == {Asked, NoConfig, [Asked EXCEPT !.instance_stack = 4, !.exec_stack = 0]}

\* Each family with the policies and configurations that matter to it.
MCInputs ==
    [image : Signatures, policy : AllPolicies, request : {Asked}]
    \cup [image : Limits, policy : {Shell, Zeros}, request : AllAsked]
    \cup [image : Headers \cup Capabilities \cup Payloads \cup Others,
          policy : {Shell, Made(DevelopmentPolicy, 1)}, request : {Asked}]

=============================================================================
