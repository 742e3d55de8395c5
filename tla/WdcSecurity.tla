---------------------------- MODULE WdcSecurity ----------------------------
(***************************************************************************)
(* The security policies (wdc_security.c, and the defaults of              *)
(* wdc_bundle.c): how a bundle verify policy is made from a security       *)
(* policy or from a mode, and the gate that judges a verification result   *)
(* a second time.  Strings are names, "" the empty one; a NULL string is   *)
(* "" too where the code does not tell them apart.                         *)
(***************************************************************************)
EXTENDS Checks

\* The policy's limits on a manifest, with the maximum each is checked against
\* in the names of WdcBundleVerifyPolicy.
LimitNames == {"linear_memory", "stack", "event", "request", "response"}

CONSTANTS
    DefaultMax,        \* WDC_BUNDLE_DEFAULT_MAX_*, for LimitNames
    DefaultPayloadMax  \* WDC_BUNDLE_DEFAULT_MAX_PAYLOAD_BYTES

ASSUME SecurityAssumption ==
    DefaultMax \in [LimitNames -> Nat] /\ DefaultPayloadMax \in Nat

Algs == {"none", "hmac-sha256-dev", "ed25519", "unknown"}

\* WdcSecurityPolicy, the members that reach a bundle
SecurityPolicies(keys) ==
    [production : BOOLEAN, require : BOOLEAN, reject_dev : BOOLEAN,
     anti_rollback : BOOLEAN,
     alg : {"null", "", "ed25519", "hmac-sha256-dev"},
     key : keys \cup {""}]

DevelopmentPolicy ==
    [production |-> FALSE, require |-> FALSE, reject_dev |-> FALSE,
     anti_rollback |-> FALSE, alg |-> "", key |-> ""]

ProductionPolicy ==
    [production |-> TRUE, require |-> TRUE, reject_dev |-> TRUE,
     anti_rollback |-> TRUE, alg |-> "ed25519", key |-> ""]

\* wdc_bundle_make_default_dev_policy; a verifier is the signer it vouches
\* for, "" if it is NULL.
DefaultDevPolicy ==
    [production |-> FALSE, unsigned |-> FALSE, dev_key |-> TRUE,
     verifier |-> "", alg |-> "", key |-> "", floor |-> 0,
     max |-> DefaultMax, max_payload |-> DefaultPayloadMax]

\* wdc_bundle_make_default_production_policy
DefaultProductionPolicy ==
    [DefaultDevPolicy EXCEPT
        !.production = TRUE, !.dev_key = FALSE,
        !.alg = "ed25519", !.key = "prod-test-r9"]

\* The default of required_signature_alg
RequiredAlg(s) == IF s.alg = "null" THEN "ed25519" ELSE s.alg

\* wdc_security_make_bundle_verify_policy, for the floor of the metadata
VerifyPolicy_m1(s, floor) ==   \* mutant: reject_dev_signature forgotten
    [DefaultDevPolicy EXCEPT
        !.production = s.production,
        !.unsigned = ~s.production /\ ~s.require,
        !.dev_key = ~s.production,
        !.floor = IF s.anti_rollback THEN floor ELSE @,
        !.alg = IF s.require THEN RequiredAlg(s) ELSE @,
        !.key = s.key]
VerifyPolicy(s, floor) ==
    [DefaultDevPolicy EXCEPT
        !.production = s.production,
        !.unsigned = ~s.production /\ ~s.require,
        !.dev_key = ~(s.production \/ s.reject_dev),
        !.floor = IF s.anti_rollback THEN floor ELSE @,
        !.alg = IF s.require THEN RequiredAlg(s) ELSE @,
        !.key = s.key]

\* wdc_security_make_bundle_policy: c is the configuration, its mode "dev" or
\* "production".
BundlePolicy(c) ==
    IF c.mode = "dev"
    THEN [DefaultDevPolicy EXCEPT !.floor = c.floor]
    ELSE [DefaultProductionPolicy EXCEPT
             !.floor = c.floor,
             !.key = IF c.key # "" THEN c.key ELSE @,
             !.verifier = c.verifier]

\* wdc_security_validate_bundle_result
SecondGate(s, result) ==
    FirstError(<<
        Check(result.status = "OK", result.status),
        Check(~s.require \/ result.signature_ok, "CONTRACT_VIOLATION"),
        Check(~(s.reject_dev /\ result.alg = "hmac-sha256-dev"),
              "CONTRACT_VIOLATION"),
        Check(~s.require \/ s.alg \in {"null", "", result.alg}, "CONTRACT_VIOLATION"),
        Check(~s.anti_rollback \/ result.anti_rollback_ok,
              "CONTRACT_VIOLATION")>>)

=============================================================================
