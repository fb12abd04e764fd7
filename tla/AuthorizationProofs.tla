------------------------- MODULE AuthorizationProofs -------------------------
(***************************************************************************)
(* Authority is backed by the server and legacy authority is explained, for *)
(* any number of concurrent checks and any tokens.                          *)
(*                                                                         *)
(* The argument: a check that waits for the attestation's key still holds  *)
(* the body whose record it checked, that record is one the server signed  *)
(* for exactly this request, and what was signed stays signed.             *)
(***************************************************************************)
EXTENDS Authorization, TLAPS

USE AuthorizationAssumption

-----------------------------------------------------------------------------
(* The inductive invariant. *)

\* The server signed r, and r allows the request of check c.
BackedBy(c, r) ==
  /\ r \in signed
  /\ r.decision = "ALLOWED"
  /\ r.nonce = c
  /\ r.intent = context[c].commit
  /\ r.surface = context[c].surface
  /\ config.pin # None => r.policy = config.pin

\* A check that has not returned holds no authority.
OpenInv == \A c \in Checks : pc[c] # "done" => outcome[c] = NoResult

\* A check has been answered exactly when its response head has arrived.
ReachedInv ==
  \A c \in Checks :
    /\ pc[c] \in {"idle", "sent"} => reached[c] = FALSE
    /\ pc[c] \in {"head", "record", "attestation"} => reached[c] = TRUE

\* A body under verification has a known decision.
LiteralInv ==
  \A c \in Checks : pc[c] \in Verifying =>
    normalize_decision_literal(body[c].status) \in {"Allowed", "Denied", "Pending"}

\* While the attestation is pending, the record has been found to be backed.
PendingInv ==
  \A c \in Checks : pc[c] = "attestation" =>
    /\ BackedBy(c, body[c].record)
    /\ context[c].execution
    /\ body[c].attestation # None

AuthInv ==
  /\ OpenInv
  /\ ReachedInv
  /\ LiteralInv
  /\ PendingInv
  /\ AuthorityIsBacked
  /\ LegacyIsExplained

-----------------------------------------------------------------------------
(* What the operators of the verification guarantee. *)

LEMMA LiteralType ==
  \A literal : normalize_decision_literal(literal)
                 \in {"Allowed", "Denied", "Pending", "Malformed"}
BY DEF normalize_decision_literal

\* A damaged record is never accepted.
LEMMA DamagedRecordFails ==
  ASSUME NEW b, b.record \in Damaged, NEW x, NEW at
  PROVE  RecordFailure(b, config, x, Origin, at) # "ok"
BY DEF Damaged, RecordFailure

\* An accepted record names the request and the decision, and the pinned policy.
LEMMA AcceptedRecord ==
  ASSUME NEW b, b.record.fault = "none", NEW x, NEW at,
         RecordFailure(b, config, x, Origin, at) = "ok"
  PROVE  /\ b.record.nonce = x.nonce
         /\ b.record.intent = x.commit
         /\ b.record.surface = x.surface
         /\ config.pin # None => b.record.policy = config.pin
         /\ normalize_decision_literal(b.status) = "Allowed" =>
              b.record.decision = "ALLOWED"
<1> DEFINE r == b.record
<1>1. /\ validate_decision_claims(r, Origin, x, b,
                                  normalize_decision_literal(b.status), at) = "ok"
      /\ validate_policy_pin(r, config.pin) = "ok"
  BY DEF RecordFailure
<1>2. /\ validate_decision_identity(r, Origin, x.surface) = "ok"
      /\ validate_signed_decision(r, normalize_decision_literal(b.status)) = "ok"
      /\ validate_decision_bindings(r, x) = "ok"
  BY <1>1 DEF validate_decision_claims
<1>3. r.surface = x.surface
  BY <1>2 DEF validate_decision_identity
<1>4. r.nonce = x.nonce /\ r.intent = x.commit
  BY <1>2 DEF validate_decision_bindings
<1>5. config.pin # None => r.policy = config.pin
  BY <1>1 DEF validate_policy_pin
<1>6. normalize_decision_literal(b.status) = "Allowed" => r.decision = "ALLOWED"
  BY <1>2 DEF validate_signed_decision, normalize_decision_literal
<1>7. QED BY <1>3, <1>4, <1>5, <1>6

\* The results of a verification.
VerificationType ==
  [decision : {"Allowed", "Denied", "Pending"}, reason : Reasons,
   authority : {"none", "legacy", "verified"}]

\* What a call reports has no more authority than the verification it reports.
LEMMA CallAuthority ==
  \A c \in Checks, v \in VerificationType : \A b :
    /\ CallResult(c, v, b).authority \in {"none", v.authority}
    /\ CallResult(c, v, b).failOpen = FALSE
    /\ CallResult(c, v, b).authority = "verified" =>
         CallResult(c, v, b).policy = b.record.policy
<1> TAKE c \in Checks, v \in VerificationType
<1> TAKE b
<1>1. CASE v.decision = "Allowed"
  BY <1>1 DEF CallResult, CheckResult, DirectResult, Result
<1>2. CASE v.decision = "Pending"
  BY <1>2 DEF CallResult, CheckResult, DirectResult, Result
<1>3. CASE v.decision = "Denied"
  BY <1>3 DEF CallResult, CheckResult, DirectResult, Result
<1>4. QED BY <1>1, <1>2, <1>3 DEF VerificationType

\* Falling back grants nothing but the legacy capability of Warn mode.
LEMMA FallbackAuthority ==
  ASSUME NEW mode, NEW decision, NEW reason
  PROVE  /\ fallback(mode, decision, reason).authority \in {"none", "legacy"}
         /\ fallback(mode, decision, reason).authority = "legacy" => mode = "Warn"
BY DEF fallback, VerificationResult

LEMMA EarlyAuthority ==
  ASSUME NEW b
  PROVE  /\ EarlyResult(b, config).authority \in {"none", "legacy"}
         /\ EarlyResult(b, config).authority = "legacy" => config.mode = "Warn"
BY FallbackAuthority DEF EarlyResult, denied, VerificationResult

\* Every failure of a record or of an attestation is one of the reasons.
LEMMA FailureReason ==
  ASSUME TypeOK, NEW b \in Bodies, b.record # None, NEW x, NEW at
  PROVE  RecordFailure(b, config, x, Origin, at) \in Reasons
<1>1. b.record.fault \in {"none", "malformed", "signature"}
  BY DEF TypeOK, Bodies, Damaged
<1>2. /\ \A r, d : validate_times(r, d) \in {"ok", "expired"}
      /\ \A r, o, u : validate_decision_identity(r, o, u)
                         \in {"ok", "malformed", "audience", "surface"}
      /\ \A r, d : validate_signed_decision(r, d)
                      \in {"ok", "malformed", "literal_mismatch"}
      /\ \A r, y : validate_decision_bindings(r, y)
                      \in {"ok", "malformed", "intent_binding", "policy_binding", "nonce"}
      /\ \A r, y, z, d : validate_decision_surface_claims(r, y, z, d) \in {"ok", "surface"}
      /\ \A r, y : validate_policy_pin(r, y) \in {"ok", "policy_binding"}
  BY DEF validate_times, validate_decision_identity, validate_signed_decision,
     validate_decision_bindings, validate_decision_surface_claims, validate_policy_pin
<1>3. \A d : validate_decision_claims(b.record, Origin, x, b, d, at) \in Reasons
  BY <1>2 DEF validate_decision_claims, Reasons
<1>4. QED BY <1>1, <1>2, <1>3 DEF RecordFailure, Reasons

LEMMA AttestationReason ==
  ASSUME NEW b \in Bodies, b.attestation # None, NEW at
  PROVE  AttestationFailure(b, Issuer, at) \in Reasons
<1>1. b.attestation.fault \in {"none", "malformed", "signature"}
  BY DEF Bodies, Damaged, Attested, AttestationOf
<1>2. validate_attestation_claims(b.attestation, b.record, Issuer, at)
        \in {"ok", "expired", "audience", "attestation_mismatch"}
  BY DEF validate_attestation_claims
<1>3. QED BY <1>1, <1>2 DEF AttestationFailure, Reasons

LEMMA CallResultType ==
  ASSUME TypeOK, NEW c \in Checks, NEW b \in Bodies, NEW v \in VerificationType,
         v.authority = "verified" => b.record \in signed
  PROVE  CallResult(c, v, b) \in ResultType
<1>1. (IF v.authority = "verified" THEN b.record.policy ELSE None) \in Policies \cup {None}
  BY DEF TypeOK
<1>2. b.hold \in Holds \cup {None}
  BY DEF Bodies
<1>3. CheckResult(v, b) \in ResultType
  <2>1. CASE v.decision = "Allowed"
    BY <1>1, <2>1 DEF CheckResult, Result, ResultType, CallCodes, VerificationType
  <2>2. CASE v.decision = "Pending"
    BY <1>1, <1>2, <2>2 DEF CheckResult, Result, ResultType, CallCodes, VerificationType
  <2>3. CASE v.decision = "Denied"
    BY <1>1, <2>3 DEF CheckResult, Result, ResultType, CallCodes, VerificationType
  <2>4. QED BY <2>1, <2>2, <2>3 DEF VerificationType
<1>4. DirectResult(v, b) \in ResultType
  BY <1>1 DEF DirectResult, Result, ResultType, VerificationType
<1>5. QED BY <1>3, <1>4 DEF CallResult

LEMMA FallbackType ==
  ASSUME NEW mode, NEW decision \in {"Allowed", "Denied", "Pending"}, NEW reason \in Reasons
  PROVE  fallback(mode, decision, reason) \in VerificationType
BY DEF fallback, VerificationResult, VerificationType

LEMMA EarlyType ==
  ASSUME NEW b, EarlyReason(b, config) # "ok"
  PROVE  EarlyResult(b, config) \in VerificationType
<1>1. EarlyReason(b, config) \in Reasons
  BY DEF EarlyReason, Reasons
<1>2. CASE EarlyReason(b, config) = "record_missing"
  <2>1. normalize_decision_literal(b.status) \in {"Allowed", "Denied", "Pending"}
    BY <1>2, LiteralType DEF EarlyReason
  <2>2. QED BY <1>1, <1>2, <2>1, FallbackType DEF EarlyResult
<1>3. CASE EarlyReason(b, config) # "record_missing"
  BY <1>1, <1>3 DEF EarlyResult, denied, VerificationResult, VerificationType
<1>4. QED BY <1>2, <1>3

-----------------------------------------------------------------------------
(* The ways a step can go. *)

\* Whether ending the call of c with this result is justified.
Justified(c, result) ==
  /\ result \in ResultType
  /\ result.authority = "verified" =>
       /\ context[c].execution
       /\ \E r \in signed : BackedBy(c, r) /\ r.policy = result.policy
  /\ result.authority = "legacy" =>
       IF reached'[c]
         THEN config.mode = "Warn" /\ ~result.failOpen
         ELSE config.failMode = "Open" /\ result.failOpen

\* A call that ends with a justified result keeps the invariant.
LEMMA FinishKeeps ==
  ASSUME TypeOK, AuthInv, NEW c \in Checks, NEW result,
         reached' = reached \/ reached' = [reached EXCEPT ![c] = TRUE],
         UNCHANGED <<config, now, signed, ruled, context>>,
         Finish(c, result), Justified(c, result)
  PROVE  TypeOK' /\ AuthInv'
<1>1. /\ pc' = [pc EXCEPT ![c] = "done"]
      /\ outcome' = [outcome EXCEPT ![c] = result]
      /\ body' = [body EXCEPT ![c] = None]
      /\ http' = [http EXCEPT ![c] = "none"]
      /\ left' = [left EXCEPT ![c] = 0]
  BY DEF Finish
<1>2. Bodies' = Bodies
  BY DEF Bodies, Attested
<1>3. TypeOK'
  <2>1. /\ body' \in [Checks -> Bodies' \cup {None}]
        /\ \A d \in Checks : pc'[d] \in Verifying =>
             body'[d] \in Bodies' /\ body'[d].record # None
    BY <1>1, <1>2 DEF TypeOK, Verifying
  <2>2. outcome' \in [Checks -> ResultType]
    BY <1>1 DEF TypeOK, Justified
  <2>3. reached' \in [Checks -> BOOLEAN]
    BY DEF TypeOK
  <2>4. left' \in [Checks -> 0..ResolveTimeout]
    BY <1>1 DEF TypeOK
  <2>5. /\ pc' \in [Checks -> {"idle", "sent", "head", "record", "attestation", "done"}]
        /\ http' \in [Checks -> {"ok", "forbidden", "none"}]
    BY <1>1 DEF TypeOK
  <2>6. QED BY <2>1, <2>2, <2>3, <2>4, <2>5 DEF TypeOK
<1>4. OpenInv' /\ ReachedInv' /\ LiteralInv' /\ PendingInv'
  BY <1>1 DEF TypeOK, AuthInv, OpenInv, ReachedInv, LiteralInv, PendingInv, BackedBy, Verifying
<1>5. AuthorityIsBacked'
  BY <1>1 DEF TypeOK, AuthInv, AuthorityIsBacked, AllowedByServer, Justified, BackedBy
<1>6. LegacyIsExplained'
  <2>1. \A d \in Checks : d # c => reached'[d] = reached[d] /\ outcome'[d] = outcome[d]
    BY <1>1 DEF TypeOK
  <2>2. outcome'[c] = result
    BY <1>1 DEF TypeOK
  <2>3. QED BY <2>1, <2>2 DEF AuthInv, LegacyIsExplained, Justified
<1>7. QED BY <1>3, <1>4, <1>5, <1>6 DEF AuthInv

\* A verification without proof justifies the result that reports it.
LEMMA UnprovedJustified ==
  ASSUME TypeOK, NEW c \in Checks, NEW b \in Bodies, NEW v \in VerificationType,
         v.authority \in {"none", "legacy"},
         v.authority = "legacy" => config.mode = "Warn",
         reached'[c] = TRUE
  PROVE  Justified(c, CallResult(c, v, b))
<1> DEFINE result == CallResult(c, v, b)
<1>1. result \in ResultType
  BY CallResultType
<1>3. result.authority \in {"none", v.authority} /\ result.failOpen = FALSE
  BY CallAuthority
<1> HIDE DEF result
<1>4. Justified(c, result)
  BY <1>1, <1>3 DEF Justified
<1>5. QED BY <1>4 DEF result

\* What may arrive only grows as the server signs more records.
LEMMA BodiesGrow ==
  ASSUME signed \subseteq signed'
  PROVE  Bodies \subseteq Bodies'
<1>1. Attested \subseteq Attested'
  BY DEF Attested
<1>2. QED BY <1>1 DEF Bodies

\* Verification that begins keeps the invariant.
LEMMA BeginKeeps ==
  ASSUME TypeOK, AuthInv, NEW c \in Checks, NEW b \in Bodies,
         pc[c] \in {"sent", "head"},
         reached' = [reached EXCEPT ![c] = TRUE],
         UNCHANGED <<config, now, signed, ruled, context>>,
         BeginVerification(c, b)
  PROVE  TypeOK' /\ AuthInv'
<1>1. CASE EarlyReason(b, config) # "ok" /\ Finish(c, CallResult(c, EarlyResult(b, config), b))
  <2>1. EarlyResult(b, config) \in VerificationType
    BY <1>1, EarlyType
  <2>2. /\ EarlyResult(b, config).authority \in {"none", "legacy"}
        /\ EarlyResult(b, config).authority = "legacy" => config.mode = "Warn"
    BY EarlyAuthority
  <2>3. Justified(c, CallResult(c, EarlyResult(b, config), b))
    <3>1. reached'[c] = TRUE
      BY DEF TypeOK
    <3>2. QED BY <2>1, <2>2, <3>1, UnprovedJustified
  <2>4. QED BY <1>1, <2>3, FinishKeeps
<1>2. CASE /\ EarlyReason(b, config) = "ok"
           /\ pc' = [pc EXCEPT ![c] = "record"]
           /\ body' = [body EXCEPT ![c] = b]
           /\ http' = [http EXCEPT ![c] = "none"]
           /\ left' = [left EXCEPT ![c] = ResolveTimeout]
           /\ UNCHANGED outcome
  <2>1. /\ normalize_decision_literal(b.status) \in {"Allowed", "Denied", "Pending"}
        /\ b.record # None
    BY <1>2, LiteralType DEF EarlyReason
  <2>2. Bodies' = Bodies
    BY DEF Bodies, Attested
  <2>3. /\ body' \in [Checks -> Bodies' \cup {None}]
        /\ \A d \in Checks : pc'[d] \in Verifying =>
             body'[d] \in Bodies' /\ body'[d].record # None
    BY <1>2, <2>1, <2>2 DEF TypeOK, Verifying
  <2>4. /\ left' \in [Checks -> 0..ResolveTimeout]
        /\ pc' \in [Checks -> {"idle", "sent", "head", "record", "attestation", "done"}]
        /\ http' \in [Checks -> {"ok", "forbidden", "none"}]
    BY <1>2 DEF TypeOK
  <2>5. TypeOK'
    BY <1>2, <2>3, <2>4 DEF TypeOK
  <2>6. OpenInv' /\ ReachedInv' /\ LiteralInv' /\ PendingInv'
    BY <1>2, <2>1 DEF TypeOK, AuthInv, OpenInv, ReachedInv, LiteralInv, PendingInv,
       BackedBy, Verifying
  <2>7. AuthorityIsBacked' /\ LegacyIsExplained'
    BY <1>2 DEF TypeOK, AuthInv, OpenInv, NoResult, Result, AuthorityIsBacked,
       AllowedByServer, LegacyIsExplained
  <2>8. QED BY <2>5, <2>6, <2>7 DEF AuthInv
<1>3. QED BY <1>1, <1>2 DEF BeginVerification

\* Falling back keeps the invariant, whatever the failure was.
LEMMA FallbackKeeps ==
  ASSUME TypeOK, AuthInv, NEW c \in Checks, pc[c] \in Verifying,
         NEW reason \in Reasons, Fallback(c, reason),
         UNCHANGED <<config, now, signed, ruled, context, reached>>
  PROVE  TypeOK' /\ AuthInv'
<1> DEFINE decision == normalize_decision_literal(body[c].status)
           v == fallback(config.mode, decision, reason)
<1>1. decision \in {"Allowed", "Denied", "Pending"}
  BY DEF AuthInv, LiteralInv
<1>2. /\ v \in VerificationType
      /\ v.authority \in {"none", "legacy"}
      /\ v.authority = "legacy" => config.mode = "Warn"
  BY <1>1, FallbackType, FallbackAuthority
<1>3. body[c] \in Bodies /\ reached[c] = TRUE
  BY DEF TypeOK, AuthInv, ReachedInv, Verifying
<1> HIDE DEF v
<1>4. Justified(c, CallResult(c, v, body[c]))
  BY <1>2, <1>3, UnprovedJustified
<1>5. Finish(c, CallResult(c, v, body[c]))
  BY DEF Fallback, v
<1>6. QED BY <1>4, <1>5, FinishKeeps

\* A record the check accepted backs the check that holds it.
LEMMA AcceptedIsBacked ==
  ASSUME TypeOK, AuthInv, NEW c \in Checks, pc[c] = "record",
         RecordFailure(body[c], config, VerificationContext(c), Origin, now) = "ok",
         ~SettledByRecord(body[c], context[c])
  PROVE  BackedBy(c, body[c].record) /\ context[c].execution
<1>1. body[c] \in Bodies /\ body[c].record # None
  BY DEF TypeOK, Verifying
<1>2. body[c].record \in signed /\ body[c].record.fault = "none"
  BY <1>1, DamagedRecordFails DEF Bodies, TypeOK
<1>3. /\ normalize_decision_literal(body[c].status) = "Allowed"
      /\ context[c].execution
  BY DEF SettledByRecord
<1>4. BackedBy(c, body[c].record)
  BY <1>2, <1>3, AcceptedRecord DEF VerificationContext, BackedBy
<1>5. QED BY <1>3, <1>4

LEMMA RecordKeeps ==
  ASSUME TypeOK, AuthInv, NEW c \in Checks, VerifyRecord(c)
  PROVE  TypeOK' /\ AuthInv'
<1> DEFINE failure == RecordFailure(body[c], config, VerificationContext(c), Origin, now)
           decision == normalize_decision_literal(body[c].status)
<1>1. /\ pc[c] = "record"
      /\ UNCHANGED <<config, now, signed, ruled, context, reached>>
      /\ body[c] \in Bodies /\ body[c].record # None
      /\ reached[c] = TRUE
      /\ decision \in {"Allowed", "Denied", "Pending"}
  BY DEF VerifyRecord, TypeOK, AuthInv, LiteralInv, ReachedInv, Verifying
<1>2. failure \in Reasons
  BY <1>1, FailureReason
<1>3. "key_unavailable" \in Reasons /\ "attestation_missing" \in Reasons /\ "ok" \in Reasons
  BY DEF Reasons
<1>4. CASE \/ Fallback(c, "key_unavailable") \/ Fallback(c, "attestation_missing")
           \/ failure # "ok" /\ Fallback(c, failure)
  BY <1>1, <1>2, <1>3, <1>4, FallbackKeeps DEF Verifying
<1>5. CASE Finish(c, CallResult(c, VerificationResult(decision, "ok", "none"), body[c]))
  <2>1. VerificationResult(decision, "ok", "none") \in VerificationType
    BY <1>1, <1>3 DEF VerificationResult, VerificationType
  <2>2. VerificationResult(decision, "ok", "none").authority = "none"
    BY DEF VerificationResult
  <2>3. Justified(c, CallResult(c, VerificationResult(decision, "ok", "none"), body[c]))
    BY <1>1, <2>1, <2>2, UnprovedJustified
  <2>4. QED BY <1>1, <1>5, <2>3, FinishKeeps
<1>6. CASE /\ failure = "ok"
           /\ ~SettledByRecord(body[c], context[c])
           /\ body[c].attestation # None
           /\ pc' = [pc EXCEPT ![c] = "attestation"]
           /\ left' = [left EXCEPT ![c] = ResolveTimeout]
           /\ UNCHANGED <<body, http, outcome>>
  <2>1. BackedBy(c, body[c].record) /\ context[c].execution
    BY <1>1, <1>6, AcceptedIsBacked
  <2>2. Bodies' = Bodies
    BY <1>1 DEF Bodies, Attested
  <2>3. /\ left' \in [Checks -> 0..ResolveTimeout]
        /\ pc' \in [Checks -> {"idle", "sent", "head", "record", "attestation", "done"}]
    BY <1>6 DEF TypeOK
  <2>4. TypeOK'
    BY <1>1, <1>6, <2>2, <2>3 DEF TypeOK, Verifying
  <2>5. OpenInv' /\ ReachedInv' /\ LiteralInv' /\ PendingInv'
    BY <1>1, <1>6, <2>1 DEF TypeOK, AuthInv, OpenInv, ReachedInv, LiteralInv, PendingInv,
       BackedBy, Verifying
  <2>6. AuthorityIsBacked' /\ LegacyIsExplained'
    BY <1>1, <1>6 DEF AuthInv, AuthorityIsBacked, AllowedByServer, LegacyIsExplained
  <2>7. QED BY <2>4, <2>5, <2>6 DEF AuthInv
<1>7. QED BY <1>4, <1>5, <1>6 DEF VerifyRecord

LEMMA AttestationKeeps ==
  ASSUME TypeOK, AuthInv, NEW c \in Checks, VerifyAttestation(c)
  PROVE  TypeOK' /\ AuthInv'
<1> DEFINE failure == AttestationFailure(body[c], Issuer, now)
           v == VerificationResult("Allowed", "ok", "verified")
           result == CallResult(c, v, body[c])
<1>1. /\ pc[c] = "attestation"
      /\ UNCHANGED <<config, now, signed, ruled, context, reached>>
      /\ body[c] \in Bodies
      /\ BackedBy(c, body[c].record) /\ context[c].execution
      /\ body[c].attestation # None
  BY DEF VerifyAttestation, TypeOK, AuthInv, PendingInv, Verifying
<1>2. "key_unavailable" \in Reasons /\ "ok" \in Reasons
  BY DEF Reasons
<1>3. CASE Fallback(c, "key_unavailable")
  BY <1>1, <1>2, <1>3, FallbackKeeps DEF Verifying
<1>4. CASE failure # "ok" /\ Fallback(c, failure)
  BY <1>1, <1>4, AttestationReason, FallbackKeeps DEF Verifying
<1>5. CASE Finish(c, result)
  <2>1. v \in VerificationType /\ v.authority = "verified"
    BY <1>2 DEF VerificationResult, VerificationType
  <2>2. body[c].record \in signed
    BY <1>1 DEF BackedBy
  <2> HIDE DEF v
  <2>3. result \in ResultType
    BY <1>1, <2>1, <2>2, CallResultType
  <2>4. /\ result.authority \in {"none", "verified"}
        /\ result.authority = "verified" => result.policy = body[c].record.policy
    BY <2>1, CallAuthority
  <2> HIDE DEF result
  <2>5. Justified(c, result)
    BY <1>1, <2>2, <2>3, <2>4 DEF Justified
  <2>6. QED BY <1>1, <1>5, <2>5, FinishKeeps
<1>6. QED BY <1>3, <1>4, <1>5 DEF VerifyAttestation

-----------------------------------------------------------------------------
(* The induction. *)

LEMMA AuthInit == Init => TypeOK /\ AuthInv
<1> SUFFICES ASSUME Init PROVE TypeOK /\ AuthInv
  OBVIOUS
<1>1. NoResult \in ResultType
  BY DEF NoResult, Result, ResultType, CallCodes
<1>2. TypeOK
  BY <1>1 DEF Init, TypeOK, Verifying
<1>3. AuthInv
  BY DEF Init, AuthInv, OpenInv, ReachedInv, LiteralInv, PendingInv, AuthorityIsBacked,
     LegacyIsExplained, NoResult, Result, Verifying
<1>4. QED BY <1>2, <1>3

LEMMA StartKeeps ==
  ASSUME TypeOK, AuthInv, NEW c \in Checks, NEW x \in Contexts, Start(c, x)
  PROVE  TypeOK' /\ AuthInv'
<1>1. Bodies' = Bodies
  BY DEF Start, Bodies, Attested
<1>2. TypeOK'
  BY <1>1 DEF Start, TypeOK, Verifying
<1>3. OpenInv' /\ ReachedInv' /\ LiteralInv' /\ PendingInv'
  BY DEF Start, TypeOK, AuthInv, OpenInv, ReachedInv, LiteralInv, PendingInv, BackedBy,
     Verifying
<1>4. AuthorityIsBacked' /\ LegacyIsExplained'
  BY DEF Start, TypeOK, AuthInv, OpenInv, NoResult, Result, AuthorityIsBacked,
     AllowedByServer, LegacyIsExplained
<1>5. QED BY <1>2, <1>3, <1>4 DEF AuthInv

LEMMA RuleKeeps ==
  ASSUME TypeOK, AuthInv, NEW c \in Checks, Rule(c)
  PROVE  TypeOK' /\ AuthInv'
<1>1. /\ UNCHANGED <<config, now, pc, context, http, body, left, reached, outcome>>
      /\ ruled' = ruled \cup {c}
      /\ signed \subseteq signed'
      /\ \A r \in signed' \ signed :
           r.fault = "none" /\ r.nonce \in Checks /\ r.policy \in Policies
  BY DEF Rule, Record
<1>2. Bodies \subseteq Bodies'
  BY <1>1, BodiesGrow
<1>3. TypeOK'
  BY <1>1, <1>2 DEF TypeOK
<1>4. OpenInv' /\ ReachedInv' /\ LiteralInv' /\ PendingInv'
  BY <1>1 DEF AuthInv, OpenInv, ReachedInv, LiteralInv, PendingInv, BackedBy
<1>5. AuthorityIsBacked' /\ LegacyIsExplained'
  BY <1>1 DEF AuthInv, AuthorityIsBacked, AllowedByServer, LegacyIsExplained
<1>6. QED BY <1>3, <1>4, <1>5 DEF AuthInv

\* The results of the calls that end before verification are justified.
LEMMA PlainResults ==
  ASSUME NEW c \in Checks
  PROVE  /\ ~reached'[c] => Justified(c, classify_unreachable)
         /\ Justified(c, classify_invalid_response)
         /\ Justified(c, auth_failure)
<1>1. /\ classify_unreachable \in ResultType
      /\ classify_invalid_response \in ResultType
      /\ auth_failure \in ResultType
  BY DEF classify_unreachable, classify_invalid_response, auth_failure, Result,
     ResultType, CallCodes
<1>2. QED
  BY <1>1 DEF Justified, classify_unreachable, classify_invalid_response, auth_failure, Result

LEMMA HeadKeeps ==
  ASSUME TypeOK, AuthInv, NEW c \in Checks, Head(c)
  PROVE  TypeOK' /\ AuthInv'
<1>1. CASE Finish(c, auth_failure) \/ Finish(c, classify_invalid_response)
  BY <1>1, PlainResults, FinishKeeps DEF Head
<1>2. CASE /\ pc' = [pc EXCEPT ![c] = "head"]
           /\ \E status \in {"ok", "forbidden"} : http' = [http EXCEPT ![c] = status]
           /\ UNCHANGED <<body, left, outcome>>
  <2>1. Bodies' = Bodies
    BY DEF Head, Bodies, Attested
  <2>2. TypeOK'
    BY <1>2, <2>1 DEF Head, TypeOK, Verifying
  <2>3. OpenInv' /\ ReachedInv' /\ LiteralInv' /\ PendingInv'
    BY <1>2 DEF Head, TypeOK, AuthInv, OpenInv, ReachedInv, LiteralInv, PendingInv,
       BackedBy, Verifying
  <2>4. AuthorityIsBacked' /\ LegacyIsExplained'
    BY <1>2 DEF Head, TypeOK, AuthInv, OpenInv, NoResult, Result, AuthorityIsBacked,
       AllowedByServer, LegacyIsExplained
  <2>5. QED BY <2>2, <2>3, <2>4 DEF AuthInv
<1>3. QED BY <1>1, <1>2 DEF Head

LEMMA TickKeeps ==
  ASSUME TypeOK, AuthInv, Tick \/ UNCHANGED vars
  PROVE  TypeOK' /\ AuthInv'
<1>1. /\ UNCHANGED <<config, signed, ruled, pc, context, http, body, reached, outcome>>
      /\ now' \in 0..MaxNow
      /\ left' \in [Checks -> 0..ResolveTimeout]
  BY DEF Tick, vars, TypeOK, Verifying
<1>2. Bodies' = Bodies
  BY <1>1 DEF Bodies, Attested
<1>3. TypeOK'
  BY <1>1, <1>2 DEF TypeOK
<1>4. OpenInv' /\ ReachedInv' /\ LiteralInv' /\ PendingInv'
  BY <1>1 DEF AuthInv, OpenInv, ReachedInv, LiteralInv, PendingInv, BackedBy
<1>5. AuthorityIsBacked' /\ LegacyIsExplained'
  BY <1>1 DEF AuthInv, AuthorityIsBacked, AllowedByServer, LegacyIsExplained
<1>6. QED BY <1>3, <1>4, <1>5 DEF AuthInv

LEMMA AuthStep == TypeOK /\ AuthInv /\ [Next]_vars => TypeOK' /\ AuthInv'
<1> SUFFICES ASSUME TypeOK, AuthInv, [Next]_vars PROVE TypeOK' /\ AuthInv'
  OBVIOUS
<1>1. ASSUME NEW c \in Checks, NEW x \in Contexts, Start(c, x) PROVE TypeOK' /\ AuthInv'
  BY <1>1, StartKeeps
<1>2. ASSUME NEW c \in Checks, Rule(c) PROVE TypeOK' /\ AuthInv'
  BY <1>2, RuleKeeps
<1>3. ASSUME NEW c \in Checks, Unreachable(c) PROVE TypeOK' /\ AuthInv'
  <2>1. ~reached'[c]
    BY <1>3 DEF Unreachable, AuthInv, ReachedInv
  <2>2. QED BY <1>3, <2>1, PlainResults, FinishKeeps DEF Unreachable
<1>4. ASSUME NEW c \in Checks, Head(c) PROVE TypeOK' /\ AuthInv'
  BY <1>4, HeadKeeps
<1>5. ASSUME NEW c \in Checks, BodyInvalid(c) PROVE TypeOK' /\ AuthInv'
  BY <1>5, PlainResults, FinishKeeps DEF BodyInvalid, response_body_error
<1>6. ASSUME NEW c \in Checks, BodyDecoded(c) PROVE TypeOK' /\ AuthInv'
  <2>1. reached' = [reached EXCEPT ![c] = TRUE] /\ pc[c] = "head"
    BY <1>6 DEF BodyDecoded, TypeOK, AuthInv, ReachedInv
  <2>2. PICK b \in Bodies : Finish(c, auth_failure) \/ BeginVerification(c, b)
    BY <1>6 DEF BodyDecoded
  <2>3. CASE Finish(c, auth_failure)
    BY <1>6, <2>3, PlainResults, FinishKeeps DEF BodyDecoded
  <2>4. CASE BeginVerification(c, b)
    BY <1>6, <2>1, <2>4, BeginKeeps DEF BodyDecoded
  <2>5. QED BY <2>2, <2>3, <2>4
<1>7. ASSUME NEW c \in Checks, Present(c) PROVE TypeOK' /\ AuthInv'
  BY <1>7, BeginKeeps DEF Present
<1>8. ASSUME NEW c \in Checks, VerifyRecord(c) PROVE TypeOK' /\ AuthInv'
  BY <1>8, RecordKeeps
<1>9. ASSUME NEW c \in Checks, VerifyAttestation(c) PROVE TypeOK' /\ AuthInv'
  BY <1>9, AttestationKeeps
<1>10. QED
  BY <1>1, <1>2, <1>3, <1>4, <1>5, <1>6, <1>7, <1>8, <1>9, TickKeeps DEF Next, Progress

LEMMA AuthInvariance == Spec => [](TypeOK /\ AuthInv)
BY AuthInit, AuthStep, PTL DEF Spec

\* Every state of every check has the shape the model gives it: no call under
\* verification has lost its body, and every result is one the client returns.
THEOREM AuthorizationTypeCorrect == Spec => []TypeOK
BY AuthInvariance, PTL

\* Verified authority is held only for a request the server allowed, for any
\* number of concurrent checks, any policies, keys, surfaces and responses.
THEOREM AuthorityBacked == Spec => []AuthorityIsBacked
<1>1. AuthInv => AuthorityIsBacked
  BY DEF AuthInv
<1>2. QED BY <1>1, AuthInvariance, PTL

\* Unverified authority comes from FailMode::Open without a response or from
\* Warn mode with one, and from nowhere else.
THEOREM LegacyExplained == Spec => []LegacyIsExplained
<1>1. AuthInv => LegacyIsExplained
  BY DEF AuthInv
<1>2. QED BY <1>1, AuthInvariance, PTL

-----------------------------------------------------------------------------
(* Authority and decision never part.                                        *)

\* Authority goes with an allowed decision, and an allowed decision that was
\* asked for execution with authority.
Coherent(v, execution) ==
  /\ v.authority # "none" => v.decision = "Allowed"
  /\ execution /\ v.decision = "Allowed" => v.authority # "none"

LEMMA FallbackCoherent ==
  ASSUME NEW decision, NEW reason, NEW execution
  PROVE  Coherent(fallback(config.mode, decision, reason), execution)
         \/ config.mode \notin {"Warn", "Enforce"}
BY DEF fallback, VerificationResult, Coherent

LEMMA EarlyCoherent ==
  ASSUME TypeOK, NEW b, NEW execution
  PROVE  Coherent(EarlyResult(b, config), execution)
<1>1. config.mode \in {"Warn", "Enforce"}
  BY DEF TypeOK, ConfigType
<1>2. \A reason : Coherent(denied(reason), execution)
  BY DEF denied, VerificationResult, Coherent
<1>3. QED BY <1>1, <1>2, FallbackCoherent DEF EarlyResult

\* The call that reports a coherent verification is coherent itself.
CallCoherent(c, result) ==
  /\ result.authority # "none" => result.decision = "Allowed"
  /\ context[c].entry = "check_intent" =>
       (result.decision = "Allowed" => permits_execution(result))

LEMMA ReportCoherent ==
  ASSUME TypeOK, NEW c \in Checks, context[c] # None, NEW b,
         NEW v \in VerificationType, Coherent(v, context[c].execution)
  PROVE  CallCoherent(c, CallResult(c, v, b))
<1>1. context[c].entry = "check_intent" => context[c].execution
  BY DEF TypeOK
<1>2. CASE context[c].entry = "check_intent"
  <2>1. CallResult(c, v, b) = CheckResult(v, b)
    BY <1>2 DEF CallResult
  <2>2. CASE v.decision = "Allowed"
    BY <1>1, <1>2, <2>1, <2>2
       DEF CheckResult, Result, Coherent, CallCoherent, permits_execution
  <2>3. CASE v.decision = "Pending"
    BY <2>1, <2>3 DEF CheckResult, Result, CallCoherent
  <2>4. CASE v.decision = "Denied"
    BY <2>1, <2>4 DEF CheckResult, Result, CallCoherent
  <2>5. QED BY <2>2, <2>3, <2>4 DEF VerificationType
<1>3. CASE context[c].entry # "check_intent"
  BY <1>3 DEF CallResult, DirectResult, Result, Coherent, CallCoherent
<1>4. QED BY <1>2, <1>3

\* A check that is under way has its context, and ending it coherently keeps
\* the results of all checks coherent.
ContextInv == \A c \in Checks : pc[c] # "idle" => context[c] # None

OnlyInv == ContextInv /\ OnlyAllowedCarriesAuthority

LEMMA FinishCoherent ==
  ASSUME TypeOK, OnlyInv, NEW c \in Checks, NEW result, context[c] # None,
         UNCHANGED context, Finish(c, result), CallCoherent(c, result)
  PROVE  OnlyInv'
<1>1. /\ pc' = [pc EXCEPT ![c] = "done"]
      /\ outcome' = [outcome EXCEPT ![c] = result]
  BY DEF Finish
<1>2. ContextInv'
  BY <1>1 DEF TypeOK, OnlyInv, ContextInv
<1>3. \A d \in Checks : outcome'[d] = IF d = c THEN result ELSE outcome[d]
  BY <1>1 DEF TypeOK
<1>4. OnlyAllowedCarriesAuthority'
  BY <1>3 DEF OnlyInv, OnlyAllowedCarriesAuthority, CallCoherent, Permits, permits_execution
<1>5. QED BY <1>2, <1>4 DEF OnlyInv

\* Steps that end no call only have to keep the contexts.
LEMMA OpenCoherent ==
  ASSUME OnlyInv, ContextInv', UNCHANGED <<context, outcome>>
  PROVE  OnlyInv'
BY DEF OnlyInv, OnlyAllowedCarriesAuthority, Permits, permits_execution

LEMMA PlainCoherent ==
  \A c : /\ CallCoherent(c, classify_unreachable)
         /\ CallCoherent(c, classify_invalid_response)
         /\ CallCoherent(c, auth_failure)
BY DEF classify_unreachable, classify_invalid_response, auth_failure, Result,
   CallCoherent, permits_execution

LEMMA BeginCoherent ==
  ASSUME TypeOK, OnlyInv, NEW c \in Checks, NEW b \in Bodies, pc[c] # "idle",
         UNCHANGED context, BeginVerification(c, b)
  PROVE  OnlyInv'
<1>1. context[c] # None
  BY DEF OnlyInv, ContextInv
<1>2. CASE EarlyReason(b, config) # "ok" /\ Finish(c, CallResult(c, EarlyResult(b, config), b))
  <2>1. /\ EarlyResult(b, config) \in VerificationType
        /\ Coherent(EarlyResult(b, config), context[c].execution)
    BY <1>2, EarlyType, EarlyCoherent
  <2>2. CallCoherent(c, CallResult(c, EarlyResult(b, config), b))
    BY <1>1, <2>1, ReportCoherent
  <2>3. QED BY <1>1, <1>2, <2>2, FinishCoherent
<1>3. CASE pc' = [pc EXCEPT ![c] = "record"] /\ UNCHANGED outcome
  <2>1. ContextInv'
    BY <1>1, <1>3 DEF TypeOK, OnlyInv, ContextInv
  <2>2. QED BY <1>3, <2>1, OpenCoherent
<1>4. QED BY <1>2, <1>3 DEF BeginVerification

LEMMA FallbackKeepsCoherent ==
  ASSUME TypeOK, AuthInv, OnlyInv, NEW c \in Checks, pc[c] \in Verifying,
         NEW reason \in Reasons, Fallback(c, reason), UNCHANGED context
  PROVE  OnlyInv'
<1> DEFINE v == fallback(config.mode, normalize_decision_literal(body[c].status), reason)
<1>1. context[c] # None /\ config.mode \in {"Warn", "Enforce"}
  BY DEF TypeOK, ConfigType, OnlyInv, ContextInv, Verifying
<1>2. v \in VerificationType
  BY FallbackType DEF AuthInv, LiteralInv
<1>3. Coherent(v, context[c].execution)
  BY <1>1, FallbackCoherent
<1>4. Finish(c, CallResult(c, v, body[c]))
  BY DEF Fallback
<1> HIDE DEF v
<1>5. QED BY <1>1, <1>2, <1>3, <1>4, ReportCoherent, FinishCoherent

LEMMA RecordCoherent ==
  ASSUME TypeOK, AuthInv, OnlyInv, NEW c \in Checks, VerifyRecord(c)
  PROVE  OnlyInv'
<1> DEFINE failure == RecordFailure(body[c], config, VerificationContext(c), Origin, now)
           decision == normalize_decision_literal(body[c].status)
           v == VerificationResult(decision, "ok", "none")
<1>1. /\ pc[c] = "record" /\ pc[c] \in Verifying
      /\ UNCHANGED context /\ context[c] # None
      /\ body[c] \in Bodies /\ body[c].record # None
      /\ decision \in {"Allowed", "Denied", "Pending"}
  BY DEF VerifyRecord, TypeOK, AuthInv, LiteralInv, OnlyInv, ContextInv, Verifying
<1>2. failure \in Reasons
  BY <1>1, FailureReason
<1>3. "key_unavailable" \in Reasons /\ "attestation_missing" \in Reasons /\ "ok" \in Reasons
  BY DEF Reasons
<1>4. CASE \/ Fallback(c, "key_unavailable") \/ Fallback(c, "attestation_missing")
           \/ failure # "ok" /\ Fallback(c, failure)
  BY <1>1, <1>2, <1>3, <1>4, FallbackKeepsCoherent
<1>5. CASE SettledByRecord(body[c], context[c]) /\ Finish(c, CallResult(c, v, body[c]))
  <2>1. v \in VerificationType
    BY <1>1, <1>3 DEF VerificationResult, VerificationType
  <2>2. Coherent(v, context[c].execution)
    BY <1>5 DEF SettledByRecord, VerificationResult, Coherent
  <2> HIDE DEF v
  <2>3. QED BY <1>1, <1>5, <2>1, <2>2, ReportCoherent, FinishCoherent
<1>6. CASE pc' = [pc EXCEPT ![c] = "attestation"] /\ UNCHANGED outcome
  <2>1. ContextInv'
    BY <1>1, <1>6 DEF TypeOK, OnlyInv, ContextInv
  <2>2. QED BY <1>1, <1>6, <2>1, OpenCoherent
<1>7. QED BY <1>4, <1>5, <1>6 DEF VerifyRecord

LEMMA AttestationCoherent ==
  ASSUME TypeOK, AuthInv, OnlyInv, NEW c \in Checks, VerifyAttestation(c)
  PROVE  OnlyInv'
<1> DEFINE failure == AttestationFailure(body[c], Issuer, now)
           v == VerificationResult("Allowed", "ok", "verified")
<1>1. /\ pc[c] \in Verifying /\ UNCHANGED context /\ context[c] # None
      /\ body[c] \in Bodies /\ body[c].attestation # None
  BY DEF VerifyAttestation, TypeOK, AuthInv, PendingInv, OnlyInv, ContextInv, Verifying
<1>2. "key_unavailable" \in Reasons /\ "ok" \in Reasons
  BY DEF Reasons
<1>3. CASE Fallback(c, "key_unavailable") \/ (failure # "ok" /\ Fallback(c, failure))
  BY <1>1, <1>2, <1>3, AttestationReason, FallbackKeepsCoherent
<1>4. CASE Finish(c, CallResult(c, v, body[c]))
  <2>1. v \in VerificationType /\ Coherent(v, context[c].execution)
    BY <1>2 DEF VerificationResult, VerificationType, Coherent
  <2> HIDE DEF v
  <2>2. QED BY <1>1, <1>4, <2>1, ReportCoherent, FinishCoherent
<1>5. QED BY <1>3, <1>4 DEF VerifyAttestation

LEMMA OnlyStep == TypeOK /\ AuthInv /\ OnlyInv /\ [Next]_vars => OnlyInv'
<1> SUFFICES ASSUME TypeOK, AuthInv, OnlyInv, [Next]_vars PROVE OnlyInv'
  OBVIOUS
<1>1. ASSUME NEW c \in Checks, NEW x \in Contexts, Start(c, x) PROVE OnlyInv'
  <2>1. /\ context' = [context EXCEPT ![c] = x] /\ x # None
        /\ pc' = [pc EXCEPT ![c] = "sent"] /\ outcome' = outcome /\ pc[c] = "idle"
    BY <1>1, AuthorizationAssumption DEF Start
  <2>2. outcome[c] = NoResult
    BY <2>1 DEF AuthInv, OpenInv
  <2>3. ContextInv'
    BY <2>1 DEF TypeOK, OnlyInv, ContextInv
  <2>4. OnlyAllowedCarriesAuthority'
    BY <2>1, <2>2 DEF TypeOK, OnlyInv, OnlyAllowedCarriesAuthority, NoResult, Result,
       Permits, permits_execution
  <2>5. QED BY <2>3, <2>4 DEF OnlyInv
<1>2. ASSUME NEW c \in Checks, Rule(c) PROVE OnlyInv'
  BY <1>2, OpenCoherent DEF Rule, OnlyInv, ContextInv
<1>3. ASSUME NEW c \in Checks, Unreachable(c) PROVE OnlyInv'
  BY <1>3, PlainCoherent, FinishCoherent DEF Unreachable, OnlyInv, ContextInv
<1>4. ASSUME NEW c \in Checks, Head(c) PROVE OnlyInv'
  <2>1. pc[c] = "sent" /\ UNCHANGED context /\ context[c] # None
    BY <1>4 DEF Head, OnlyInv, ContextInv
  <2>2. CASE Finish(c, auth_failure) \/ Finish(c, classify_invalid_response)
    BY <2>1, <2>2, PlainCoherent, FinishCoherent
  <2>3. CASE pc' = [pc EXCEPT ![c] = "head"] /\ UNCHANGED outcome
    <3>1. ContextInv'
      BY <2>1, <2>3 DEF TypeOK, OnlyInv, ContextInv
    <3>2. QED BY <2>1, <2>3, <3>1, OpenCoherent
  <2>4. QED BY <1>4, <2>2, <2>3 DEF Head
<1>5. ASSUME NEW c \in Checks, BodyInvalid(c) PROVE OnlyInv'
  BY <1>5, PlainCoherent, FinishCoherent DEF BodyInvalid, response_body_error, OnlyInv, ContextInv
<1>6. ASSUME NEW c \in Checks, BodyDecoded(c) PROVE OnlyInv'
  <2>1. pc[c] = "head" /\ UNCHANGED context /\ context[c] # None
    BY <1>6 DEF BodyDecoded, OnlyInv, ContextInv
  <2>2. PICK b \in Bodies : Finish(c, auth_failure) \/ BeginVerification(c, b)
    BY <1>6 DEF BodyDecoded
  <2>3. QED BY <2>1, <2>2, PlainCoherent, FinishCoherent, BeginCoherent
<1>7. ASSUME NEW c \in Checks, Present(c) PROVE OnlyInv'
  BY <1>7, BeginCoherent DEF Present
<1>8. ASSUME NEW c \in Checks, VerifyRecord(c) \/ VerifyAttestation(c) PROVE OnlyInv'
  BY <1>8, RecordCoherent, AttestationCoherent
<1>9. CASE Tick \/ UNCHANGED vars
  BY <1>9, OpenCoherent DEF Tick, vars, OnlyInv, ContextInv
<1>10. QED
  BY <1>1, <1>2, <1>3, <1>4, <1>5, <1>6, <1>7, <1>8, <1>9 DEF Next, Progress

\* Whichever path classified the response, only an allowed result carries a
\* capability, and an allowed check_intent always carries one.
THEOREM OnlyAllowedHasAuthority == Spec => []OnlyAllowedCarriesAuthority
<1>1. Init => OnlyInv
  BY DEF Init, OnlyInv, ContextInv, OnlyAllowedCarriesAuthority, NoResult, Result
<1>2. OnlyInv => OnlyAllowedCarriesAuthority
  BY DEF OnlyInv
<1>3. QED BY <1>1, <1>2, OnlyStep, AuthInvariance, PTL DEF Spec

-----------------------------------------------------------------------------
(* The contract.  The invariant holds after every step, so what a call ends   *)
(* with is already explained; what is left is which step of the contract it   *)
(* is.                                                                       *)

\* Only a new record changes what the server has allowed.
LEMMA ContractFrame ==
  ASSUME UNCHANGED signed
  PROVE  allowed' = allowed
BY DEF allowed

\* A record that allows the request backs the contract's call.
LEMMA RecordBacks ==
  ASSUME NEW c \in Checks, NEW r, BackedBy(c, r)
  PROVE  Contract!Backed(c)
<1> DEFINE a == [nonce |-> r.nonce, intent |-> r.intent, surface |-> r.surface,
                 policy |-> r.policy]
<1>1. a \in allowed
  BY DEF BackedBy, allowed
<1>2. QED BY <1>1 DEF BackedBy, Contract!Backed

\* A call that ends is a response that settles it or a conclusion.
LEMMA EndsAsContract ==
  ASSUME TypeOK, AuthInv, AuthInv', NEW c \in Checks, pc[c] \notin {"idle", "done"},
         NEW result \in ResultType, Finish(c, result),
         UNCHANGED <<config, context, signed>>,
         pc[c] = "sent" => result.authority # "verified",
         \/ UNCHANGED reached
         \/ pc[c] = "sent" /\ reached' = [reached EXCEPT ![c] = TRUE]
  PROVE  Contract!Next
<1>1. /\ phase[c] = "open"
      /\ phase' = [phase EXCEPT ![c] = "done"]
  BY DEF Finish, TypeOK, phase
<1>2. authority' = [authority EXCEPT ![c] = result.authority] /\ authority[c] = "none"
  <2>1. outcome' = [outcome EXCEPT ![c] = result] /\ DOMAIN outcome = Checks
    BY DEF Finish, TypeOK
  <2>2. \A d \in Checks : outcome'[d] = IF d = c THEN result ELSE outcome[d]
    BY <2>1
  <2>3. outcome[c].authority = "none"
    BY DEF AuthInv, OpenInv, NoResult, Result
  <2>4. QED BY <2>2, <2>3 DEF authority
<1>3. result.authority = "none" => UNCHANGED authority
  <2>1. authority = [d \in Checks |-> authority[d]]
    BY DEF authority
  <2>2. QED BY <1>2, <2>1
<1>4. allowed' = allowed
  BY ContractFrame
<1>5. outcome'[c] = result
  BY DEF Finish, TypeOK
<1>6. result.authority = "legacy" =>
        IF reached'[c] THEN config.mode = "Warn" ELSE config.failMode = "Open"
  BY <1>5 DEF AuthInv, LegacyIsExplained
<1>7. result.authority = "verified" => context[c].execution /\ Contract!Backed(c)
  <2>1. SUFFICES ASSUME result.authority = "verified"
                 PROVE  context[c].execution /\ Contract!Backed(c)
    OBVIOUS
  <2>2. AllowedByServer(c)' /\ context'[c].execution
    BY <1>5, <2>1 DEF AuthInv, AuthorityIsBacked
  <2>3. \E r : BackedBy(c, r)
    BY <2>2 DEF AllowedByServer, BackedBy
  <2>4. QED BY <2>2, <2>3, RecordBacks
<1>8. result.authority \in {"none", "legacy", "verified"}
  BY DEF ResultType
<1>9. CASE UNCHANGED reached
  <2>1. result.authority = "verified" => reached[c]
    BY DEF TypeOK, AuthInv, ReachedInv
  <2>2. Contract!Conclude(c)
    BY <1>1, <1>2, <1>3, <1>4, <1>6, <1>7, <1>8, <1>9, <2>1 DEF Contract!Conclude
  <2>3. QED BY <2>2 DEF Contract!Next
<1>10. CASE pc[c] = "sent" /\ reached' = [reached EXCEPT ![c] = TRUE]
  <2>1. ~reached[c] /\ reached'[c]
    BY <1>10 DEF TypeOK, AuthInv, ReachedInv
  <2>2. Contract!Respond(c)
    BY <1>1, <1>2, <1>3, <1>4, <1>6, <1>8, <1>10, <2>1 DEF Contract!Respond
  <2>3. QED BY <2>2 DEF Contract!Next
<1>11. QED BY <1>9, <1>10

\* A response that leaves the call open, and a step between two open states.
LEMMA StaysOpen ==
  ASSUME TypeOK, AuthInv, NEW c \in Checks, pc[c] \notin {"idle", "done"},
         NEW next \in {"head", "record", "attestation"},
         pc' = [pc EXCEPT ![c] = next],
         UNCHANGED <<config, context, signed, outcome>>,
         \/ UNCHANGED reached
         \/ pc[c] = "sent" /\ reached' = [reached EXCEPT ![c] = TRUE]
  PROVE  Contract!Next \/ UNCHANGED Contract!vars
<1>1. phase[c] = "open" /\ phase' = phase
  BY DEF TypeOK, phase
<1>2. authority' = authority /\ allowed' = allowed
  BY ContractFrame DEF authority
<1>3. CASE UNCHANGED reached
  BY <1>1, <1>2, <1>3 DEF Contract!vars
<1>4. CASE pc[c] = "sent" /\ reached' = [reached EXCEPT ![c] = TRUE]
  <2>1. ~reached[c]
    BY <1>4 DEF AuthInv, ReachedInv
  <2>2. Contract!Respond(c)
    BY <1>1, <1>2, <1>4, <2>1 DEF Contract!Respond
  <2>3. QED BY <2>2 DEF Contract!Next
<1>5. QED BY <1>3, <1>4

\* Verification that begins is either over at once, without proof, or open.
LEMMA BeginAsContract ==
  ASSUME TypeOK, AuthInv, AuthInv', NEW c \in Checks, NEW b \in Bodies,
         pc[c] \in {"sent", "head"}, BeginVerification(c, b),
         UNCHANGED <<config, context, signed>>,
         \/ UNCHANGED reached
         \/ pc[c] = "sent" /\ reached' = [reached EXCEPT ![c] = TRUE]
  PROVE  Contract!Next \/ UNCHANGED Contract!vars
<1>1. CASE EarlyReason(b, config) # "ok" /\ Finish(c, CallResult(c, EarlyResult(b, config), b))
  <2>1. /\ EarlyResult(b, config) \in VerificationType
        /\ EarlyResult(b, config).authority \in {"none", "legacy"}
    BY <1>1, EarlyType, EarlyAuthority
  <2>2. /\ CallResult(c, EarlyResult(b, config), b) \in ResultType
        /\ CallResult(c, EarlyResult(b, config), b).authority # "verified"
    BY <2>1, CallResultType, CallAuthority
  <2>3. QED BY <1>1, <2>2, EndsAsContract
<1>2. CASE pc' = [pc EXCEPT ![c] = "record"] /\ UNCHANGED outcome
  BY <1>2, StaysOpen
<1>3. QED BY <1>1, <1>2 DEF BeginVerification

\* Any end of a call whose body is under verification concludes it.
LEMMA VerifyingEnds ==
  ASSUME TypeOK, TypeOK', AuthInv, AuthInv', NEW c \in Checks, pc[c] \in Verifying,
         NEW result, Finish(c, result),
         UNCHANGED <<config, context, signed, reached>>
  PROVE  Contract!Next
<1>1. outcome'[c] = result
  BY DEF Finish, TypeOK
<1>2. result \in ResultType
  BY <1>1 DEF TypeOK
<1>3. QED BY <1>2, EndsAsContract DEF Verifying

LEMMA ContractStep ==
  TypeOK /\ AuthInv /\ TypeOK' /\ AuthInv' /\ [Next]_vars => [Contract!Next]_Contract!vars
<1> SUFFICES ASSUME TypeOK, AuthInv, TypeOK', AuthInv', [Next]_vars
             PROVE  Contract!Next \/ UNCHANGED Contract!vars
  OBVIOUS
<1>1. ASSUME NEW c \in Checks, NEW x \in Contexts, Start(c, x) PROVE Contract!Next
  <2>1. /\ phase[c] = "idle"
        /\ phase' = [phase EXCEPT ![c] = "open"]
        /\ authority' = authority
        /\ allowed' = allowed
    BY <1>1, ContractFrame DEF Start, TypeOK, phase, authority
  <2>2. Contract!Open(c, x)
    BY <1>1, <2>1 DEF Start, Contract!Open
  <2>3. QED BY <2>2 DEF Contract!Next
<1>2. ASSUME NEW c \in Checks, Rule(c) PROVE Contract!Next
  <2>1. phase' = phase /\ authority' = authority
    BY <1>2 DEF Rule, phase, authority
  <2>2. signed \subseteq signed'
    BY <1>2 DEF Rule
  <2>3. allowed \subseteq allowed'
    BY <2>2 DEF allowed
  <2>4. Contract!Allow
    BY <1>2, <2>1, <2>3 DEF Rule, Contract!Allow
  <2>5. QED BY <2>4 DEF Contract!Next
<1>3. ASSUME NEW c \in Checks, Unreachable(c) PROVE Contract!Next
  <2>1. classify_unreachable \in ResultType /\ classify_unreachable.authority # "verified"
    BY DEF classify_unreachable, Result, ResultType, CallCodes
  <2>2. QED BY <1>3, <2>1, EndsAsContract DEF Unreachable
<1>4. ASSUME NEW c \in Checks, Head(c) PROVE Contract!Next \/ UNCHANGED Contract!vars
  <2>1. /\ auth_failure \in ResultType /\ auth_failure.authority # "verified"
        /\ classify_invalid_response \in ResultType
        /\ classify_invalid_response.authority # "verified"
    BY DEF auth_failure, classify_invalid_response, Result, ResultType, CallCodes
  <2>2. CASE Finish(c, auth_failure) \/ Finish(c, classify_invalid_response)
    BY <1>4, <2>1, <2>2, EndsAsContract DEF Head
  <2>3. CASE pc' = [pc EXCEPT ![c] = "head"] /\ UNCHANGED outcome
    BY <1>4, <2>3, StaysOpen DEF Head
  <2>4. QED BY <1>4, <2>2, <2>3 DEF Head
<1>5. ASSUME NEW c \in Checks, BodyInvalid(c) PROVE Contract!Next
  <2>1. response_body_error(c) \in ResultType
    BY DEF response_body_error, auth_failure, classify_invalid_response, Result,
       ResultType, CallCodes
  <2>2. QED BY <1>5, <2>1, EndsAsContract DEF BodyInvalid
<1>6. ASSUME NEW c \in Checks, BodyDecoded(c)
      PROVE  Contract!Next \/ UNCHANGED Contract!vars
  <2>1. PICK b \in Bodies : Finish(c, auth_failure) \/ BeginVerification(c, b)
    BY <1>6 DEF BodyDecoded
  <2>2. auth_failure \in ResultType
    BY DEF auth_failure, Result, ResultType, CallCodes
  <2>3. CASE Finish(c, auth_failure)
    BY <1>6, <2>2, <2>3, EndsAsContract DEF BodyDecoded
  <2>4. CASE BeginVerification(c, b)
    BY <1>6, <2>4, BeginAsContract DEF BodyDecoded
  <2>5. QED BY <2>1, <2>3, <2>4
<1>7. ASSUME NEW c \in Checks, Present(c)
      PROVE  Contract!Next \/ UNCHANGED Contract!vars
  BY <1>7, BeginAsContract DEF Present
<1>8. ASSUME NEW c \in Checks, VerifyRecord(c)
      PROVE  Contract!Next \/ UNCHANGED Contract!vars
  <2>1. CASE \E result : Finish(c, result)
    BY <1>8, <2>1, VerifyingEnds DEF VerifyRecord, Verifying
  <2>2. CASE pc' = [pc EXCEPT ![c] = "attestation"] /\ UNCHANGED outcome
    BY <1>8, <2>2, StaysOpen DEF VerifyRecord
  <2>3. QED BY <1>8, <2>1, <2>2 DEF VerifyRecord, Fallback
<1>9. ASSUME NEW c \in Checks, VerifyAttestation(c) PROVE Contract!Next
  <2>1. \E result : Finish(c, result)
    BY <1>9 DEF VerifyAttestation, Fallback
  <2>2. QED BY <1>9, <2>1, VerifyingEnds DEF VerifyAttestation, Verifying
<1>10. CASE Tick \/ UNCHANGED vars
  BY <1>10 DEF Tick, vars, phase, authority, allowed, Contract!vars
<1>11. QED
  BY <1>1, <1>2, <1>3, <1>4, <1>5, <1>6, <1>7, <1>8, <1>9, <1>10 DEF Next, Progress

\* The protocol with its tokens, keys, clocks and mixed-up responses hands out
\* authority only as the contract allows, for any number of concurrent checks.
THEOREM AuthorizationImplementsContract == Spec => ImplementsContract
<1>1. Init => Contract!Init
  BY DEF Init, Contract!Init, phase, authority, allowed, NoResult, Result
<1>2. QED
  BY <1>1, ContractStep, AuthInvariance, PTL DEF Spec, ImplementsContract, Contract!Spec

-----------------------------------------------------------------------------
(* Freshness.  The record's times are checked before the attestation's key is *)
(* resolved; what that resolution has used up of its time bounds how far the *)
(* record can have expired since.                                            *)

TimeInv ==
  /\ \A r \in signed : r.iat \in Int /\ r.exp \in Int
  /\ \A c \in Checks : pc[c] = "attestation" =>
       body[c].record.exp >= now - CLOCK_SKEW_SECONDS - (ResolveTimeout - left[c])

\* The step of GrantsAreFresh, for one check.
Fresh(c) ==
  outcome[c].authority # "verified" /\ outcome'[c].authority = "verified" =>
    /\ body[c].attestation.exp >= now - CLOCK_SKEW_SECONDS
    /\ body[c].attestation.iat <= now + CLOCK_SKEW_SECONDS
    /\ body[c].record.exp >= now - CLOCK_SKEW_SECONDS - ResolveTimeout

Timely == TimeInv' /\ \A c \in Checks : Fresh(c)

\* Accepted times are within the tolerance of the clock they were checked at.
LEMMA AcceptedTimes ==
  ASSUME NEW claims, NEW at, validate_times(claims, at) = "ok"
  PROVE  /\ ~(claims.exp < at - CLOCK_SKEW_SECONDS)
         /\ ~(claims.iat > at + CLOCK_SKEW_SECONDS)
BY DEF validate_times

\* Only the check that moves can come to wait for the attestation's key or to
\* hold proof; if it does neither, the times of the others stand.
LEMMA StandTimely ==
  ASSUME TypeOK, TimeInv, NEW c \in Checks, UNCHANGED <<now, signed>>,
         \A d \in Checks \ {c} : /\ pc'[d] = pc[d] /\ body'[d] = body[d]
                                 /\ left'[d] = left[d] /\ outcome'[d] = outcome[d],
         pc'[c] # "attestation",
         outcome'[c].authority # "verified" \/ outcome'[c] = outcome[c]
  PROVE  Timely
<1>1. TimeInv'
  BY DEF TimeInv
<1>2. QED BY <1>1 DEF Timely, Fresh

LEMMA UnprovedTimely ==
  ASSUME TypeOK, TimeInv, NEW c \in Checks, UNCHANGED <<now, signed>>,
         NEW result, Finish(c, result), result.authority # "verified"
  PROVE  Timely
BY StandTimely DEF Finish, TypeOK

LEMMA FallbackTimely ==
  ASSUME TypeOK, AuthInv, TimeInv, NEW c \in Checks, pc[c] \in Verifying,
         UNCHANGED <<now, signed>>, NEW reason \in Reasons, Fallback(c, reason)
  PROVE  Timely
<1> DEFINE v == fallback(config.mode, normalize_decision_literal(body[c].status), reason)
<1>1. v \in VerificationType
  BY FallbackType DEF AuthInv, LiteralInv
<1>2. v.authority \in {"none", "legacy"}
  BY FallbackAuthority
<1>3. Finish(c, CallResult(c, v, body[c]))
  BY DEF Fallback
<1> HIDE DEF v
<1>4. QED BY <1>1, <1>2, <1>3, CallAuthority, UnprovedTimely

LEMMA BeginTimely ==
  ASSUME TypeOK, TimeInv, NEW c \in Checks, NEW b \in Bodies,
         UNCHANGED <<now, signed>>, BeginVerification(c, b)
  PROVE  Timely
<1>1. CASE EarlyReason(b, config) # "ok" /\ Finish(c, CallResult(c, EarlyResult(b, config), b))
  <2>1. /\ EarlyResult(b, config) \in VerificationType
        /\ EarlyResult(b, config).authority \in {"none", "legacy"}
    BY <1>1, EarlyType, EarlyAuthority
  <2>2. QED BY <1>1, <2>1, CallAuthority, UnprovedTimely
<1>2. CASE /\ pc' = [pc EXCEPT ![c] = "record"]
           /\ body' = [body EXCEPT ![c] = b]
           /\ left' = [left EXCEPT ![c] = ResolveTimeout]
           /\ UNCHANGED outcome
  BY <1>2, StandTimely DEF TypeOK
<1>3. QED BY <1>1, <1>2 DEF BeginVerification

LEMMA RecordTimely ==
  ASSUME TypeOK, AuthInv, TimeInv, NEW c \in Checks, VerifyRecord(c)
  PROVE  Timely
<1> DEFINE failure == RecordFailure(body[c], config, VerificationContext(c), Origin, now)
           decision == normalize_decision_literal(body[c].status)
           v == VerificationResult(decision, "ok", "none")
<1>1. /\ pc[c] = "record" /\ pc[c] \in Verifying
      /\ UNCHANGED <<config, now, signed, context>>
      /\ body[c] \in Bodies /\ body[c].record # None
      /\ decision \in {"Allowed", "Denied", "Pending"}
  BY DEF VerifyRecord, TypeOK, AuthInv, LiteralInv, Verifying
<1>2. failure \in Reasons
  BY <1>1, FailureReason
<1>3. "key_unavailable" \in Reasons /\ "attestation_missing" \in Reasons /\ "ok" \in Reasons
  BY DEF Reasons
<1>4. CASE \/ Fallback(c, "key_unavailable") \/ Fallback(c, "attestation_missing")
           \/ failure # "ok" /\ Fallback(c, failure)
  BY <1>1, <1>2, <1>3, <1>4, FallbackTimely
<1>5. CASE Finish(c, CallResult(c, v, body[c]))
  <2>1. v \in VerificationType /\ v.authority = "none"
    BY <1>1, <1>3 DEF VerificationResult, VerificationType
  <2> HIDE DEF v
  <2>2. QED BY <1>1, <1>5, <2>1, CallAuthority, UnprovedTimely
<1>6. CASE /\ failure = "ok"
           /\ ~SettledByRecord(body[c], context[c])
           /\ pc' = [pc EXCEPT ![c] = "attestation"]
           /\ left' = [left EXCEPT ![c] = ResolveTimeout]
           /\ UNCHANGED <<body, http, outcome>>
  <2>1. BackedBy(c, body[c].record)
    BY <1>1, <1>6, AcceptedIsBacked
  <2>2. validate_times(body[c].record, now) = "ok"
    <3>1. body[c].record.fault = "none"
      BY <2>1 DEF BackedBy, TypeOK
    <3>2. QED BY <1>6, <3>1 DEF RecordFailure, validate_decision_claims
  <2>3. body[c].record.exp \in Int /\ ~(body[c].record.exp < now - CLOCK_SKEW_SECONDS)
    BY <2>1, <2>2, AcceptedTimes DEF BackedBy, TimeInv
  <2>4. now \in Int /\ CLOCK_SKEW_SECONDS \in Int /\ ResolveTimeout \in Int
    BY ClockAssumption DEF TypeOK
  <2>5. body[c].record.exp >= now - CLOCK_SKEW_SECONDS - (ResolveTimeout - ResolveTimeout)
    BY <2>3, <2>4
  <2>6. TimeInv'
    BY <1>1, <1>6, <2>5 DEF TimeInv, TypeOK
  <2>7. QED BY <1>6, <2>6 DEF Timely, Fresh
<1>7. QED BY <1>4, <1>5, <1>6 DEF VerifyRecord

LEMMA AttestationTimely ==
  ASSUME TypeOK, AuthInv, TimeInv, NEW c \in Checks, VerifyAttestation(c)
  PROVE  Timely
<1> DEFINE failure == AttestationFailure(body[c], Issuer, now)
           att == body[c].attestation
<1>1. /\ pc[c] = "attestation" /\ pc[c] \in Verifying
      /\ UNCHANGED <<now, signed>>
      /\ body[c] \in Bodies /\ att # None
      /\ body[c].record \in signed
  BY DEF VerifyAttestation, TypeOK, AuthInv, PendingInv, BackedBy, Verifying
<1>2. "key_unavailable" \in Reasons
  BY DEF Reasons
<1>3. CASE Fallback(c, "key_unavailable") \/ (failure # "ok" /\ Fallback(c, failure))
  BY <1>1, <1>2, <1>3, AttestationReason, FallbackTimely
<1>4. CASE failure = "ok" /\ \E result : Finish(c, result)
  <2>1. att.fault = "none" /\ validate_times(att, now) = "ok"
    <3>1. att.fault \in {"none", "malformed", "signature"}
      <4>1. att \in Damaged \/ att \in Attested
        BY <1>1 DEF Bodies
      <4>2. QED BY <4>1 DEF Damaged, Attested, AttestationOf
    <3>2. QED BY <1>4, <3>1 DEF AttestationFailure, validate_attestation_claims
  <2>2. att \in Attested
    BY <1>1, <2>1 DEF Bodies, Damaged
  <2>3. att.exp \in Int /\ att.iat \in Int
    BY <2>2 DEF Attested, AttestationOf, TimeInv
  <2>4. /\ now \in Int /\ CLOCK_SKEW_SECONDS \in Int /\ ResolveTimeout \in Int
        /\ left[c] \in 0..ResolveTimeout
    BY ClockAssumption DEF TypeOK
  <2>5. att.exp >= now - CLOCK_SKEW_SECONDS /\ att.iat <= now + CLOCK_SKEW_SECONDS
    BY <2>1, <2>3, <2>4, AcceptedTimes
  <2>6. body[c].record.exp >= now - CLOCK_SKEW_SECONDS - ResolveTimeout
    <3>1. body[c].record.exp \in Int
      BY <1>1 DEF TimeInv
    <3>2. body[c].record.exp >= now - CLOCK_SKEW_SECONDS - (ResolveTimeout - left[c])
      BY <1>1 DEF TimeInv
    <3>3. QED BY <2>4, <3>1, <3>2
  <2>7. \A d \in Checks \ {c} : /\ pc'[d] = pc[d] /\ body'[d] = body[d]
                                /\ left'[d] = left[d] /\ outcome'[d] = outcome[d]
    BY <1>4 DEF Finish, TypeOK
  <2>8. pc'[c] = "done"
    BY <1>4 DEF Finish, TypeOK
  <2>9. TimeInv'
    BY <1>1, <2>7, <2>8 DEF TimeInv
  <2>10. QED BY <2>5, <2>6, <2>7, <2>9 DEF Timely, Fresh
<1>5. QED BY <1>3, <1>4 DEF VerifyAttestation

\* A second that passes is a second less for every resolution in progress.
LEMMA TickTimely ==
  ASSUME TypeOK, AuthInv, TimeInv, Tick
  PROVE  Timely
<1>1. /\ now' = now + 1
      /\ UNCHANGED <<signed, pc, body, outcome>>
  BY DEF Tick
<1>2. ASSUME NEW c \in Checks, pc[c] = "attestation"
      PROVE  body[c].record.exp >= now' - CLOCK_SKEW_SECONDS - (ResolveTimeout - left'[c])
  <2>1. body[c].record \in signed
    BY <1>2 DEF AuthInv, PendingInv, BackedBy
  <2>2. body[c].record.exp \in Int
    BY <2>1 DEF TimeInv
  <2>3. left'[c] = left[c] - 1
    BY <1>2 DEF Tick, Verifying
  <2>4. body[c].record.exp >= now - CLOCK_SKEW_SECONDS - (ResolveTimeout - left[c])
    BY <1>2 DEF TimeInv
  <2>5. /\ now \in Int /\ CLOCK_SKEW_SECONDS \in Int /\ ResolveTimeout \in Int
        /\ left[c] \in Int
    BY ClockAssumption DEF TypeOK
  <2>6. QED BY <1>1, <2>2, <2>3, <2>4, <2>5
<1>3. TimeInv'
  BY <1>1, <1>2 DEF TimeInv
<1>4. QED BY <1>1, <1>3 DEF Timely, Fresh

LEMMA RuleTimely ==
  ASSUME TypeOK, AuthInv, TimeInv, NEW c \in Checks, Rule(c)
  PROVE  Timely
<1>1. UNCHANGED <<now, pc, body, left, outcome>>
  BY DEF Rule
<1>2. ASSUME NEW r \in signed' PROVE r.iat \in Int /\ r.exp \in Int
  <2>1. CASE r \in signed
    BY <2>1 DEF TimeInv
  <2>2. CASE r \notin signed
    <3>1. PICK drift \in ClockDrifts : r.iat = now + drift /\ r.exp = now + drift + TokenValidity
      BY <2>2 DEF Rule, Record
    <3>2. now \in Int /\ TokenValidity \in Int
      BY ClockAssumption DEF TypeOK
    <3>3. QED BY <3>1, <3>2
  <2>3. QED BY <2>1, <2>2
<1>3. TimeInv'
  BY <1>1, <1>2 DEF TimeInv
<1>4. QED BY <1>1, <1>3 DEF Timely, Fresh

LEMMA TimelyStep ==
  TypeOK /\ AuthInv /\ TimeInv /\ [Next]_vars => Timely
<1> SUFFICES ASSUME TypeOK, AuthInv, TimeInv, [Next]_vars PROVE Timely
  OBVIOUS
<1>0. /\ classify_unreachable.authority # "verified"
      /\ classify_invalid_response.authority # "verified"
      /\ auth_failure.authority # "verified"
  BY DEF classify_unreachable, classify_invalid_response, auth_failure, Result
<1>1. ASSUME NEW c \in Checks, NEW x \in Contexts, Start(c, x) PROVE Timely
  BY <1>1, StandTimely DEF Start, TypeOK
<1>2. ASSUME NEW c \in Checks, Unreachable(c) \/ BodyInvalid(c) PROVE Timely
  BY <1>0, <1>2, UnprovedTimely DEF Unreachable, BodyInvalid, response_body_error
<1>3. ASSUME NEW c \in Checks, Head(c) PROVE Timely
  <2>1. CASE Finish(c, auth_failure) \/ Finish(c, classify_invalid_response)
    BY <1>0, <1>3, <2>1, UnprovedTimely DEF Head
  <2>2. CASE pc' = [pc EXCEPT ![c] = "head"] /\ UNCHANGED <<body, left, outcome>>
    BY <1>3, <2>2, StandTimely DEF Head, TypeOK
  <2>3. QED BY <1>3, <2>1, <2>2 DEF Head
<1>4. ASSUME NEW c \in Checks, BodyDecoded(c) PROVE Timely
  BY <1>0, <1>4, UnprovedTimely, BeginTimely DEF BodyDecoded
<1>5. ASSUME NEW c \in Checks, Present(c) PROVE Timely
  BY <1>5, BeginTimely DEF Present
<1>6. CASE UNCHANGED vars
  <2>1. TimeInv'
    BY <1>6 DEF vars, TimeInv
  <2>2. QED BY <1>6, <2>1 DEF vars, Timely, Fresh
<1>7. QED
  BY <1>1, <1>2, <1>3, <1>4, <1>5, <1>6, RuleTimely, RecordTimely, AttestationTimely,
     TickTimely DEF Next, Progress

\* Authority is granted on an attestation that is valid at that moment and on a
\* record that was, at most one key resolution earlier.
THEOREM GrantsFresh == Spec => GrantsAreFresh
<1>1. Init => TimeInv
  BY DEF Init, TimeInv
<1>2. Timely => TimeInv' /\ [\A c \in Checks : Fresh(c)]_vars
  BY DEF Timely
<1>3. QED
  BY <1>1, <1>2, TimelyStep, AuthInvariance, PTL DEF Spec, GrantsAreFresh, Fresh

-----------------------------------------------------------------------------
(* Running down. *)

\* What a check has left: the head, the body, and two key resolutions.
Remaining(c) ==
  CASE pc[c] = "attestation" -> left[c] + 1
    [] pc[c] = "record" -> left[c] + ResolveTimeout + 2
    [] pc[c] = "head" -> ResolveTimeout + ResolveTimeout + 3
    [] pc[c] = "sent" -> ResolveTimeout + ResolveTimeout + 4
    [] OTHER -> 0

\* What is left of a check is a number.
LEMMA RemainingType ==
  ASSUME TypeOK, NEW c \in Checks
  PROVE  /\ Remaining(c) \in 0..ResolveTimeout + ResolveTimeout + 4
         /\ pc[c] \notin {"idle", "done"} => Remaining(c) > 0
<1>1. /\ left[c] \in 0..ResolveTimeout
      /\ pc[c] \in {"idle", "sent", "head", "record", "attestation", "done"}
  BY DEF TypeOK
<1> QED
  BY <1>1, AuthorizationAssumption DEF Remaining

\* The stages a check can go to from where it is, and what they leave it.
LEMMA StagesRunDown ==
  ASSUME TypeOK, TypeOK', NEW c \in Checks,
         \/ pc[c] \in {"sent", "head", "record", "attestation"} /\ pc'[c] = "done"
         \/ pc[c] = "sent" /\ pc'[c] = "head"
         \/ pc[c] \in {"sent", "head"} /\ pc'[c] = "record"
         \/ pc[c] = "record" /\ pc'[c] = "attestation"
  PROVE  Remaining(c)' < Remaining(c)
<1>1. left[c] \in 0..ResolveTimeout /\ left'[c] \in 0..ResolveTimeout
  BY DEF TypeOK
<1> QED
  BY <1>1, AuthorizationAssumption DEF Remaining

\* A verification that begins is settled or waits for the record's key.
LEMMA BeginStages ==
  ASSUME TypeOK, NEW c \in Checks, NEW b, BeginVerification(c, b)
  PROVE  pc'[c] \in {"done", "record"}
BY DEF TypeOK, BeginVerification, Finish

\* Every step of a check leads to a later stage.
LEMMA StepRunsDown ==
  ASSUME TypeOK, TypeOK', NEW c \in Checks, Progress(c) \/ Present(c)
  PROVE  Remaining(c)' < Remaining(c)
<1>1. CASE Unreachable(c) \/ BodyInvalid(c)
  <2>1. pc[c] \in {"sent", "head"} /\ pc'[c] = "done"
    BY <1>1 DEF TypeOK, Unreachable, BodyInvalid, Finish
  <2> QED
    BY <2>1, StagesRunDown
<1>2. CASE Head(c)
  <2>1. pc[c] = "sent" /\ pc'[c] \in {"done", "head"}
    BY <1>2 DEF TypeOK, Head, Finish
  <2> QED
    BY <2>1, StagesRunDown
<1>3. CASE BodyDecoded(c)
  <2>1. PICK b \in Bodies : IF http[c] = "forbidden" /\ b.status # "DENIED"
                              THEN Finish(c, auth_failure)
                              ELSE BeginVerification(c, b)
    BY <1>3 DEF BodyDecoded
  <2>2. pc'[c] \in {"done", "record"}
    BY <2>1, BeginStages DEF TypeOK, Finish
  <2>3. pc[c] = "head"
    BY <1>3 DEF BodyDecoded
  <2> QED
    BY <2>2, <2>3, StagesRunDown
<1>4. CASE Present(c)
  <2>1. pc[c] = "sent" /\ pc'[c] \in {"done", "record"}
    BY <1>4, BeginStages DEF Present
  <2> QED
    BY <2>1, StagesRunDown
<1>5. CASE VerifyRecord(c)
  <2>1. pc[c] = "record" /\ pc'[c] \in {"done", "attestation"}
    BY <1>5 DEF TypeOK, VerifyRecord, Fallback, Finish
  <2> QED
    BY <2>1, StagesRunDown
<1>6. CASE VerifyAttestation(c)
  <2>1. pc[c] = "attestation" /\ pc'[c] = "done"
    BY <1>6 DEF TypeOK, VerifyAttestation, Fallback, Finish
  <2> QED
    BY <2>1, StagesRunDown
<1> QED
  BY <1>1, <1>2, <1>3, <1>4, <1>5, <1>6 DEF Progress

\* The clock takes from a key resolution and gives nothing to the others.
LEMMA TickRunsDown ==
  ASSUME TypeOK, TypeOK', NEW c \in Checks, Tick
  PROVE  IF pc[c] \in Verifying THEN Remaining(c)' < Remaining(c) ELSE Remaining(c)' = Remaining(c)
<1>1. /\ left[c] \in 0..ResolveTimeout /\ pc'[c] = pc[c]
      /\ left'[c] = IF pc[c] \in Verifying THEN left[c] - 1 ELSE left[c]
  BY DEF TypeOK, Tick
<1> QED
  BY <1>1, AuthorizationAssumption DEF Remaining, Verifying

\* The stages and timers of a check are its own.
LEMMA OthersLeaveIt ==
  ASSUME TypeOK, NEW c \in Checks, pc[c] # "idle",
         \/ \E d \in Checks : (\E x \in Contexts : Start(d, x)) \/ Rule(d)
         \/ \E d \in Checks \ {c} : Progress(d) \/ Present(d)
         \/ UNCHANGED vars
  PROVE  Remaining(c)' = Remaining(c)
<1>1. pc'[c] = pc[c] /\ left'[c] = left[c]
  <2>1. ASSUME NEW d \in Checks, (\E x \in Contexts : Start(d, x)) \/ Rule(d)
        PROVE  pc'[c] = pc[c] /\ left'[c] = left[c]
    BY <2>1 DEF TypeOK, Start, Rule
  <2>2. ASSUME NEW d \in Checks \ {c}, Progress(d) \/ Present(d)
        PROVE  pc'[c] = pc[c] /\ left'[c] = left[c]
    <3>1. ASSUME NEW b, BeginVerification(d, b) PROVE pc'[c] = pc[c] /\ left'[c] = left[c]
      BY <3>1 DEF TypeOK, BeginVerification, Finish
    <3>2. CASE Present(d) \/ BodyDecoded(d)
      BY <3>1, <3>2 DEF TypeOK, Present, BodyDecoded, Finish
    <3>3. CASE Unreachable(d) \/ Head(d) \/ BodyInvalid(d) \/ VerifyRecord(d) \/ VerifyAttestation(d)
      BY <3>3 DEF TypeOK, Unreachable, Head, BodyInvalid, VerifyRecord, VerifyAttestation, Fallback, Finish
    <3> QED
      BY <2>2, <3>2, <3>3 DEF Progress
  <2> QED
    BY <2>1, <2>2 DEF vars
<1> QED
  BY <1>1 DEF Remaining

\* A check has a bounded number of steps, and of ticks while it resolves keys: each
\* takes from what it has left and nothing gives back, whatever the server signs and
\* other checks do.  No answer sends it back to an earlier stage, and a check that
\* has returned never runs again.
THEOREM ChecksRunDown ==
  Spec => /\ [](\A c \in Checks : Remaining(c) \in 0..ResolveTimeout + ResolveTimeout + 4)
          /\ [][\A c \in Checks : pc[c] # "idle" =>
                  /\ Remaining(c)' <= Remaining(c)
                  /\ Progress(c) \/ Present(c) \/ (Tick /\ pc[c] \in Verifying)
                       => Remaining(c)' < Remaining(c)]_vars
<1> DEFINE RunsDown == \A c \in Checks : pc[c] # "idle" =>
             /\ Remaining(c)' <= Remaining(c)
             /\ Progress(c) \/ Present(c) \/ (Tick /\ pc[c] \in Verifying)
                  => Remaining(c)' < Remaining(c)
           Bounded == \A c \in Checks : Remaining(c) \in 0..ResolveTimeout + ResolveTimeout + 4
<1>1. TypeOK => Bounded
  BY RemainingType
<1>2. TypeOK /\ TypeOK' /\ [Next]_vars => RunsDown
  <2> SUFFICES ASSUME TypeOK, TypeOK', [Next]_vars, NEW c \in Checks, pc[c] # "idle"
               PROVE  /\ Remaining(c)' <= Remaining(c)
                      /\ Progress(c) \/ Present(c) \/ (Tick /\ pc[c] \in Verifying)
                           => Remaining(c)' < Remaining(c)
    OBVIOUS
  <2>1. Remaining(c) \in Int /\ Remaining(c)' \in Int
    <3>1. left[c] \in Int /\ left'[c] \in Int
      BY DEF TypeOK
    <3> QED
      BY <3>1, AuthorizationAssumption DEF Remaining
  <2>2. Progress(c) \/ Present(c) \/ (Tick /\ pc[c] \in Verifying) => Remaining(c)' < Remaining(c)
    BY StepRunsDown, TickRunsDown
  <2>3. Progress(c) \/ Present(c) \/ Tick \/ Remaining(c)' = Remaining(c)
    BY OthersLeaveIt DEF Next
  <2>4. Tick => Remaining(c)' <= Remaining(c)
    BY <2>1, TickRunsDown
  <2> QED
    BY <2>1, <2>2, <2>3, <2>4
<1>3. TypeOK /\ TypeOK' /\ [Next]_vars => [RunsDown]_vars
  BY <1>2
<1> HIDE DEF RunsDown, Bounded
<1>4. Spec => []Bounded /\ [][RunsDown]_vars
  BY <1>1, <1>3, AuthorizationTypeCorrect, PTL DEF Spec
<1> QED
  BY <1>4 DEF RunsDown, Bounded
=============================================================================
