---------------------------- MODULE DecisionRecord ----------------------------
(***************************************************************************)
(* The checks decision.rs makes on a decision record, on an intent         *)
(* attestation and on the body that carries them, as operators.  Each      *)
(* check returns "ok" or the reason the code reports, in the code's order  *)
(* of early returns.                                                       *)
(*                                                                         *)
(* A token is a record of its claims; None is an absent claim.  Hashes are *)
(* abstracted by the value hashed: intent is the commitment whose digest   *)
(* the intentHash claim carries.  fault says what verify_token would find  *)
(* wrong with the token itself: "none", "malformed" or "signature".        *)
(***************************************************************************)
EXTENDS Integers

CONSTANTS
  None,
  TokenValidity,        \* exp - iat, 60 seconds
  CLOCK_SKEW_SECONDS,   \* tolerated difference of the clocks, 30 seconds
  Malhash               \* a policyHash claim that is not 64 lowercase hex

ASSUME ClockAssumption ==
  /\ TokenValidity \in Nat
  /\ CLOCK_SKEW_SECONDS \in Nat

-----------------------------------------------------------------------------
\* Both spellings of an allowed body are accepted; unknown ones are malformed.
normalize_decision_literal(literal) ==
  CASE literal \in {"APPROVED", "ALLOWED"} -> "Allowed"
    [] literal = "DENIED"                  -> "Denied"
    [] literal = "PENDING"                 -> "Pending"
    [] OTHER                               -> "Malformed"

\* Seeded fault: the tolerance is given to the expiry twice.
validate_times_lenient(claims, now) ==
  IF \/ claims.iat = None
     \/ claims.exp = None
     \/ claims.exp # claims.iat + TokenValidity
     \/ claims.iat > now + CLOCK_SKEW_SECONDS
     \/ claims.exp < now - 2 * CLOCK_SKEW_SECONDS
    THEN "expired" ELSE "ok"

\* iat and exp are exactly one validity apart and both within the tolerance.
\* An iat whose sum leaves i64 has no representable exp, so it fails here too.
validate_times(claims, now) ==
  IF \/ claims.iat = None
     \/ claims.exp = None
     \/ claims.exp # claims.iat + TokenValidity
     \/ claims.iat > now + CLOCK_SKEW_SECONDS
     \/ claims.exp < now - CLOCK_SKEW_SECONDS
    THEN "expired" ELSE "ok"

validate_decision_identity(claims, origin, surface) ==
  IF claims.iss = None THEN "malformed"
  ELSE IF claims.iss # origin THEN "audience"
  ELSE IF claims.aud = None THEN "malformed"
  ELSE IF claims.aud # origin THEN "audience"
  ELSE IF claims.surface = None THEN "malformed"
  ELSE IF claims.surface # surface THEN "surface"
  ELSE "ok"

\* Inside a signature only the canonical literal counts, and it is the body's.
validate_signed_decision(claims, bodyDecision) ==
  IF \/ claims.decision = None
     \/ claims.decision = "APPROVED"
     \/ normalize_decision_literal(claims.decision) = "Malformed"
    THEN "malformed"
  ELSE IF normalize_decision_literal(claims.decision) # bodyDecision
    THEN "literal_mismatch"
  ELSE "ok"

\* Seeded fault: the nonce binding is not compared.
validate_decision_bindings_no_nonce(claims, context) ==
  IF claims.intent = None THEN "malformed"
  ELSE IF claims.intent # context.commit THEN "intent_binding"
  ELSE IF claims.policy = None THEN "malformed"
  ELSE IF claims.policy = Malhash THEN "policy_binding"
  ELSE "ok"

validate_decision_bindings(claims, context) ==
  IF claims.intent = None THEN "malformed"
  ELSE IF claims.intent # context.commit THEN "intent_binding"
  ELSE IF claims.policy = None THEN "malformed"
  ELSE IF claims.policy = Malhash THEN "policy_binding"
  ELSE IF claims.nonce # context.nonce THEN "nonce"
  ELSE "ok"

\* A pending body names the hold the record is about; a resolved hold says when.
validate_decision_surface_claims(claims, context, body, bodyDecision) ==
  IF \/ context.surface = "test_run" /\ ~claims.testRun
     \/ bodyDecision = "Pending" /\ (body.hold = None \/ claims.hold # body.hold)
     \/ context.surface = "hold_resolve" /\ (claims.hold = None \/ ~claims.resolved)
    THEN "surface" ELSE "ok"

validate_decision_claims(claims, origin, context, body, bodyDecision, now) ==
  LET times    == validate_times(claims, now)
      identity == validate_decision_identity(claims, origin, context.surface)
      decision == validate_signed_decision(claims, bodyDecision)
      bindings == validate_decision_bindings(claims, context)
  IN IF times # "ok" THEN times
     ELSE IF identity # "ok" THEN identity
     ELSE IF decision # "ok" THEN decision
     ELSE IF bindings # "ok" THEN bindings
     ELSE validate_decision_surface_claims(claims, context, body, bodyDecision)

\* Seeded fault: the pinned policy hash is not compared.
validate_policy_pin_ignored(claims, pin) == "ok"

\* The record is for the expected policy when the client pins one.
validate_policy_pin(claims, pin) ==
  IF pin # None /\ claims.policy # pin THEN "policy_binding" ELSE "ok"

\* The attestation repeats the record's intent, policy and key; it has no nonce.
validate_attestation_claims(att, record, issuer, now) ==
  IF validate_times(att, now) # "ok" THEN "expired"
  ELSE IF att.iss # issuer \/ att.aud # "sigil-sign" THEN "audience"
  ELSE IF \/ att.decision # "ALLOWED"
          \/ att.intent # record.intent
          \/ att.policy # record.policy
          \/ att.kidClaim # att.kid
          \/ att.kid # record.kid
    THEN "attestation_mismatch"
  ELSE "ok"

-----------------------------------------------------------------------------
\* The reason codes of a verification; "ok" is DECISION_RECORD_OK.
Reasons ==
  {"ok", "malformed", "signature", "expired", "audience", "surface",
   "literal_mismatch", "intent_binding", "policy_binding", "nonce",
   "attestation_mismatch", "record_missing", "attestation_missing",
   "key_unavailable"}

(* Results: AuthorizationVerificationResult, its capability a kind here. *)

VerificationResult(decision, reason, authority) ==
  [decision |-> decision, reason |-> reason, authority |-> authority]

denied(reason) == VerificationResult("Denied", reason, "none")

\* Seeded fault: Warn attaches the legacy capability to every decision.
fallback_unconditional(mode, decision, reason) ==
  VerificationResult(
    IF mode = "Enforce" /\ decision = "Allowed" THEN "Denied" ELSE decision,
    reason,
    IF mode = "Warn" THEN "legacy" ELSE "none")

\* What an unverifiable body still means: Warn keeps a legacy capability,
\* Enforce turns ALLOWED into a denial, every other decision stands.
fallback(mode, decision, reason) ==
  VerificationResult(
    IF mode = "Enforce" /\ decision = "Allowed" THEN "Denied" ELSE decision,
    reason,
    IF mode = "Warn" /\ decision = "Allowed" THEN "legacy" ELSE "none")

permits_execution(result) ==
  result.decision = "Allowed" /\ result.authority # "none"

\* Why verify_authorization_response returns before any token is looked at.
EarlyReason(body, config) ==
  IF normalize_decision_literal(body.status) = "Malformed" THEN "malformed"
  ELSE IF config.mode = "Enforce" /\ config.pin = None THEN "policy_binding"
  ELSE IF body.record = None THEN "record_missing"
  ELSE "ok"

\* Only a missing record is left to the mode; the other early returns deny.
EarlyResult(body, config) ==
  IF EarlyReason(body, config) = "record_missing"
    THEN fallback(config.mode, normalize_decision_literal(body.status), "record_missing")
    ELSE denied(EarlyReason(body, config))

\* Everything asked of the record once its key has been resolved.
RecordFailure(body, config, context, origin, now) ==
  LET decision == normalize_decision_literal(body.status)
      claims   == validate_decision_claims(body.record, origin, context, body,
                                           decision, now)
  IN IF body.record.fault # "none" THEN body.record.fault
     ELSE IF claims # "ok" THEN claims
     ELSE validate_policy_pin(body.record, config.pin)

\* The record alone settles a decision that grants nothing.
SettledByRecord(body, context) ==
  normalize_decision_literal(body.status) # "Allowed" \/ ~context.execution

\* Everything asked of the attestation, whose key is resolved on its own.
AttestationFailure(body, issuer, now) ==
  IF body.attestation.fault # "none" THEN body.attestation.fault
  ELSE validate_attestation_claims(body.attestation, body.record, issuer, now)

=============================================================================
