---------------------------- MODULE Authorization ----------------------------
(***************************************************************************)
(* Concurrent authorization checks of one client against one server:       *)
(* check_intent (client.rs) and direct calls of the public verifier        *)
(* verify_authorization_response (decision.rs).  A check is prepared, its  *)
(* request answered or lost, the response classified, the decision record  *)
(* and then the intent attestation verified, each after a key resolution   *)
(* during which the other checks run and time passes.                      *)
(*                                                                         *)
(* The server and the network are external.  The server signs one record   *)
(* per request it receives; the network may lose a response, deliver the   *)
(* parts of another one, or damage them.  Only signatures are trusted: a   *)
(* body is any status with any token that was ever signed, a damaged token *)
(* or none.  Key resolution is used through its contract (KeyResolution):  *)
(* it takes at most ResolveTimeout and yields the key or no key.           *)
(***************************************************************************)
EXTENDS DecisionRecord, FiniteSets

CONSTANTS
  Checks,          \* the calls; a check is its own request nonce (a fresh UUID)
  Commits,         \* transaction commitments
  Policies,        \* policies the server may decide under
  Kids,            \* signing keys of the server
  Origin,          \* canonical origin of the configured server
  Issuer,          \* config.attestation_issuer
  Contexts,        \* what a call may ask for: see ContextType
  Configs,         \* client configurations: see ConfigType
  ServerDecisions, \* literals the server signs
  Literals,        \* status literals a body may carry
  Holds,           \* hold identifiers
  ClockDrifts,     \* server clock minus client clock
  TokenFaults,     \* damage a token may suffer: malformed, signature
  ResolveTimeout,  \* longest key resolution: two request timeouts
  MaxNow           \* bound on the clock

ContextType ==
  [entry : {"check_intent", "verify"}, commit : Commits,
   surface : {"authorize", "test_run", "hold_resolve"}, execution : BOOLEAN]

\* SigilClientBuilder::build refuses Enforce without a pinned policy hash.
ConfigType ==
  {c \in [mode : {"Warn", "Enforce"}, failMode : {"Open", "Closed"},
          pin : Policies \cup {None}] :
     c.mode = "Enforce" => c.pin # None}

ASSUME AuthorizationAssumption ==
  /\ Contexts \subseteq ContextType
  /\ \A x \in Contexts : x.entry = "check_intent" => x.surface = "authorize" /\ x.execution
  /\ Configs \subseteq ConfigType
  /\ None \notin Policies \cup Holds \cup Contexts
  /\ ClockDrifts \subseteq Int
  /\ TokenFaults \subseteq {"malformed", "signature"}
  /\ ResolveTimeout \in Nat \ {0}
  /\ MaxNow \in Nat

VARIABLES
  config,   \* the client's configuration, fixed at build
  now,      \* seconds
  signed,   \* external: every decision record the server has signed
  ruled,    \* external: the requests the server has decided
  pc,       \* progress of each check
  context,  \* what each check asks for, None before it starts
  http,     \* status class of the response head: "ok" or "forbidden"
  body,     \* the body under verification, None otherwise
  left,     \* time left to the key resolution in progress
  reached,  \* history: a response arrived
  outcome   \* what the call returned

vars == <<config, now, signed, ruled, pc, context, http, body, left, reached, outcome>>

-----------------------------------------------------------------------------
(* Tokens. *)

\* External: the record the server signs.
Record(nonce, commit, surface, decision, policy, kid, hold, iat) ==
  [fault |-> "none", kid |-> kid, iss |-> Origin, aud |-> Origin,
   surface |-> surface, decision |-> decision, intent |-> commit,
   policy |-> policy, nonce |-> nonce, hold |-> hold, testRun |-> surface = "test_run",
   resolved |-> surface = "hold_resolve", iat |-> iat, exp |-> iat + TokenValidity]

\* External: the intent attestation that accompanies an ALLOWED record.
AttestationOf(record) ==
  [fault |-> "none", kid |-> record.kid, kidClaim |-> record.kid, iss |-> Issuer,
   aud |-> "sigil-sign", decision |-> "ALLOWED", intent |-> record.intent,
   policy |-> record.policy, iat |-> record.iat, exp |-> record.exp]

Attested == {AttestationOf(r) : r \in {s \in signed : s.decision = "ALLOWED"}}

Damaged == {[fault |-> f] : f \in TokenFaults}

\* External: what may arrive as a decoded body.
Bodies ==
  [status : Literals, hold : Holds \cup {None},
   record : {None} \cup Damaged \cup signed,
   attestation : {None} \cup Damaged \cup Attested]

-----------------------------------------------------------------------------
(* Results of a call.  code abstracts error_code; policy and hold are what *)
(* the caller is told of them.                                             *)

Result(decision, authority, failOpen, code, policy, hold) ==
  [decision |-> decision, authority |-> authority, failOpen |-> failOpen,
   code |-> code, policy |-> policy, hold |-> hold]

\* Why the calls that fail before or without verification were refused.
CallCodes == {"none", "unreachable", "verification_failed", "auth_failure", "policy_violation"}

ResultType ==
  [decision : {"None", "Allowed", "Denied", "Pending"},
   authority : {"none", "legacy", "verified"}, failOpen : BOOLEAN,
   code : CallCodes \cup Reasons, policy : Policies \cup {None},
   hold : Holds \cup {None}]

NoResult == Result("None", "none", FALSE, "none", None, None)

classify_unreachable ==
  IF config.failMode = "Open"
    THEN Result("Allowed", "legacy", TRUE, "none", None, None)
    ELSE Result("Denied", "none", FALSE, "unreachable", None, None)

classify_invalid_response ==
  Result("Denied", "none", FALSE, "verification_failed", None, None)

auth_failure == Result("Denied", "none", FALSE, "auth_failure", None, None)

\* The result check_intent makes of a verification; a failed verification is
\* reported as such unless a denial merely came without a record.
CheckResult(verification, b) ==
  LET policy == IF verification.authority = "verified" THEN b.record.policy ELSE None
      failed == /\ verification.reason # "ok"
                /\ b.status # "DENIED" \/ verification.reason # "record_missing"
  IN CASE verification.decision = "Allowed" ->
            Result("Allowed", verification.authority, FALSE, "none", policy, None)
       [] verification.decision = "Pending" ->
            Result("Pending", "none", FALSE, "none", policy, b.hold)
       [] verification.decision = "Denied" ->
            Result("Denied", "none", FALSE,
                   IF failed THEN "verification_failed" ELSE "policy_violation",
                   policy, None)

\* A direct call returns the verification result itself.
DirectResult(verification, b) ==
  Result(verification.decision, verification.authority, FALSE, verification.reason,
         IF verification.authority = "verified" THEN b.record.policy ELSE None, None)

CallResult(c, verification, b) ==
  IF context[c].entry = "check_intent"
    THEN CheckResult(verification, b)
    ELSE DirectResult(verification, b)

-----------------------------------------------------------------------------
Verifying == {"record", "attestation"}

\* AuthorizationVerificationContext: the bindings of the request in flight.
VerificationContext(c) ==
  [commit |-> context[c].commit, nonce |-> c,
   surface |-> context[c].surface, execution |-> context[c].execution]

Started(c) == context[c] # None

TypeOK ==
  /\ config \in Configs
  /\ now \in 0..MaxNow
  /\ \A r \in signed : r.fault = "none" /\ r.nonce \in Checks /\ r.policy \in Policies
  /\ ruled \subseteq Checks
  /\ pc \in [Checks -> {"idle", "sent", "head", "record", "attestation", "done"}]
  /\ context \in [Checks -> Contexts \cup {None}]
  /\ http \in [Checks -> {"ok", "forbidden", "none"}]
  /\ body \in [Checks -> Bodies \cup {None}]
  /\ \A c \in Checks : pc[c] \in Verifying => body[c] \in Bodies /\ body[c].record # None
  /\ left \in [Checks -> 0..ResolveTimeout]
  /\ reached \in [Checks -> BOOLEAN]
  /\ outcome \in [Checks -> ResultType]

Init ==
  /\ config \in Configs
  /\ now = 0
  /\ signed = {}
  /\ ruled = {}
  /\ pc = [c \in Checks |-> "idle"]
  /\ context = [c \in Checks |-> None]
  /\ http = [c \in Checks |-> "none"]
  /\ body = [c \in Checks |-> None]
  /\ left = [c \in Checks |-> 0]
  /\ reached = [c \in Checks |-> FALSE]
  /\ outcome = [c \in Checks |-> NoResult]

Finish(c, result) ==
  /\ pc' = [pc EXCEPT ![c] = "done"]
  /\ outcome' = [outcome EXCEPT ![c] = result]
  /\ body' = [body EXCEPT ![c] = None]
  /\ http' = [http EXCEPT ![c] = "none"]
  /\ left' = [left EXCEPT ![c] = 0]

\* prepare_authorize_request_at and the POST, or a request the caller sends.
Start(c, x) ==
  /\ pc[c] = "idle"
  /\ pc' = [pc EXCEPT ![c] = "sent"]
  /\ context' = [context EXCEPT ![c] = x]
  /\ UNCHANGED <<config, now, signed, ruled, http, body, left, reached, outcome>>

\* External: the server decides a request, under its policy and key of the
\* moment; it may be slow, and it may answer for the wrong surface or intent.
Rule(c) ==
  /\ Started(c)
  /\ c \notin ruled
  /\ ruled' = ruled \cup {c}
  /\ \E commit \in Commits, surface \in {x.surface : x \in Contexts},
        decision \in ServerDecisions, policy \in Policies, kid \in Kids,
        hold \in Holds \cup {None}, drift \in ClockDrifts :
       signed' = signed \cup
         {Record(c, commit, surface, decision, policy, kid, hold, now + drift)}
  /\ UNCHANGED <<config, now, pc, context, http, body, left, reached, outcome>>

\* send() fails: no response head was received before the request timeout.
Unreachable(c) ==
  /\ pc[c] = "sent"
  /\ context[c].entry = "check_intent"
  /\ Finish(c, classify_unreachable)
  /\ UNCHANGED <<config, now, signed, ruled, context, reached>>

\* A response head arrives; response_status_error settles 401 and every
\* status that is neither a success nor 403.
Head(c) ==
  /\ pc[c] = "sent"
  /\ context[c].entry = "check_intent"
  /\ reached' = [reached EXCEPT ![c] = TRUE]
  /\ \/ Finish(c, auth_failure)
     \/ Finish(c, classify_invalid_response)
     \/ /\ pc' = [pc EXCEPT ![c] = "head"]
        /\ \E status \in {"ok", "forbidden"} : http' = [http EXCEPT ![c] = status]
        /\ UNCHANGED <<body, left, outcome>>
  /\ UNCHANGED <<config, now, signed, ruled, context>>

\* Seeded fault: a body that breaks off is treated as an unreachable server.
response_body_error_unreachable(c) ==
  IF http[c] = "forbidden" THEN auth_failure ELSE classify_unreachable

response_body_error(c) ==
  IF http[c] = "forbidden" THEN auth_failure ELSE classify_invalid_response

\* The body breaks off, is too large, or is no JSON of the response schema.
BodyInvalid(c) ==
  /\ pc[c] = "head"
  /\ Finish(c, response_body_error(c))
  /\ UNCHANGED <<config, now, signed, ruled, context, reached>>

\* Verification up to its first await: an early result, or the resolution of
\* the record's key.
BeginVerification(c, b) ==
  \/ /\ EarlyReason(b, config) # "ok"
     /\ Finish(c, CallResult(c, EarlyResult(b, config), b))
  \/ /\ EarlyReason(b, config) = "ok"
     /\ pc' = [pc EXCEPT ![c] = "record"]
     /\ body' = [body EXCEPT ![c] = b]
     /\ http' = [http EXCEPT ![c] = "none"]
     /\ left' = [left EXCEPT ![c] = ResolveTimeout]
     /\ UNCHANGED outcome

\* The body decodes; a 403 must be a denial.
BodyDecoded(c) ==
  /\ pc[c] = "head"
  /\ \E b \in Bodies :
       IF http[c] = "forbidden" /\ b.status # "DENIED"
         THEN Finish(c, auth_failure)
         ELSE BeginVerification(c, b)
  /\ UNCHANGED <<config, now, signed, ruled, context, reached>>

\* A caller of the public verifier presents a body it received itself.
Present(c) ==
  /\ pc[c] = "sent"
  /\ context[c].entry = "verify"
  /\ reached' = [reached EXCEPT ![c] = TRUE]
  /\ \E b \in Bodies : BeginVerification(c, b)
  /\ UNCHANGED <<config, now, signed, ruled, context>>

\* A failed verification falls back to what the body says without proof.
Fallback(c, reason) ==
  Finish(c, CallResult(c, fallback(config.mode,
                                   normalize_decision_literal(body[c].status),
                                   reason), body[c]))

\* The record's key resolves or not, and its claims are checked at that time.
\* A malformed token is refused before its key is asked for.
VerifyRecord(c) ==
  LET failure == RecordFailure(body[c], config, VerificationContext(c), Origin, now)
  IN /\ pc[c] = "record"
     /\ \/ body[c].record.fault # "malformed" /\ Fallback(c, "key_unavailable")
        \/ failure # "ok" /\ Fallback(c, failure)
        \/ /\ failure = "ok"
           /\ SettledByRecord(body[c], context[c])
           /\ Finish(c, CallResult(c, VerificationResult(
                normalize_decision_literal(body[c].status), "ok", "none"), body[c]))
        \/ /\ failure = "ok"
           /\ ~SettledByRecord(body[c], context[c])
           /\ IF body[c].attestation = None
                THEN Fallback(c, "attestation_missing")
                ELSE /\ pc' = [pc EXCEPT ![c] = "attestation"]
                     /\ left' = [left EXCEPT ![c] = ResolveTimeout]
                     /\ UNCHANGED <<body, http, outcome>>
     /\ UNCHANGED <<config, now, signed, ruled, context, reached>>

\* Seeded fault: a failed attestation makes verification start over.
VerifyAttestation_restarting(c) ==
  LET failure == AttestationFailure(body[c], Issuer, now)
  IN /\ pc[c] = "attestation"
     /\ \/ /\ pc' = [pc EXCEPT ![c] = "record"]
           /\ left' = [left EXCEPT ![c] = ResolveTimeout]
           /\ UNCHANGED <<body, http, outcome>>
        \/ /\ failure = "ok"
           /\ Finish(c, CallResult(c,
                VerificationResult("Allowed", "ok", "verified"), body[c]))
     /\ UNCHANGED <<config, now, signed, ruled, context, reached>>

\* The attestation's key resolves or not; all is well only if it also binds.
VerifyAttestation(c) ==
  LET failure == AttestationFailure(body[c], Issuer, now)
  IN /\ pc[c] = "attestation"
     /\ \/ body[c].attestation.fault # "malformed" /\ Fallback(c, "key_unavailable")
        \/ failure # "ok" /\ Fallback(c, failure)
        \/ /\ failure = "ok"
           /\ Finish(c, CallResult(c,
                VerificationResult("Allowed", "ok", "verified"), body[c]))
     /\ UNCHANGED <<config, now, signed, ruled, context, reached>>

\* Time passes; no key resolution outlives its exchanges' timeouts.
Tick ==
  /\ now < MaxNow
  /\ \A c \in Checks : pc[c] \in Verifying => left[c] > 0
  /\ now' = now + 1
  /\ left' = [c \in Checks |-> IF pc[c] \in Verifying THEN left[c] - 1 ELSE left[c]]
  /\ UNCHANGED <<config, signed, ruled, pc, context, http, body, reached, outcome>>

Progress(c) ==
  \/ Unreachable(c) \/ Head(c) \/ BodyInvalid(c) \/ BodyDecoded(c)
  \/ VerifyRecord(c) \/ VerifyAttestation(c)

Next ==
  \/ \E c \in Checks :
       \/ \E x \in Contexts : Start(c, x)
       \/ Rule(c)
       \/ Present(c)
       \/ Progress(c)
  \/ Tick

Spec == Init /\ [][Next]_vars

\* Every await of a check is bounded by the request timeout, so an outstanding
\* exchange ends one way or another.
FairSpec == Spec /\ \A c \in Checks : WF_vars(Progress(c))

-----------------------------------------------------------------------------
(* Properties. *)

Permits(c) == permits_execution(outcome[c])

\* The server allowed exactly this request: same nonce, commitment and surface,
\* under the pinned policy when there is one.
AllowedByServer(c) ==
  \E r \in signed :
    /\ r.decision = "ALLOWED"
    /\ r.nonce = c
    /\ r.intent = context[c].commit
    /\ r.surface = context[c].surface
    /\ config.pin # None => r.policy = config.pin
    /\ r.policy = outcome[c].policy

\* Verified authority is only ever held for a request the server allowed, never
\* for one whose response was another check's, a mixture of several, or
\* damaged; and never by a call that asked for no execution authority.
AuthorityIsBacked ==
  \A c \in Checks : outcome[c].authority = "verified" =>
    AllowedByServer(c) /\ context[c].execution

\* Unverified authority has exactly two sources: FailMode::Open when no response
\* arrived, and Warn mode when one did.  A client in Enforce mode that was
\* answered acts on proof alone, and a response that arrived never fails open.
LegacyIsExplained ==
  \A c \in Checks : outcome[c].authority = "legacy" =>
    IF reached[c]
      THEN config.mode = "Warn" /\ ~outcome[c].failOpen
      ELSE config.failMode = "Open" /\ outcome[c].failOpen

\* Authority and decision never part: nothing but an allowed result carries a
\* capability, whichever path classified the response.
OnlyAllowedCarriesAuthority ==
  \A c \in Checks :
    /\ outcome[c].authority # "none" => outcome[c].decision = "Allowed"
    /\ context[c] # None /\ context[c].entry = "check_intent" =>
         (outcome[c].decision = "Allowed" => Permits(c))

\* Authority is granted on fresh proof: when it is granted, the attestation is
\* within its validity and the clock tolerance.  The record was checked before
\* the attestation's key was resolved, so it may have expired meanwhile, but by
\* no more than that resolution can take.
GrantsAreFresh ==
  [][\A c \in Checks :
       outcome[c].authority # "verified" /\ outcome'[c].authority = "verified" =>
         /\ body[c].attestation.exp >= now - CLOCK_SKEW_SECONDS
         /\ body[c].attestation.iat <= now + CLOCK_SKEW_SECONDS
         /\ body[c].record.exp >= now - CLOCK_SKEW_SECONDS - ResolveTimeout]_vars

\* Every call that was sent returns, whatever the server and network do.
ChecksEnd ==
  \A c \in Checks :
    (pc[c] # "idle" /\ context[c].entry = "check_intent") ~> pc[c] = "done"

-----------------------------------------------------------------------------
(* The contract: authority as the execution adapters see it. *)

phase ==
  [c \in Checks |-> IF pc[c] \in {"idle", "done"} THEN pc[c] ELSE "open"]

authority == [c \in Checks |-> outcome[c].authority]

\* What the server has allowed, without times, keys and attestations.
allowed ==
  {[nonce |-> r.nonce, intent |-> r.intent, surface |-> r.surface,
    policy |-> r.policy] : r \in {s \in signed : s.decision = "ALLOWED"}}

Contract == INSTANCE AuthorityContract WITH
  phase <- phase, authority <- authority, allowed <- allowed

\* The whole protocol, tokens and all, hands out authority only as the contract
\* allows.
ImplementsContract == Contract!Spec

-----------------------------------------------------------------------------
(* Statements of the repository's documents, checked as they are written. *)

\* architecture.md: "any reached but malformed or unverifiable response
\* denies" in Enforce mode.  A reached response that leaves the check anything
\* but denied is backed by a record the server signed for it.
EnforceDeniesUnverifiable ==
  \A c \in Checks :
    pc[c] = "done" /\ reached[c] /\ config.mode = "Enforce" =>
      \/ outcome[c].decision = "Denied"
      \/ \E r \in signed : r.nonce = c /\ r.intent = context[c].commit

\* decision.rs: execution is "Whether this verification can grant execution
\* authority."
NoAuthorityWithoutExecution ==
  \A c \in Checks : context[c] # None /\ ~context[c].execution => ~Permits(c)

=============================================================================
