---------------------------- MODULE ClientBuilder ----------------------------
(***************************************************************************)
(* What SigilClientBuilder::build accepts and what it makes of it, and how *)
(* IronclawSigilHookBuilder::build makes a client of its own out of the    *)
(* caller's.  A string setting is its trimmed text and whether there was   *)
(* white space around it; an origin is written with or without a slash.    *)
(***************************************************************************)
EXTENDS Naturals

CONSTANTS
  Policies,  \* policy hashes of 64 lower-case hexadecimal characters
  Jwks,      \* keys a caller may pin
  None,      \* absence of an optional setting
  Timeout    \* a positive request_timeout

ASSUME BuilderAssumption ==
  /\ None \notin Policies \cup Jwks
  /\ "malformed" \notin Policies \cup {None}
  /\ Timeout \in Nat \ {0}

Text(texts) == [text : texts, padded : BOOLEAN]

\* What a caller can leave in the builder.
Settings ==
  [api_url : Text({"", "https://sign", "https://sign/", "http://sign"}),
   request_timeout : {0, Timeout}, failMode : {"Open", "Closed"},
   mode : {"Warn", "Enforce"}, pin : Policies \cup {None, "malformed"},
   jwk : Jwks \cup {None}, issuer : Text({"", "sigil-core", "issuer"}),
   framework : {"agent-hooks", "ironclaw", "custom"},
   agent_id : {"agent", "mine"}, task_id : {None, "task"}]

\* SigilClientBuilder::new.
new ==
  [api_url |-> [text |-> "https://sign", padded |-> FALSE],
   request_timeout |-> Timeout, failMode |-> "Closed", mode |-> "Enforce",
   pin |-> None, jwk |-> None, issuer |-> [text |-> "sigil-core", padded |-> FALSE],
   framework |-> "agent-hooks", agent_id |-> "agent", task_id |-> None]

trim(s) == [s EXCEPT !.padded = FALSE]

\* Url::parse tolerates white space around the text; build trims it anyway.
canonical_origin(s) ==
  IF s.text \in {"https://sign", "https://sign/"} THEN "https://sign" ELSE "invalid"

\* The field the builder refuses the settings for, in the order it looks.
BuildError(s) ==
  CASE s.api_url.text = "" \/ canonical_origin(trim(s.api_url)) = "invalid" -> "api_url"
    [] s.request_timeout = 0 -> "request_timeout"
    [] s.mode = "Enforce" /\ s.pin = None -> "expected_policy_hash"
    [] s.pin = "malformed" -> "expected_policy_hash"
    [] s.issuer.text = "" -> "attestation_issuer"
    [] OTHER -> "none"

\* The configuration of the client that build returns.
build(s) ==
  [s EXCEPT !.api_url = [text |-> canonical_origin(trim(s.api_url)), padded |-> FALSE],
            !.issuer = trim(s.issuer)]

\* An optional setting is only passed on when the client has one.
Given(value, default) == IF value # None THEN value ELSE default

\* Seeded fault: the policy pin is not passed on.
rebuild_settings_unpinned(c) ==
  [c EXCEPT !.framework = "ironclaw", !.pin = new.pin]

\* Seeded fault: the pinned key is not passed on.
rebuild_settings_keyless(c) ==
  [c EXCEPT !.framework = "ironclaw", !.jwk = new.jwk]

\* What IronclawSigilHookBuilder::build sets on a new builder, field by field.
rebuild_settings(c) ==
  [api_url |-> c.api_url, framework |-> "ironclaw", failMode |-> c.failMode,
   request_timeout |-> c.request_timeout, mode |-> c.mode, issuer |-> c.issuer,
   agent_id |-> c.agent_id, task_id |-> Given(c.task_id, new.task_id),
   pin |-> Given(c.pin, new.pin), jwk |-> Given(c.jwk, new.jwk)]

\* A client of another framework is used as it is.
Rebinds(c) == c.framework = "agent-hooks"

HookError(c) == IF Rebinds(c) THEN BuildError(rebuild_settings(c)) ELSE "none"

HookClient(c) == IF Rebinds(c) THEN build(rebuild_settings(c)) ELSE c
=============================================================================
