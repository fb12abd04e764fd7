----------------------------- MODULE IronclawHook -----------------------------
(***************************************************************************)
(* Tool calls of an IronClaw agent behind IronclawSigilHook: the hook's    *)
(* client is rebuilt from the caller's, each BeforeToolCall event becomes  *)
(* an intent and a check_intent, and its result becomes the outcome of the *)
(* hook, with a rejection context for the agent.                           *)
(*                                                                         *)
(* The runtime is external: it gives the hook timeout(), drops its future  *)
(* when that runs out, and blocks the tool then and on every error because *)
(* failure_mode is FailClosed.  The check itself is a POST followed by up  *)
(* to four fetches of key sets, each with a timeout as long as the hook's; *)
(* nothing is assumed of when they end.  What check_intent may answer is   *)
(* what AuthorityContract lets it, for the client the hook has built.      *)
(***************************************************************************)
EXTENDS ClientBuilder

CONSTANTS
  Calls,          \* events; a call is the nonce of its request
  Events,         \* tool calls: [tool, object], see EventType
  Lowercase,      \* to_ascii_lowercase on the tools' names
  Offered,        \* the settings explored
  ServerCodes,    \* error codes of the server's denials
  Holds           \* hold identifiers

\* A tool call: the tool's name and whether its parameters are an object.
EventType == [tool : DOMAIN Lowercase, object : BOOLEAN]

\* SIGIL_UNREACHABLE is the client's own code, not one the server sends.
ASSUME HookAssumption ==
  /\ Events \subseteq EventType
  /\ Offered \subseteq Settings
  /\ None \notin Holds \cup Events
  /\ "unreachable" \notin ServerCodes

VARIABLES
  settings,   \* what the caller configured its client with
  client,     \* the configuration of the hook's client, None before it is built
  pc,         \* idle, post (the request is out), verify (it was answered), done
  event,      \* the tool call, None for any other event of the runtime
  context,    \* what the check asks for, None when there is none
  left,       \* time left to the hook
  reached,    \* history: a response arrived
  allowed,    \* external: the requests the server has allowed
  authority,  \* history: the capability check_intent returned to the hook
  outcome,    \* of the hook: none, continue, reject, failed, timeout
  advice      \* the rejection context the agent is given

vars == <<settings, client, pc, event, context, left, reached, allowed, authority,
          outcome, advice>>

-----------------------------------------------------------------------------
(* DefaultToolIntentMapper. *)

mapped_action(tool) ==
  LET name == Lowercase[tool]
  IN CASE name \in {"exec", "process", "code_execution"} -> "bash"
       [] name \in {"write", "edit", "apply_patch"} -> "file_write"
       [] name \in {"web_fetch", "web_search", "x_search", "browser", "http"} -> "web_fetch"
       [] name \in {"wallet_transfer", "wallet.transfer"} -> "wallet.transfer"
       [] OTHER -> name

\* validate_intent: the parameters travel as metadata, which must be an object.
InvalidIntent(e) == mapped_action(e.tool) = "" \/ ~e.object

\* The commitment abstracts the intent the mapper makes of the event.
ContextOf(e) == [commit |-> mapped_action(e.tool), surface |-> "authorize", execution |-> TRUE]

-----------------------------------------------------------------------------
(* Results of check_intent, as far as the hook looks at them. *)

Result(decision, proof, code, hold) ==
  [decision |-> decision, authority |-> proof, code |-> code, hold |-> hold]

Legacy == Result("Allowed", "legacy", "none", None)

Verified == Result("Allowed", "verified", "none", None)

classify_unreachable ==
  IF client.failMode = "Open" THEN Legacy ELSE Result("Denied", "none", "unreachable", None)

\* A response that proves no permission: refused, held, or let through by Warn.
Unproven ==
  {Result("Denied", "none", code, None) :
     code \in {"verification_failed", "auth_failure", "policy_violation"} \cup ServerCodes}
  \cup {Result("Pending", "none", "none", hold) : hold \in Holds \cup {None}}
  \cup {r \in {Legacy} : client.mode = "Warn"}

\* The server allowed this request, under the pinned policy if there is one.
Proven(c) ==
  \E a \in allowed :
    /\ a.nonce = c
    /\ a.intent = context[c].commit
    /\ a.surface = context[c].surface
    /\ client.pin # None => a.policy = client.pin

\* Seeded fault: whatever was not allowed is explained as an outage.
build_rejection_context_confused(r) ==
  [decision |-> "DENIED", code |-> r.code, hold |-> None, next |-> "retry"]

build_rejection_context(r) ==
  IF r.decision = "Pending"
    THEN [decision |-> "PENDING", code |-> "hold_required", hold |-> r.hold,
          next |-> "await_operator"]
    ELSE [decision |-> "DENIED",
          code |-> IF r.code = "none" THEN "policy_violation" ELSE r.code, hold |-> None,
          next |-> CASE r.code = "unreachable" -> "retry"
                     [] r.code = "budget_exceeded" -> "stop_run"
                     [] r.code = "usage_unavailable" -> "report_usage"
                     [] OTHER -> "await_review"]

\* Seeded fault: the decision counts, not the capability or what it rests on.
authorization_permits_execution_any(r) == r.decision # "Denied"

authorization_permits_execution(r) == r.decision = "Allowed" /\ r.authority # "none"

-----------------------------------------------------------------------------
ContextType == {ContextOf(e) : e \in Events}

\* An absent context is not mistaken for one.
ASSUME AbsenceAssumption == None \notin ContextType

AdviceType ==
  [decision : {"PENDING", "DENIED"}, hold : Holds \cup {None},
   code : {"hold_required", "unreachable", "verification_failed", "auth_failure",
           "policy_violation"} \cup ServerCodes,
   next : {"retry", "await_operator", "await_review", "stop_run", "report_usage"}]

TypeOK ==
  /\ settings \in Offered
  /\ client \in Settings \cup {None}
  /\ pc \in [Calls -> {"idle", "post", "verify", "done"}]
  /\ event \in [Calls -> Events \cup {None}]
  /\ context \in [Calls -> ContextType \cup {None}]
  /\ left \in [Calls -> 0..Timeout]
  /\ reached \in [Calls -> BOOLEAN]
  /\ authority \in [Calls -> {"none", "legacy", "verified"}]
  /\ outcome \in [Calls -> {"none", "continue", "reject", "failed", "timeout"}]
  /\ advice \in [Calls -> AdviceType \cup {None}]

Init ==
  /\ settings \in Offered
  /\ client = None
  /\ pc = [c \in Calls |-> "idle"]
  /\ event = [c \in Calls |-> None]
  /\ context = [c \in Calls |-> None]
  /\ left = [c \in Calls |-> 0]
  /\ reached = [c \in Calls |-> FALSE]
  /\ allowed = {}
  /\ authority = [c \in Calls |-> "none"]
  /\ outcome = [c \in Calls |-> "none"]
  /\ advice = [c \in Calls |-> None]

\* The caller's build, then the hook builder's.
BuildHook ==
  /\ client = None
  /\ BuildError(settings) = "none"
  /\ HookError(build(settings)) = "none"
  /\ client' = HookClient(build(settings))
  /\ UNCHANGED <<settings, pc, event, context, left, reached, allowed, authority,
                 outcome, advice>>

\* execute on an event that is no tool call.
OtherEvent(c) ==
  /\ client # None
  /\ pc[c] = "idle"
  /\ pc' = [pc EXCEPT ![c] = "done"]
  /\ outcome' = [outcome EXCEPT ![c] = "continue"]
  /\ UNCHANGED <<settings, client, event, context, left, reached, allowed, authority, advice>>

\* execute on a tool call, up to the POST; an invalid intent is an error.
ToolCall(c, e) ==
  /\ client # None
  /\ pc[c] = "idle"
  /\ event' = [event EXCEPT ![c] = e]
  /\ IF InvalidIntent(e)
       THEN /\ pc' = [pc EXCEPT ![c] = "done"]
            /\ outcome' = [outcome EXCEPT ![c] = "failed"]
            /\ UNCHANGED <<context, left>>
       ELSE /\ pc' = [pc EXCEPT ![c] = "post"]
            /\ context' = [context EXCEPT ![c] = ContextOf(e)]
            /\ left' = [left EXCEPT ![c] = client.request_timeout]
            /\ UNCHANGED outcome
  /\ UNCHANGED <<settings, client, reached, allowed, authority, advice>>

\* External: the server allows a request it may have received.
Allow(c) ==
  /\ context[c] # None
  /\ \E policy \in Policies :
       allowed' = allowed \cup {[nonce |-> c, intent |-> context[c].commit,
                                 surface |-> context[c].surface, policy |-> policy]}
  /\ UNCHANGED <<settings, client, pc, event, context, left, reached, authority,
                 outcome, advice>>

\* check_intent has returned, and execute makes an outcome of its result.
Decide(c, r) ==
  /\ pc' = [pc EXCEPT ![c] = "done"]
  /\ left' = [left EXCEPT ![c] = 0]
  /\ authority' = [authority EXCEPT ![c] = r.authority]
  /\ IF authorization_permits_execution(r)
       THEN /\ outcome' = [outcome EXCEPT ![c] = "continue"]
            /\ UNCHANGED advice
       ELSE /\ outcome' = [outcome EXCEPT ![c] = "reject"]
            /\ advice' = [advice EXCEPT ![c] = build_rejection_context(r)]

\* The POST ends without a response head: refused, unresolved or timed out.
NoResponse(c) ==
  /\ pc[c] = "post"
  /\ Decide(c, classify_unreachable)
  /\ UNCHANGED <<settings, client, event, context, reached, allowed>>

\* A response arrives; it may settle the check or ask for keys.
Respond(c) ==
  /\ pc[c] = "post"
  /\ reached' = [reached EXCEPT ![c] = TRUE]
  /\ \/ \E r \in Unproven : Decide(c, r)
     \/ /\ pc' = [pc EXCEPT ![c] = "verify"]
        /\ UNCHANGED <<left, authority, outcome, advice>>
  /\ UNCHANGED <<settings, client, event, context, allowed>>

\* Verification ends after the key resolutions it needed.
Verify(c) ==
  /\ pc[c] = "verify"
  /\ \/ \E r \in Unproven : Decide(c, r)
     \/ Proven(c) /\ Decide(c, Verified)
  /\ UNCHANGED <<settings, client, event, context, reached, allowed>>

\* Seeded fault: the hook timeout covers the request but not the key fetches.
HookTimeout_request_only(c) ==
  /\ pc[c] = "post"
  /\ left[c] = 0
  /\ pc' = [pc EXCEPT ![c] = "done"]
  /\ outcome' = [outcome EXCEPT ![c] = "timeout"]
  /\ UNCHANGED <<settings, client, event, context, left, reached, allowed, authority, advice>>

\* The runtime gives the hook up: the check is dropped wherever it stands.
HookTimeout(c) ==
  /\ pc[c] \in {"post", "verify"}
  /\ left[c] = 0
  /\ pc' = [pc EXCEPT ![c] = "done"]
  /\ outcome' = [outcome EXCEPT ![c] = "timeout"]
  /\ UNCHANGED <<settings, client, event, context, left, reached, allowed, authority, advice>>

\* Time passes; the runtime's timers fire on time.
Tick ==
  /\ \E c \in Calls : pc[c] \in {"post", "verify"}
  /\ \A c \in Calls : pc[c] \in {"post", "verify"} => left[c] > 0
  /\ left' = [c \in Calls |-> IF left[c] > 0 THEN left[c] - 1 ELSE 0]
  /\ UNCHANGED <<settings, client, pc, event, context, reached, allowed, authority,
                 outcome, advice>>

Next ==
  \/ BuildHook
  \/ \E c \in Calls :
       \/ OtherEvent(c)
       \/ \E e \in Events : ToolCall(c, e)
       \/ Allow(c) \/ NoResponse(c) \/ Respond(c) \/ Verify(c) \/ HookTimeout(c)
  \/ Tick

Spec == Init /\ [][Next]_vars

\* Time passes and the runtime's timer fires; no answer of the server, and no
\* end of any exchange, is assumed.
FairSpec == Spec /\ WF_vars(Tick) /\ \A c \in Calls : WF_vars(HookTimeout(c))

-----------------------------------------------------------------------------
(* Properties. *)

\* A tool runs only on authority its caller's own configuration accepts, and
\* that arrived while the hook was still waiting: allowed by the server for this
\* very call under the pin the caller set, or unverified only as the caller's
\* mode and fail mode say.  Whatever the rebuilt client and the timeout did.
ToolsRunOnAuthority ==
  \A c \in Calls : outcome[c] = "continue" /\ event[c] # None =>
    \/ /\ authority[c] = "verified"
       /\ \E a \in allowed :
            /\ a.nonce = c
            /\ a.intent = mapped_action(event[c].tool)
            /\ settings.pin # None => a.policy = settings.pin
    \/ /\ authority[c] = "legacy"
       /\ IF reached[c] THEN settings.mode = "Warn" ELSE settings.failMode = "Open"

\* An agent is told to retry only when no response arrived at all and the caller
\* did not ask to fail open: the advice is never given for a decision of the
\* server, nor for a response that could not be verified.
RetryOnlyAfterOutage ==
  \A c \in Calls : advice[c] # None =>
    (advice[c].next = "retry" => ~reached[c] /\ settings.failMode = "Closed")

\* Whatever client the caller could build, the hook can be built from it: its
\* configuration passes the builder a second time, which changes the framework
\* and nothing else, so that no field falls back to a default of the builder.
RebindKeepsConfiguration ==
  BuildError(settings) = "none" =>
    /\ HookError(build(settings)) = "none"
    /\ client # None =>
         client = [build(settings) EXCEPT
                     !.framework = IF @ = "agent-hooks" THEN "ironclaw" ELSE @]

\* Every tool call is answered within the hook timeout, however many exchanges
\* its check has left and whether or not any of them ends.
CallsEnd == \A c \in Calls : pc[c] # "idle" ~> pc[c] = "done"

phase ==
  [c \in Calls |-> IF context[c] = None THEN "idle"
                   ELSE IF pc[c] = "done" THEN "done" ELSE "open"]

\* The contract of check_intent as the caller configured it, while the hook
\* works with a client rebuilt from that configuration.
CallersContract == INSTANCE AuthorityContract WITH
  Checks <- Calls, Contexts <- ContextType, Configs <- Offered,
  config <- settings, phase <- phase

\* Through the hook, authority is handed out as the caller's configuration
\* says, with the check cut off at any point.
ImplementsCallersContract == CallersContract!Spec

=============================================================================
