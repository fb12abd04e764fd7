-------------------------- MODULE IronclawHookProofs --------------------------
(***************************************************************************)
(* Proofs about IronclawHook, for every number of calls, tools, settings,  *)
(* policies and holds.                                                     *)
(***************************************************************************)
EXTENDS IronclawHook, TLAPS

\* What the properties need of the rebuilt client.
SameRules(h, s) == h.mode = s.mode /\ h.failMode = s.failMode /\ h.pin = s.pin

\* Rebuilding yields acceptable settings and keeps the rules of the caller.
LEMMA HookClientKeeps ==
  ASSUME NEW s \in Settings, BuildError(s) = "none"
  PROVE  HookClient(build(s)) \in Settings /\ SameRules(HookClient(build(s)), s)
<1> DEFINE b == build(s)
<1>1. b \in Settings /\ SameRules(b, s)
  BY DEF build, Settings, Text, trim, canonical_origin, BuildError, SameRules
<1>2. CASE ~Rebinds(b)
  BY <1>1, <1>2 DEF HookClient
<1>3. CASE Rebinds(b)
  <2> DEFINE r == rebuild_settings(b)
  <2>1. new.pin = None /\ new.jwk = None /\ new.task_id = None
    BY DEF new
  <2>2. r \in Settings /\ SameRules(r, b) /\ r.api_url = b.api_url
    <3>1. /\ b.api_url \in Text({"", "https://sign", "https://sign/", "http://sign"})
          /\ b.request_timeout \in {0, Timeout} /\ b.failMode \in {"Open", "Closed"}
          /\ b.mode \in {"Warn", "Enforce"} /\ b.pin \in Policies \cup {None, "malformed"}
          /\ b.jwk \in Jwks \cup {None} /\ b.issuer \in Text({"", "sigil-core", "issuer"})
          /\ b.agent_id \in {"agent", "mine"} /\ b.task_id \in {None, "task"}
      BY <1>1 DEF Settings
    <3>2. r \in Settings
      BY <2>1, <3>1 DEF Settings, rebuild_settings, Given
    <3> QED
      BY <2>1, <3>2 DEF SameRules, rebuild_settings, Given
  <2>3. canonical_origin(trim(r.api_url)) = "https://sign"
    <3>1. b.api_url = [text |-> canonical_origin(trim(s.api_url)), padded |-> FALSE]
      BY DEF build, Settings
    <3>2. canonical_origin(trim(s.api_url)) = "https://sign"
      BY DEF BuildError, canonical_origin
    <3> QED
      BY <2>2, <3>1, <3>2 DEF canonical_origin, trim
  <2>4. build(r) \in Settings /\ SameRules(build(r), r)
    <3>1. trim(r.issuer) \in Text({"", "sigil-core", "issuer"})
      <4>1. r.issuer \in Text({"", "sigil-core", "issuer"})
        BY <2>2 DEF Settings
      <4> QED
        BY <4>1 DEF Text, trim
    <3>2. [text |-> canonical_origin(trim(r.api_url)), padded |-> FALSE]
            \in Text({"", "https://sign", "https://sign/", "http://sign"})
      BY <2>3 DEF Text
    <3>3. build(r) \in Settings
      BY <2>2, <3>1, <3>2 DEF build, Settings
    <3> QED
      BY <2>2, <3>3 DEF build, Settings, SameRules
  <2> QED
    BY <1>1, <1>3, <2>2, <2>4 DEF HookClient, SameRules
<1> QED
  BY <1>2, <1>3

\* What check_intent may answer keeps to the results' types.
LEMMA ResultTypes ==
  ASSUME NEW r \in Unproven \cup {Verified, classify_unreachable}
  PROVE  /\ r.authority \in {"none", "legacy", "verified"}
         /\ ~authorization_permits_execution(r) => build_rejection_context(r) \in AdviceType
<1> DEFINE Shape == [decision : {"Allowed", "Denied", "Pending"},
                     authority : {"none", "legacy", "verified"},
                     code : {"none", "unreachable", "verification_failed", "auth_failure",
                             "policy_violation"} \cup ServerCodes,
                     hold : Holds \cup {None}]
<1>1. r \in Shape
  BY DEF Unproven, Verified, classify_unreachable, Legacy, Result
<1> QED
  BY <1>1 DEF build_rejection_context, AdviceType

\* A call waits with the intent of its event, and knows whether it was answered.
CallInv ==
  \A c \in Calls :
    /\ pc[c] = "idle" => event[c] = None
    /\ pc[c] # "idle" => client # None
    /\ pc[c] \in {"post", "verify"} =>
         event[c] \in Events /\ context[c] = ContextOf(event[c])
    /\ pc[c] \in {"idle", "post"} => ~reached[c]
    /\ pc[c] = "verify" => reached[c]
    /\ pc[c] # "done" => outcome[c] = "none"

ConfigInv == client # None => SameRules(client, settings)

IInv == TypeOK /\ ConfigInv /\ CallInv /\ ToolsRunOnAuthority

LEMMA InitIInv == Init => IInv
<1> SUFFICES ASSUME Init PROVE IInv
  OBVIOUS
<1>1. TypeOK
  BY BuilderAssumption DEF Init, TypeOK
<1>2. ConfigInv /\ CallInv /\ ToolsRunOnAuthority
  BY DEF Init, ConfigInv, CallInv, ToolsRunOnAuthority
<1> QED
  BY <1>1, <1>2 DEF IInv

\* The part of a step that decides a call: common to four actions.
LEMMA DecideIInv ==
  ASSUME IInv, NEW c \in Calls, NEW r \in Unproven \cup {Verified, classify_unreachable},
         pc[c] \in {"post", "verify"}, Decide(c, r),
         UNCHANGED <<settings, client, event, context, allowed>>,
         reached' \in [Calls -> BOOLEAN],
         \A d \in Calls \ {c} : reached'[d] = reached[d],
         r.authority = "verified" => Proven(c),
         r.authority = "legacy" =>
           IF reached'[c] THEN client.mode = "Warn" ELSE client.failMode = "Open"
  PROVE  IInv'
<1>0. SameRules(client, settings) /\ event[c] \in Events /\ context[c] = ContextOf(event[c])
  BY DEF IInv, ConfigInv, CallInv
<1>1. TypeOK'
  <2>1. 0 \in 0..Timeout /\ r.authority \in {"none", "legacy", "verified"}
    BY ResultTypes, BuilderAssumption
  <2>2. pc' \in [Calls -> {"idle", "post", "verify", "done"}]
    BY DEF IInv, TypeOK, Decide
  <2>3. left' \in [Calls -> 0..Timeout] /\ authority' \in [Calls -> {"none", "legacy", "verified"}]
    BY <2>1 DEF IInv, TypeOK, Decide
  <2>4. outcome' \in [Calls -> {"none", "continue", "reject", "failed", "timeout"}]
    BY DEF IInv, TypeOK, Decide
  <2>5. advice' \in [Calls -> AdviceType \cup {None}]
    BY ResultTypes DEF IInv, TypeOK, Decide
  <2> QED
    BY <2>2, <2>3, <2>4, <2>5 DEF IInv, TypeOK
<1>2. ConfigInv'
  BY DEF IInv, ConfigInv
<1>3. CallInv'
  BY DEF IInv, TypeOK, CallInv, Decide
<1>4. ToolsRunOnAuthority'
  <2> SUFFICES ASSUME NEW d \in Calls, outcome'[d] = "continue", event'[d] # None
               PROVE  \/ /\ authority'[d] = "verified"
                         /\ \E a \in allowed' :
                              /\ a.nonce = d
                              /\ a.intent = mapped_action(event'[d].tool)
                              /\ settings'.pin # None => a.policy = settings'.pin
                      \/ /\ authority'[d] = "legacy"
                         /\ IF reached'[d] THEN settings'.mode = "Warn"
                                           ELSE settings'.failMode = "Open"
    BY DEF ToolsRunOnAuthority
  <2>1. CASE d # c
    <3>1. outcome[d] = "continue" /\ authority'[d] = authority[d] /\ reached'[d] = reached[d]
      BY <2>1 DEF Decide, IInv, TypeOK
    <3> QED
      BY <3>1 DEF IInv, ToolsRunOnAuthority
  <2>2. CASE d = c
    <3>1. authority'[c] = r.authority /\ r.authority # "none"
      BY <2>2 DEF Decide, IInv, TypeOK, authorization_permits_execution
    <3>2. CASE r.authority = "verified"
      BY <1>0, <2>2, <3>1, <3>2 DEF Proven, ContextOf, SameRules
    <3>3. CASE r.authority = "legacy"
      BY <1>0, <2>2, <3>1, <3>3 DEF SameRules
    <3> QED
      BY <3>1, <3>2, <3>3, ResultTypes
  <2> QED
    BY <2>1, <2>2
<1> QED
  BY <1>1, <1>2, <1>3, <1>4 DEF IInv

LEMMA NextIInv == IInv /\ [Next]_vars => IInv'
<1> SUFFICES ASSUME IInv, [Next]_vars PROVE IInv'
  OBVIOUS
<1> USE HookAssumption, BuilderAssumption
<1>1. CASE BuildHook
  <2>1. settings \in Settings
    BY DEF IInv, TypeOK
  <2> QED
    BY <1>1, <2>1, HookClientKeeps
      DEF BuildHook, IInv, TypeOK, ConfigInv, CallInv, ToolsRunOnAuthority
<1>2. ASSUME NEW c \in Calls, OtherEvent(c) PROVE IInv'
  BY <1>2 DEF OtherEvent, IInv, TypeOK, ConfigInv, CallInv, ToolsRunOnAuthority
<1>3. ASSUME NEW c \in Calls, NEW e \in Events, ToolCall(c, e) PROVE IInv'
  <2>0. client \in Settings
    BY <1>3 DEF ToolCall, IInv, TypeOK
  <2>1. client.request_timeout \in 0..Timeout
    <3>1. client.request_timeout \in {0, Timeout}
      BY <2>0 DEF Settings
    <3> QED
      BY <3>1
  <2>2. TypeOK'
    BY <1>3, <2>1 DEF ToolCall, IInv, TypeOK, ContextType
  <2>3. ConfigInv'
    BY <1>3 DEF ToolCall, IInv, ConfigInv
  <2>5. CallInv'
    <3>1. client' # None /\ ~reached[c]
      BY <1>3 DEF ToolCall, IInv, CallInv, TypeOK
    <3> QED
      BY <1>3, <3>1 DEF ToolCall, IInv, TypeOK, CallInv
  <2>4. ToolsRunOnAuthority'
    BY <1>3 DEF ToolCall, IInv, TypeOK, CallInv, ToolsRunOnAuthority
  <2> QED
    BY <2>2, <2>3, <2>4, <2>5 DEF IInv
<1>4. ASSUME NEW c \in Calls, Allow(c) PROVE IInv'
  <2>1. allowed \subseteq allowed'
    BY <1>4 DEF Allow
  <2> QED
    BY <1>4, <2>1 DEF Allow, IInv, TypeOK, ConfigInv, CallInv, ToolsRunOnAuthority
<1>5. ASSUME NEW c \in Calls, NoResponse(c) PROVE IInv'
  <2>1. ~reached[c] /\ reached \in [Calls -> BOOLEAN]
    BY <1>5 DEF NoResponse, IInv, CallInv, TypeOK
  <2>2. classify_unreachable.authority = "legacy" => client.failMode = "Open"
    BY DEF classify_unreachable, Result
  <2>3. classify_unreachable.authority # "verified"
    BY DEF classify_unreachable, Legacy, Result
  <2> QED
    BY <1>5, <2>1, <2>2, <2>3, DecideIInv DEF NoResponse
<1>6. \A r \in Unproven : r.authority # "verified" /\ (r.authority = "legacy" => client.mode = "Warn")
  BY DEF Unproven, Legacy, Result
<1>7. ASSUME NEW c \in Calls, Respond(c) PROVE IInv'
  <2>1. /\ pc[c] = "post" /\ reached'[c] /\ reached' \in [Calls -> BOOLEAN]
        /\ \A d \in Calls \ {c} : reached'[d] = reached[d]
    BY <1>7 DEF Respond, IInv, TypeOK
  <2>2. CASE \E r \in Unproven : Decide(c, r)
    BY <1>6, <1>7, <2>1, <2>2, DecideIInv DEF Respond
  <2>3. CASE pc' = [pc EXCEPT ![c] = "verify"] /\ UNCHANGED <<left, authority, outcome, advice>>
    BY <1>7, <2>1, <2>3 DEF Respond, IInv, TypeOK, ConfigInv, CallInv, ToolsRunOnAuthority
  <2> QED
    BY <1>7, <2>2, <2>3 DEF Respond
<1>8. ASSUME NEW c \in Calls, Verify(c) PROVE IInv'
  <2>1. pc[c] = "verify" /\ reached[c] /\ reached' = reached /\ reached \in [Calls -> BOOLEAN]
    BY <1>8 DEF Verify, IInv, TypeOK, CallInv
  <2>2. CASE \E r \in Unproven : Decide(c, r)
    BY <1>6, <1>8, <2>1, <2>2, DecideIInv DEF Verify
  <2>3. CASE Proven(c) /\ Decide(c, Verified)
    BY <1>8, <2>1, <2>3, DecideIInv DEF Verify, Verified, Result
  <2> QED
    BY <1>8, <2>2, <2>3 DEF Verify
<1>9. ASSUME NEW c \in Calls, HookTimeout(c) PROVE IInv'
  BY <1>9 DEF HookTimeout, IInv, TypeOK, ConfigInv, CallInv, ToolsRunOnAuthority
<1>10. CASE Tick
  BY <1>10 DEF Tick, IInv, TypeOK, ConfigInv, CallInv, ToolsRunOnAuthority
<1>11. CASE UNCHANGED vars
  BY <1>11 DEF vars, IInv, TypeOK, ConfigInv, CallInv, ToolsRunOnAuthority
<1> QED
  BY <1>1, <1>2, <1>3, <1>4, <1>5, <1>7, <1>8, <1>9, <1>10, <1>11 DEF Next

LEMMA Invariance == Spec => []IInv
BY InitIInv, NextIInv, PTL DEF Spec

\* Every reachable state of the hook is well typed: timers stay within the
\* request timeout, and contexts and advice are of calls and codes that exist.
THEOREM HookTypeCorrect == Spec => []TypeOK
BY Invariance, PTL DEF IInv

\* No tool call of the agent continues except on authority that its caller's own
\* configuration accepts, given before the hook ran out of time.
THEOREM ToolsRunOnlyOnAuthority == Spec => []ToolsRunOnAuthority
BY Invariance, PTL DEF IInv

-----------------------------------------------------------------------------
(* Retry advice and the contract of check_intent.                            *)

\* A call that is not over has nothing to show, and one that has not begun asks
\* for nothing.
QuietInv ==
  \A c \in Calls :
    /\ pc[c] = "idle" => context[c] = None
    /\ pc[c] # "done" => advice[c] = None /\ authority[c] = "none"

CInv == QuietInv /\ RetryOnlyAfterOutage

\* Only the classification of an unreachable server advises to retry.
LEMMA RetryMeansUnreachable ==
  ASSUME NEW r \in Unproven \cup {Verified, classify_unreachable},
         ~authorization_permits_execution(r),
         build_rejection_context(r).next = "retry"
  PROVE  r = classify_unreachable /\ client.failMode # "Open"
<1>1. r.decision # "Pending" /\ r.code = "unreachable"
  BY DEF build_rejection_context
<1>2. r \notin Unproven /\ r # Verified
  BY <1>1, HookAssumption DEF Unproven, Verified, Legacy, Result
<1> QED
  BY <1>1, <1>2 DEF classify_unreachable, Legacy, Result

\* Deciding a call keeps both, if retrying is advised before any response only.
LEMMA DecideCInv ==
  ASSUME IInv, CInv, NEW c \in Calls, NEW r \in Unproven \cup {Verified, classify_unreachable},
         pc[c] \in {"post", "verify"}, Decide(c, r),
         UNCHANGED <<settings, client, event, context, allowed>>,
         \A d \in Calls \ {c} : reached'[d] = reached[d],
         r = classify_unreachable => ~reached'[c] \/ r \in Unproven
  PROVE  CInv'
<1>1. pc'[c] = "done" /\ \A d \in Calls \ {c} :
        pc'[d] = pc[d] /\ advice'[d] = advice[d] /\ authority'[d] = authority[d]
  BY DEF Decide, IInv, TypeOK
<1>2. QuietInv'
  BY <1>1 DEF CInv, QuietInv
<1>3. ASSUME advice'[c] # None, advice'[c].next = "retry"
      PROVE  ~reached'[c] /\ settings.failMode = "Closed"
  <2>1. ~authorization_permits_execution(r) /\ advice'[c] = build_rejection_context(r)
    BY <1>3 DEF Decide, IInv, TypeOK, CInv, QuietInv
  <2>2. r = classify_unreachable /\ client.failMode # "Open"
    BY <1>3, <2>1, RetryMeansUnreachable
  <2>3. r \notin Unproven
    BY <2>2, HookAssumption DEF Unproven, classify_unreachable, Legacy, Result
  <2>4. client \in Settings /\ client.failMode = settings.failMode
    BY DEF IInv, TypeOK, ConfigInv, CallInv, SameRules
  <2> QED
    BY <2>2, <2>3, <2>4 DEF Settings
<1>4. RetryOnlyAfterOutage'
  BY <1>1, <1>3 DEF CInv, RetryOnlyAfterOutage
<1> QED
  BY <1>2, <1>4 DEF CInv

LEMMA CInvStep == IInv /\ CInv /\ [Next]_vars => CInv'
<1> SUFFICES ASSUME IInv, CInv, [Next]_vars PROVE CInv'
  OBVIOUS
<1>1. CASE BuildHook
  BY <1>1 DEF BuildHook, CInv, QuietInv, RetryOnlyAfterOutage
<1>2. ASSUME NEW c \in Calls, OtherEvent(c) PROVE CInv'
  BY <1>2 DEF OtherEvent, IInv, TypeOK, CInv, QuietInv, RetryOnlyAfterOutage
<1>3. ASSUME NEW c \in Calls, NEW e \in Events, ToolCall(c, e) PROVE CInv'
  BY <1>3 DEF ToolCall, IInv, TypeOK, CInv, QuietInv, RetryOnlyAfterOutage
<1>4. ASSUME NEW c \in Calls, Allow(c) PROVE CInv'
  BY <1>4 DEF Allow, CInv, QuietInv, RetryOnlyAfterOutage
<1>5. ASSUME NEW c \in Calls, NoResponse(c) PROVE CInv'
  <2>1. ~reached[c]
    BY <1>5 DEF NoResponse, IInv, CallInv
  <2> QED
    BY <1>5, <2>1, DecideCInv DEF NoResponse
<1>6. ASSUME NEW c \in Calls, Respond(c) PROVE CInv'
  <2>1. /\ pc[c] = "post"
        /\ \A d \in Calls \ {c} : reached'[d] = reached[d]
        /\ UNCHANGED <<settings, client, event, context, allowed>>
    BY <1>6 DEF Respond, IInv, TypeOK
  <2>2. CASE \E r \in Unproven : Decide(c, r)
    BY <2>1, <2>2, DecideCInv
  <2>3. CASE pc' = [pc EXCEPT ![c] = "verify"] /\ UNCHANGED <<left, authority, outcome, advice>>
    <3>1. QuietInv' /\ advice[c] = None
      BY <2>1, <2>3 DEF IInv, TypeOK, CInv, QuietInv
    <3> QED
      BY <2>1, <2>3, <3>1 DEF CInv, RetryOnlyAfterOutage
  <2> QED
    BY <1>6, <2>2, <2>3 DEF Respond
<1>7. ASSUME NEW c \in Calls, Verify(c) PROVE CInv'
  <2>1. /\ pc[c] = "verify" /\ reached' = reached
        /\ UNCHANGED <<settings, client, event, context, allowed>>
    BY <1>7 DEF Verify
  <2>2. PICK r \in Unproven \cup {Verified} : Decide(c, r)
    BY <1>7 DEF Verify
  <2>3. r = classify_unreachable => r \in Unproven
    BY <2>2 DEF classify_unreachable, Verified, Legacy, Result
  <2> QED
    BY <2>1, <2>2, <2>3, DecideCInv
<1>8. ASSUME NEW c \in Calls, HookTimeout(c) PROVE CInv'
  BY <1>8 DEF HookTimeout, IInv, TypeOK, CInv, QuietInv, RetryOnlyAfterOutage
<1>9. CASE Tick \/ UNCHANGED vars
  BY <1>9 DEF Tick, vars, CInv, QuietInv, RetryOnlyAfterOutage
<1> QED
  BY <1>1, <1>2, <1>3, <1>4, <1>5, <1>6, <1>7, <1>8, <1>9 DEF Next

LEMMA CInvariance == Spec => [](IInv /\ CInv)
<1>1. Init => CInv
  BY DEF Init, CInv, QuietInv, RetryOnlyAfterOutage
<1> QED
  BY <1>1, CInvStep, Invariance, PTL DEF Spec

\* An agent is told to retry only after an outage under a fail-closed caller:
\* never for a decision of the server or a response that failed verification.
THEOREM RetriesOnlyAfterOutage == Spec => []RetryOnlyAfterOutage
BY CInvariance, PTL DEF CInv

\* A check that is decided settles or concludes its call in the contract, with
\* the rules of the caller's settings, which the hook's client has kept.
LEMMA DecideAsContract ==
  ASSUME IInv, CInv, NEW c \in Calls, NEW r \in Unproven \cup {Verified, classify_unreachable},
         pc[c] \in {"post", "verify"}, Decide(c, r),
         UNCHANGED <<settings, context, allowed>>,
         r.authority = "verified" => pc[c] = "verify" /\ Proven(c),
         r.authority = "legacy" =>
           IF reached'[c] THEN client.mode = "Warn" ELSE client.failMode = "Open",
         \/ UNCHANGED reached
         \/ pc[c] = "post" /\ reached' = [reached EXCEPT ![c] = TRUE]
  PROVE  CallersContract!Next
<1>1. SameRules(client, settings) /\ context[c] = ContextOf(event[c]) /\ context[c] # None
  BY AbsenceAssumption DEF IInv, ConfigInv, CallInv, ContextType
<1>2. phase[c] = "open" /\ phase' = [phase EXCEPT ![c] = "done"]
  BY <1>1 DEF Decide, IInv, TypeOK, phase
<1>3. authority' = [authority EXCEPT ![c] = r.authority]
  BY DEF Decide
<1>4. r.authority = "none" => UNCHANGED authority
  BY <1>3 DEF IInv, TypeOK, CInv, QuietInv
<1>5. r.authority = "verified" =>
        reached[c] /\ context[c].execution /\ CallersContract!Backed(c)
  BY <1>1 DEF IInv, CallInv, ContextOf, Proven, SameRules, CallersContract!Backed
<1>6. r.authority = "legacy" =>
        IF reached'[c] THEN settings.mode = "Warn" ELSE settings.failMode = "Open"
  BY <1>1 DEF SameRules
<1>7. r.authority \in {"none", "legacy", "verified"}
  BY ResultTypes
<1>8. CASE UNCHANGED reached
  <2>1. CallersContract!Conclude(c)
    BY <1>2, <1>3, <1>4, <1>5, <1>6, <1>7, <1>8 DEF CallersContract!Conclude
  <2> QED
    BY <2>1 DEF CallersContract!Next
<1>9. CASE pc[c] = "post" /\ reached' = [reached EXCEPT ![c] = TRUE]
  <2>1. ~reached[c] /\ reached'[c] /\ r.authority # "verified"
    BY <1>9 DEF IInv, TypeOK, CallInv
  <2>2. CallersContract!Respond(c)
    BY <1>2, <1>3, <1>4, <1>6, <1>7, <1>9, <2>1 DEF CallersContract!Respond
  <2> QED
    BY <2>2 DEF CallersContract!Next
<1> QED
  BY <1>8, <1>9

LEMMA CallersContractStep ==
  IInv /\ CInv /\ [Next]_vars => [CallersContract!Next]_CallersContract!vars
<1> SUFFICES ASSUME IInv, CInv, [Next]_vars
             PROVE  CallersContract!Next \/ UNCHANGED CallersContract!vars
  OBVIOUS
<1>1. CASE BuildHook \/ Tick \/ UNCHANGED vars
  BY <1>1 DEF BuildHook, Tick, vars, phase, CallersContract!vars
<1>2. ASSUME NEW c \in Calls, OtherEvent(c) PROVE UNCHANGED CallersContract!vars
  <2>1. phase' = phase
    BY <1>2 DEF OtherEvent, IInv, TypeOK, CInv, QuietInv, phase
  <2> QED
    BY <1>2, <2>1 DEF OtherEvent, CallersContract!vars
<1>3. ASSUME NEW c \in Calls, NEW e \in Events, ToolCall(c, e)
      PROVE  CallersContract!Next \/ UNCHANGED CallersContract!vars
  <2>1. pc[c] = "idle" /\ context[c] = None
    BY <1>3 DEF ToolCall, CInv, QuietInv
  <2>2. CASE InvalidIntent(e)
    <3>1. phase' = phase
      BY <1>3, <2>1, <2>2 DEF ToolCall, IInv, TypeOK, phase
    <3> QED
      BY <1>3, <2>2, <3>1 DEF ToolCall, CallersContract!vars
  <2>3. CASE ~InvalidIntent(e)
    <3>1. ContextOf(e) \in ContextType /\ ContextOf(e) # None
      BY AbsenceAssumption DEF ContextType
    <3>2. /\ pc' = [pc EXCEPT ![c] = "post"]
          /\ context' = [context EXCEPT ![c] = ContextOf(e)]
          /\ UNCHANGED <<settings, reached, allowed, authority>>
      BY <1>3, <2>3 DEF ToolCall
    <3>3. phase[c] = "idle" /\ phase' = [phase EXCEPT ![c] = "open"]
      BY <2>1, <3>1, <3>2 DEF IInv, TypeOK, phase
    <3>4. CallersContract!Open(c, ContextOf(e))
      BY <3>2, <3>3 DEF CallersContract!Open
    <3> QED
      BY <3>1, <3>4 DEF CallersContract!Next
  <2> QED
    BY <2>2, <2>3
<1>4. ASSUME NEW c \in Calls, Allow(c) PROVE CallersContract!Next
  <2>1. phase' = phase /\ allowed \subseteq allowed'
    BY <1>4 DEF Allow, phase
  <2>2. CallersContract!Allow
    BY <1>4, <2>1 DEF Allow, CallersContract!Allow
  <2> QED
    BY <2>2 DEF CallersContract!Next
<1>5. ASSUME NEW c \in Calls, NoResponse(c) PROVE CallersContract!Next
  <2>1. ~reached[c]
    BY <1>5 DEF NoResponse, IInv, CallInv
  <2>2. /\ classify_unreachable.authority # "verified"
        /\ classify_unreachable.authority = "legacy" => client.failMode = "Open"
    BY DEF classify_unreachable, Legacy, Result
  <2> QED
    BY <1>5, <2>1, <2>2, DecideAsContract DEF NoResponse
<1>6. \A r \in Unproven : r.authority # "verified" /\ (r.authority = "legacy" => client.mode = "Warn")
  BY DEF Unproven, Legacy, Result
<1>7. ASSUME NEW c \in Calls, Respond(c) PROVE CallersContract!Next
  <2>1. /\ pc[c] = "post" /\ ~reached[c] /\ reached' = [reached EXCEPT ![c] = TRUE]
        /\ UNCHANGED <<settings, context, allowed>>
    BY <1>7 DEF Respond, IInv, CallInv
  <2>2. reached'[c]
    BY <2>1 DEF IInv, TypeOK
  <2>3. CASE \E r \in Unproven : Decide(c, r)
    BY <1>6, <2>1, <2>2, <2>3, DecideAsContract
  <2>4. CASE pc' = [pc EXCEPT ![c] = "verify"] /\ UNCHANGED authority
    <3>1. context[c] # None
      BY <2>1, AbsenceAssumption DEF IInv, CallInv, ContextType
    <3>2. phase[c] = "open" /\ phase' = phase
      BY <2>1, <2>4, <3>1 DEF IInv, TypeOK, phase
    <3>3. CallersContract!Respond(c)
      BY <2>1, <2>4, <3>2 DEF CallersContract!Respond
    <3> QED
      BY <3>3 DEF CallersContract!Next
  <2> QED
    BY <1>7, <2>3, <2>4 DEF Respond
<1>8. ASSUME NEW c \in Calls, Verify(c) PROVE CallersContract!Next
  <2>1. /\ pc[c] = "verify" /\ reached[c] /\ UNCHANGED reached
        /\ UNCHANGED <<settings, context, allowed>>
    BY <1>8 DEF Verify, IInv, CallInv
  <2>2. CASE \E r \in Unproven : Decide(c, r)
    BY <1>6, <2>1, <2>2, DecideAsContract
  <2>3. CASE Proven(c) /\ Decide(c, Verified)
    <3>1. Verified.authority = "verified"
      BY DEF Verified, Result
    <3> QED
      BY <2>1, <2>3, <3>1, DecideAsContract
  <2> QED
    BY <1>8, <2>2, <2>3 DEF Verify
<1>9. ASSUME NEW c \in Calls, HookTimeout(c) PROVE CallersContract!Next
  <2>1. context[c] # None
    BY <1>9, AbsenceAssumption DEF HookTimeout, IInv, CallInv, ContextType
  <2>2. phase[c] = "open" /\ phase' = [phase EXCEPT ![c] = "done"]
    BY <1>9, <2>1 DEF HookTimeout, IInv, TypeOK, phase
  <2>3. CallersContract!Conclude(c)
    BY <1>9, <2>2 DEF HookTimeout, CallersContract!Conclude
  <2> QED
    BY <2>3 DEF CallersContract!Next
<1> QED
  BY <1>1, <1>2, <1>3, <1>4, <1>5, <1>7, <1>8, <1>9 DEF Next

\* Through the hook, with its rebuilt client and its timeout, authority is
\* handed out as the caller's own configuration says.
THEOREM HookImplementsContract == Spec => ImplementsCallersContract
<1>1. Init => CallersContract!Init
  BY DEF Init, CallersContract!Init, phase
<1> QED
  BY <1>1, CallersContractStep, CInvariance, PTL
  DEF Spec, ImplementsCallersContract, CallersContract!Spec

-----------------------------------------------------------------------------
(* The rebuilt configuration.                                                *)

\* Trimmed text stays as it is.
LEMMA TrimTwice ==
  ASSUME NEW t
  PROVE  trim([text |-> t, padded |-> FALSE]) = [text |-> t, padded |-> FALSE]
<1> DEFINE f == FALSE
           x == [text |-> t, padded |-> f]
<1>1. x.padded = f
  OBVIOUS
<1> HIDE DEF f
<1>2. [x EXCEPT !.padded = f] = x
  OBVIOUS
<1> QED
  BY <1>2 DEF trim, f

\* A second pass through the builder changes the framework and nothing else.
LEMMA RebuildIsExact ==
  ASSUME NEW s \in Settings, BuildError(s) = "none"
  PROVE  /\ HookError(build(s)) = "none"
         /\ HookClient(build(s)) =
              [build(s) EXCEPT !.framework = IF @ = "agent-hooks" THEN "ironclaw" ELSE @]
<1> DEFINE b == build(s)
           r == [b EXCEPT !.framework = "ironclaw"]
<1>1. /\ canonical_origin(trim(s.api_url)) = "https://sign"
      /\ s.request_timeout # 0 /\ s.pin # "malformed" /\ s.issuer.text # ""
      /\ s.mode = "Enforce" => s.pin # None
  BY DEF BuildError, canonical_origin
<1>2. /\ b = [s EXCEPT !.api_url = [text |-> "https://sign", padded |-> FALSE],
                       !.issuer = [s.issuer EXCEPT !.padded = FALSE]]
  BY <1>1 DEF build, trim
<1>3. b \in Settings
  BY DEF build, Settings, Text, trim, canonical_origin, BuildError
<1>4. /\ b.api_url = [text |-> "https://sign", padded |-> FALSE]
      /\ b.request_timeout # 0 /\ b.pin # "malformed"
      /\ b.mode = "Enforce" => b.pin # None
      /\ b.issuer.text # "" /\ b.issuer.padded = FALSE /\ b.issuer \in Text({"", "sigil-core", "issuer"})
  BY <1>1, <1>2 DEF Settings, Text
<1> HIDE DEF b
<1>5. rebuild_settings(b) = r
  <2>1. new.pin = None /\ new.jwk = None /\ new.task_id = None
    BY DEF new
  <2>2. Given(b.pin, None) = b.pin /\ Given(b.jwk, None) = b.jwk /\ Given(b.task_id, None) = b.task_id
    BY DEF Given
  <2>3. rebuild_settings(b) =
          [api_url |-> b.api_url, framework |-> "ironclaw", failMode |-> b.failMode,
           request_timeout |-> b.request_timeout, mode |-> b.mode, issuer |-> b.issuer,
           agent_id |-> b.agent_id, task_id |-> b.task_id, pin |-> b.pin, jwk |-> b.jwk]
    BY <2>1, <2>2 DEF rebuild_settings
  <2>4. b = [api_url |-> b.api_url, request_timeout |-> b.request_timeout,
             failMode |-> b.failMode, mode |-> b.mode, pin |-> b.pin, jwk |-> b.jwk,
             issuer |-> b.issuer, framework |-> b.framework, agent_id |-> b.agent_id,
             task_id |-> b.task_id]
    BY <1>3 DEF Settings
  <2>5. \A x : [b EXCEPT !.framework = x] =
          [api_url |-> b.api_url, framework |-> x, failMode |-> b.failMode,
           request_timeout |-> b.request_timeout, mode |-> b.mode, issuer |-> b.issuer,
           agent_id |-> b.agent_id, task_id |-> b.task_id, pin |-> b.pin, jwk |-> b.jwk]
    BY <2>4
  <2> QED
    BY <2>3, <2>5
<1>6. /\ r \in Settings
      /\ r.api_url = [text |-> "https://sign", padded |-> FALSE] /\ r.issuer = b.issuer
      /\ r.request_timeout # 0 /\ r.pin # "malformed"
      /\ r.mode = "Enforce" => r.pin # None
  BY <1>3, <1>4 DEF Settings
<1> HIDE DEF r
<1>7. /\ trim(r.issuer) = r.issuer
      /\ canonical_origin(trim(r.api_url)) = "https://sign" /\ r.api_url.text = "https://sign"
  <2>1. r.issuer = [text |-> r.issuer.text, padded |-> FALSE]
    BY <1>4, <1>6 DEF Text
  <2>2. \A t : trim([text |-> t, padded |-> FALSE]) = [text |-> t, padded |-> FALSE]
    BY TrimTwice
  <2>3. trim(r.issuer) = r.issuer
    BY <2>1, <2>2
  <2>4. trim(r.api_url) = r.api_url /\ r.api_url.text = "https://sign"
    BY <1>6, <2>2
  <2> QED
    BY <2>3, <2>4 DEF canonical_origin
<1>8. BuildError(r) = "none" /\ build(r) = r
  <2>1. BuildError(r) = "none"
    BY <1>4, <1>6, <1>7 DEF BuildError
  <2>2. build(r) = r
    BY <1>6, <1>7 DEF build, Settings
  <2> QED
    BY <2>1, <2>2
<1>9. HookError(b) = "none"
  BY <1>5, <1>8 DEF HookError
<1>10. HookClient(b) = [b EXCEPT !.framework = IF @ = "agent-hooks" THEN "ironclaw" ELSE @]
  <2>1. CASE Rebinds(b)
    BY <1>5, <1>8, <2>1 DEF HookClient, Rebinds, r
  <2>2. CASE ~Rebinds(b)
    BY <1>3, <2>2 DEF HookClient, Rebinds, Settings
  <2> QED
    BY <2>1, <2>2
<1> QED
  BY <1>9, <1>10 DEF b

\* The hook's client is the rebuilt one from the moment there is one.
RebuiltInv == client # None => BuildError(settings) = "none" /\ client = HookClient(build(settings))

\* The hook can be built from whatever client the caller could build, and its
\* own keeps every field but the framework.
THEOREM RebindingKeepsConfiguration == Spec => []RebindKeepsConfiguration
<1>1. Init => RebuiltInv
  BY DEF Init, RebuiltInv
<1>2. RebuiltInv /\ [Next]_vars => RebuiltInv'
  BY DEF RebuiltInv, Next, vars, BuildHook, OtherEvent, ToolCall, Allow, NoResponse, Respond,
     Verify, HookTimeout, Tick
<1>3. TypeOK /\ RebuiltInv => RebindKeepsConfiguration
  BY RebuildIsExact, HookAssumption DEF TypeOK, RebuiltInv, RebindKeepsConfiguration
<1> QED
  BY <1>1, <1>2, <1>3, HookTypeCorrect, PTL DEF Spec

-----------------------------------------------------------------------------
(* Running down.                                                             *)

\* The time a call has left, and whether a response is still to come.
Remaining(c) ==
  IF pc[c] \in {"post", "verify"} THEN left[c] + (IF pc[c] = "post" THEN 2 ELSE 1) ELSE 0

\* A call is through after at most Timeout + 2 steps and ticks, whatever the server
\* does and however many other calls there are: each step of its check and each
\* tick takes from them and nothing gives back, and a call that is over stays so.
THEOREM CallsRunDown ==
  Spec => /\ [](\A c \in Calls : Remaining(c) \in 0..Timeout + 2)
          /\ [][\A c \in Calls : pc[c] # "idle" =>
                  /\ Remaining(c)' <= Remaining(c)
                  /\ pc[c] # "done" /\ (NoResponse(c) \/ Respond(c) \/ Verify(c) \/ HookTimeout(c) \/ Tick)
                       => Remaining(c)' < Remaining(c)]_vars
<1> DEFINE Own(c) == NoResponse(c) \/ Respond(c) \/ Verify(c) \/ HookTimeout(c)
           RunsDown == \A c \in Calls : pc[c] # "idle" =>
             /\ Remaining(c)' <= Remaining(c)
             /\ pc[c] # "done" /\ (NoResponse(c) \/ Respond(c) \/ Verify(c) \/ HookTimeout(c) \/ Tick)
                  => Remaining(c)' < Remaining(c)
           Bounded == \A c \in Calls : Remaining(c) \in 0..Timeout + 2
<1> USE BuilderAssumption
<1>1. TypeOK => Bounded
  BY DEF TypeOK, Remaining
<1>2. ASSUME TypeOK, TypeOK', [Next]_vars, NEW c \in Calls, pc[c] # "idle"
      PROVE  /\ Remaining(c)' <= Remaining(c)
             /\ pc[c] # "done" /\ (Own(c) \/ Tick) => Remaining(c)' < Remaining(c)
  <2>1. left[c] \in Nat /\ left'[c] \in Nat /\ Remaining(c) \in Nat /\ Remaining(c)' \in Nat
    BY <1>2 DEF TypeOK, Remaining
  <2>2. CASE Own(c)
    <3>1. CASE NoResponse(c) \/ Verify(c) \/ HookTimeout(c)
      <4>1. pc'[c] = "done" /\ pc[c] \in {"post", "verify"}
        BY <1>2, <3>1 DEF TypeOK, NoResponse, Verify, HookTimeout, Decide
      <4>2. Remaining(c)' = 0
        BY <4>1 DEF Remaining
      <4>3. Remaining(c) > 0
        BY <2>1, <4>1 DEF Remaining
      <4> QED
        BY <2>1, <4>2, <4>3
    <3>2. CASE Respond(c)
      <4>1. pc[c] = "post" /\ Remaining(c) = left[c] + 2
        BY <3>2 DEF Respond, Remaining
      <4>2. \/ pc'[c] = "done"
            \/ pc'[c] = "verify" /\ left'[c] = left[c]
        BY <1>2, <3>2 DEF TypeOK, Respond, Decide
      <4>3. Remaining(c)' \in {0, left[c] + 1}
        BY <4>2 DEF Remaining
      <4> QED
        BY <2>1, <4>1, <4>3
    <3> QED
      BY <2>2, <3>1, <3>2
  <2>3. CASE Tick
    <3>1. pc' = pc /\ (pc[c] \in {"post", "verify"} => left'[c] = left[c] - 1)
      BY <1>2, <2>1, <2>3 DEF Tick
    <3>2. pc[c] \in {"post", "verify"} => Remaining(c)' = Remaining(c) - 1
      BY <2>1, <3>1 DEF Remaining
    <3>3. pc[c] = "done" => Remaining(c)' = Remaining(c)
      BY <3>1 DEF Remaining
    <3>4. pc[c] \in {"post", "verify", "done"}
      BY <1>2 DEF TypeOK
    <3> QED
      BY <2>1, <3>2, <3>3, <3>4
  <2>4. CASE ~Own(c) /\ ~Tick
    <3>1. pc'[c] = pc[c] /\ left'[c] = left[c]
      <4>1. ASSUME NEW d \in Calls, d # c, Own(d) PROVE pc'[c] = pc[c] /\ left'[c] = left[c]
        BY <1>2, <4>1 DEF TypeOK, NoResponse, Respond, Verify, HookTimeout, Decide
      <4>2. ASSUME NEW d \in Calls, OtherEvent(d) \/ (\E e \in Events : ToolCall(d, e)) \/ Allow(d)
            PROVE  pc'[c] = pc[c] /\ left'[c] = left[c]
        BY <1>2, <4>2 DEF TypeOK, OtherEvent, ToolCall, Allow
      <4>3. CASE BuildHook \/ UNCHANGED vars
        BY <4>3 DEF BuildHook, vars
      <4> QED
        BY <1>2, <2>4, <4>1, <4>2, <4>3 DEF Next
    <3>2. Remaining(c)' = Remaining(c)
      BY <3>1 DEF Remaining
    <3> QED
      BY <2>1, <2>4, <3>2
  <2> QED
    BY <2>2, <2>3, <2>4
<1>3. TypeOK /\ TypeOK' /\ [Next]_vars => RunsDown
  BY <1>2
<1>4. TypeOK /\ TypeOK' /\ [Next]_vars => [RunsDown]_vars
  BY <1>3
<1> HIDE DEF RunsDown, Bounded
<1>5. Spec => []Bounded /\ [][RunsDown]_vars
  BY <1>1, <1>4, HookTypeCorrect, PTL DEF Spec
<1> QED
  BY <1>5 DEF RunsDown, Bounded
=============================================================================
