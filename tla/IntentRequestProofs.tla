------------------------ MODULE IntentRequestProofs ------------------------
(***************************************************************************)
(* A derived commitment is the operation that is sent, authority is for    *)
(* the whole body, and work that names no task shares one, for any calls,  *)
(* clients, intents and commitments.                                       *)
(*                                                                         *)
(* The argument: a body never changes once it is sent and carries its      *)
(* call's nonce, so a signed record with that nonce is about that body;    *)
(* and the default task identifier never changes once a body carries it.   *)
(***************************************************************************)
EXTENDS IntentRequest, TLAPS

USE RequestAssumption, AbsenceAssumption

-----------------------------------------------------------------------------
(* The inductive invariant. *)

Shape ==
  /\ request = [c \in Calls |-> request[c]]
  /\ asked = [c \in Calls |-> asked[c]]
  /\ granted = [c \in Calls |-> granted[c]]

\* What the body of call c may hold.
WireOf(c) ==
  /\ request[c].chain_id \in 0..MaxSafeInteger \cup {None}
  /\ request[c].arguments \in {None, "object"}
  /\ request[c].metadata \in {None, "object"}
  /\ request[c].agent_id \in Names \cup {"agent"}
  /\ request[c].task_id # None

\* The body of call c says what its intent asked for.
BodyOf(c) ==
  /\ request[c].request_nonce = c
  /\ OperationOf(request[c]) =
       <<asked[c].intent.action, asked[c].intent.arguments, asked[c].intent.operands,
         EmittedMethod(asked[c].intent)>>
  /\ asked[c].derived =>
       request[c].tx_commit = generate_intent_commit_at(asked[c].intent, asked[c].ts)

\* Work that names no task carries the identifier of the process.
TaskOf(c) ==
  asked[c].intent.task_id = None /\ asked[c].client.task_id = None =>
    /\ defaultTask # None
    /\ request[c].task_id = defaultTask

\* A record names, by its nonce, the call whose body it is about.
SignedInv ==
  \A r \in signed :
    /\ r.nonce \in Sent
    /\ r.about = request[r.nonce]

GrantedInv ==
  \A c \in Calls : granted[c] # None =>
    /\ c \in Sent
    /\ granted[c] \in signed
    /\ granted[c].nonce = c

IInv ==
  /\ Shape
  /\ now \in (-1)..MaxNow
  /\ \A c \in Sent : WireOf(c) /\ BodyOf(c) /\ TaskOf(c)
  /\ SignedInv
  /\ GrantedInv

-----------------------------------------------------------------------------
(* One preservation step per action. *)

LEMMA InitHolds == Init => IInv
  BY DEF Init, IInv, Shape, Sent, Prepared, SignedInv, GrantedInv

\* The body made of a valid intent is within the shared wire domain.
LEMMA BodyOnTheWire ==
  ASSUME NEW client \in Clients, NEW i \in Intents, NEW commit, NEW c,
         validate_intent(i), now \in 0..MaxNow
  PROVE  LET b == AuthorizeRequest(client, i, commit, c)
         IN /\ b.chain_id \in 0..MaxSafeInteger \cup {None}
            /\ b.arguments \in {None, "object"}
            /\ b.metadata \in {None, "object"}
            /\ b.agent_id \in Names \cup {"agent"}
            /\ b.task_id # None
            /\ b.request_nonce = c
            /\ b.tx_commit = commit
            /\ OperationOf(b) = <<i.action, i.arguments, i.operands, EmittedMethod(i)>>
            /\ b.task_id = resolve_task_id(client, i)
<1>1. i \in IntentType /\ client \in ClientType
  OBVIOUS
<1>2. default_task_id # None
  BY DEF default_task_id, FreshTask
<1>3. resolve_task_id(client, i) # None
  BY <1>2 DEF resolve_task_id, First
<1>4. First(First(i.agent_id, client.agent_id), "agent") \in Names \cup {"agent"}
  BY <1>1 DEF First, IntentType, ClientType
<1>5. /\ i.chain_id \in 0..MaxSafeInteger \cup {None}
      /\ i.arguments \in {None, "object"}
      /\ i.metadata \in {None, "object"}
  <2>1. i.chain_id \in Nat \cup {None} /\ i.arguments \in Json /\ i.metadata \in Json
    BY <1>1 DEF IntentType
  <2>2. i.chain_id \in 0..MaxSafeInteger \cup {None}
    <3>1. MaxSafeInteger \in Nat /\ (i.chain_id # None => i.chain_id <= MaxSafeInteger)
      BY DEF validate_intent
    <3>2. ASSUME NEW n \in Nat, n <= MaxSafeInteger PROVE n \in 0..MaxSafeInteger
      BY <3>1, <3>2
    <3> QED
      BY <2>1, <3>1, <3>2, Zenon
  <2>3. i.arguments \in {None, "object"} /\ i.metadata \in {None, "object"}
    BY <2>1 DEF validate_intent, Json
  <2> QED
    BY <2>2, <2>3
<1> QED
  BY <1>3, <1>4, <1>5 DEF AuthorizeRequest, OperationOf

LEMMA PrepareKeeps ==
  ASSUME IInv, NEW c \in Calls, NEW client \in Clients, NEW i \in Intents, NEW s,
         Prepare(c, client, i, s)
  PROVE  IInv'
<1> DEFINE commit == IF s # None THEN s ELSE generate_intent_commit_at(i, now)
           body == AuthorizeRequest(client, i, commit, c)
<1>1. /\ ~Prepared(c)
      /\ validate_intent(i)
      /\ now \in 0..MaxNow
      /\ request' = [request EXCEPT ![c] = body]
      /\ asked' = [asked EXCEPT ![c] =
           [client |-> client, intent |-> i, ts |-> now, derived |-> s = None]]
      /\ UNCHANGED <<now, signed, granted>>
  BY DEF Prepare, IInv
<1>2. defaultTask' = IF i.task_id = None /\ client.task_id = None
                       THEN default_task_id ELSE defaultTask
  BY DEF Prepare
<1>3. default_task_id # None /\ (defaultTask # None => default_task_id = defaultTask)
  BY <1>1 DEF default_task_id, FreshTask
<1>4. Shape'
  BY <1>1, Zenon DEF Shape, IInv
<1>5. \A d \in Calls : d # c => request'[d] = request[d] /\ asked'[d] = asked[d]
  BY <1>1 DEF Shape, IInv
<1>6. /\ request'[c] = body
      /\ asked'[c] = [client |-> client, intent |-> i, ts |-> now, derived |-> s = None]
  BY <1>1 DEF Shape, IInv
<1>7. WireOf(c)' /\ BodyOf(c)'
  <2>1. WireOf(c)'
    BY <1>1, <1>6, BodyOnTheWire DEF WireOf
  <2>2. BodyOf(c)'
    <3>1. /\ body.request_nonce = c
          /\ body.tx_commit = commit
          /\ OperationOf(body) = <<i.action, i.arguments, i.operands, EmittedMethod(i)>>
      BY <1>1, BodyOnTheWire
    <3>2. asked'[c].derived => commit = generate_intent_commit_at(i, now)
      <4> DEFINE a == [client |-> client, intent |-> i, ts |-> now, derived |-> s = None]
      <4>1. a.derived <=> s = None
        BY Zenon
      <4>2. asked'[c] = a
        BY <1>6, Zenon
      <4> QED
        BY <4>1, <4>2, Zenon
    <3>3. OperationOf(request[c])' = OperationOf(body)
      BY <1>6 DEF OperationOf
    <3>4. asked'[c].intent = i /\ asked'[c].ts = now
      BY <1>6
    <3>5. generate_intent_commit_at(asked'[c].intent, asked'[c].ts)
            = generate_intent_commit_at(i, now)
      BY <3>4
    <3> QED
      BY <1>6, <3>1, <3>2, <3>3, <3>4, <3>5, Zenon DEF BodyOf, EmittedMethod, generate_intent_commit_at
  <2> QED
    BY <2>1, <2>2
<1>8. TaskOf(c)'
  <2>1. SUFFICES ASSUME i.task_id = None, client.task_id = None
                 PROVE  defaultTask' # None /\ body.task_id = defaultTask'
    BY <1>6 DEF TaskOf
  <2>2. body.task_id = default_task_id
    BY <2>1 DEF AuthorizeRequest, resolve_task_id, First
  <2> QED
    BY <2>1, <2>2, <1>2, <1>3
<1>9. ASSUME NEW d \in Sent', d # c PROVE WireOf(d)' /\ BodyOf(d)' /\ TaskOf(d)'
  <2>1. d \in Sent /\ request'[d] = request[d] /\ asked'[d] = asked[d]
    BY <1>9, <1>5 DEF Sent, Prepared
  <2>2. WireOf(d) /\ BodyOf(d) /\ TaskOf(d)
    BY <2>1 DEF IInv
  <2>3. TaskOf(d)'
    BY <2>1, <2>2, <1>2, <1>3 DEF TaskOf
  <2> QED
    BY <2>1, <2>2, <2>3 DEF WireOf, BodyOf
<1>10. SignedInv'
  BY <1>1, <1>5 DEF SignedInv, IInv, Sent, Prepared
<1>11. GrantedInv'
  BY <1>1, <1>5 DEF GrantedInv, IInv, Sent, Prepared
<1> QED
  BY <1>1, <1>4, <1>7, <1>8, <1>9, <1>10, <1>11 DEF IInv

\* What only makes up the default task, or only moves the clock, disturbs nothing.
LEMMA TaskKeeps ==
  ASSUME IInv, UNCHANGED <<request, asked, signed, granted>>,
         now' \in (-1)..MaxNow, defaultTask # None => defaultTask' = defaultTask
  PROVE  IInv'
<1>1. Sent' = Sent
  BY DEF Sent, Prepared
<1>2. ASSUME NEW d \in Sent PROVE WireOf(d)' /\ BodyOf(d)' /\ TaskOf(d)'
  BY <1>2 DEF IInv, WireOf, BodyOf, TaskOf
<1> QED
  BY <1>1, <1>2 DEF IInv, Shape, SignedInv, GrantedInv

LEMMA AllowKeeps ==
  ASSUME IInv, NEW c \in Calls, Allow(c)
  PROVE  IInv'
<1>1. PICK policy \in Policies :
        signed' = signed \cup
          {[nonce |-> request[c].request_nonce, intent |-> request[c].tx_commit,
            policy |-> policy, about |-> request[c]]}
  BY DEF Allow
<1>2. c \in Sent /\ UNCHANGED <<now, defaultTask, request, asked, granted>>
  BY DEF Allow, Sent
<1>3. Sent' = Sent
  BY <1>2 DEF Sent, Prepared
<1>4. request[c].request_nonce = c
  BY <1>2 DEF IInv, BodyOf
<1>5. SignedInv'
  BY <1>1, <1>2, <1>3, <1>4 DEF SignedInv, IInv
<1>6. GrantedInv'
  BY <1>1, <1>2, <1>3 DEF GrantedInv, IInv
<1>7. ASSUME NEW d \in Sent PROVE WireOf(d)' /\ BodyOf(d)' /\ TaskOf(d)'
  BY <1>2, <1>7 DEF IInv, WireOf, BodyOf, TaskOf
<1> QED
  BY <1>2, <1>3, <1>5, <1>6, <1>7 DEF IInv, Shape

LEMMA GrantKeeps ==
  ASSUME IInv, NEW c \in Calls, NEW record \in signed, Grant(c, record)
  PROVE  IInv'
<1>1. /\ c \in Sent
      /\ granted' = [granted EXCEPT ![c] = record]
      /\ UNCHANGED <<now, defaultTask, request, asked, signed>>
  BY DEF Grant, Sent
<1>2. record.nonce = request[c].request_nonce
  BY DEF Grant, validate_decision_bindings
<1>3. record.nonce = c
  BY <1>1, <1>2 DEF IInv, BodyOf
<1>4. Sent' = Sent
  BY <1>1 DEF Sent, Prepared
<1>5. GrantedInv'
  BY <1>1, <1>3, <1>4 DEF GrantedInv, IInv, Shape
<1>6. Shape'
  BY <1>1, Zenon DEF Shape, IInv
<1>7. ASSUME NEW d \in Sent PROVE WireOf(d)' /\ BodyOf(d)' /\ TaskOf(d)'
  BY <1>1, <1>7 DEF IInv, WireOf, BodyOf, TaskOf
<1> QED
  BY <1>1, <1>4, <1>5, <1>6, <1>7 DEF IInv, SignedInv

LEMMA StepKeeps == IInv /\ [Next]_vars => IInv'
<1> SUFFICES ASSUME IInv, [Next]_vars PROVE IInv'
  OBVIOUS
<1>1. ASSUME NEW c \in Calls, NEW client \in Clients, NEW i \in Intents, NEW s,
             Prepare(c, client, i, s)
      PROVE  IInv'
  BY <1>1, PrepareKeeps
<1>2. ASSUME NEW c \in Calls, Allow(c) PROVE IInv'
  BY <1>2, AllowKeeps
<1>3. ASSUME NEW c \in Calls, NEW record \in signed, Grant(c, record) PROVE IInv'
  BY <1>3, GrantKeeps
<1>4. ASSUME NEW client \in Clients, ResolveTask(client) PROVE IInv'
  BY <1>4, TaskKeeps DEF ResolveTask, default_task_id, IInv
<1>5. ASSUME Tick PROVE IInv'
  BY <1>5, TaskKeeps DEF Tick
<1>6. ASSUME UNCHANGED vars PROVE IInv'
  BY <1>6, TaskKeeps DEF vars, IInv
<1> QED
  BY <1>1, <1>2, <1>3, <1>4, <1>5, <1>6 DEF Next

LEMMA AlwaysIInv == Spec => []IInv
<1> QED
  BY InitHolds, StepKeeps, PTL DEF Spec

-----------------------------------------------------------------------------
(* The theorems. *)

\* Every body that is sent is within the shared wire domain, and every grant
\* rests on a signed record (validate_intent and the defaults of the builder).
THEOREM TypeCorrect == Spec => []TypeOK
<1>1. IInv => TypeOK
  BY DEF IInv, TypeOK, WireOf, GrantedInv
<1> QED
  BY <1>1, AlwaysIInv, PTL

\* Derived commitments agree exactly when the operations that are sent, and the
\* second they are sent in, do (generate_intent_commit_at against the body).
THEOREM CommitmentsFollowOperations == Spec => []CommitIsTheOperation
<1>1. IInv => CommitIsTheOperation
  <2> SUFFICES ASSUME IInv, NEW c \in Sent, NEW e \in Sent,
                      asked[c].derived, asked[e].derived
               PROVE  request[c].tx_commit = request[e].tx_commit <=>
                        /\ OperationOf(request[c]) = OperationOf(request[e])
                        /\ asked[c].ts = asked[e].ts
    BY DEF CommitIsTheOperation
  <2>1. BodyOf(c) /\ BodyOf(e)
    BY DEF IInv
  <2> DEFINE i == asked[c].intent
             j == asked[e].intent
  <2>2. generate_intent_commit_at(i, asked[c].ts) = generate_intent_commit_at(j, asked[e].ts)
          <=> /\ i.action = j.action
              /\ i.arguments = j.arguments
              /\ i.operands = j.operands
              /\ EmittedMethod(i) = EmittedMethod(j)
              /\ asked[c].ts = asked[e].ts
    BY DEF generate_intent_commit_at
  <2> QED
    BY <2>1, <2>2 DEF BodyOf
<1> QED
  BY <1>1, AlwaysIInv, PTL

\* The record a call was granted on is about the very body it sent, uncommitted
\* fields included (the nonce binding of the record).
THEOREM AuthorityForTheBody == Spec => []AuthorityIsForTheBody
<1>1. IInv => AuthorityIsForTheBody
  BY DEF IInv, AuthorityIsForTheBody, SignedInv, GrantedInv
<1> QED
  BY <1>1, AlwaysIInv, PTL

\* Work that names no task shares one identifier whatever the clock does
\* (DEFAULT_TASK_ID is written once).
THEOREM TaskIsShared == Spec => []OneDefaultTask
<1>1. IInv => OneDefaultTask
  BY DEF IInv, OneDefaultTask, TaskOf
<1> QED
  BY <1>1, AlwaysIInv, PTL
=============================================================================
