---------------------------- MODULE IntentRequest ----------------------------
(***************************************************************************)
(* What a request of the client says and what its commitment covers:       *)
(* prepare_authorize_request_at builds the body of POST /v1/authorize and, *)
(* from the same intent, the preimage of the commitment the server's       *)
(* record will carry; a caller may also supply the commitment itself.      *)
(*                                                                         *)
(* A digest is abstracted by what is hashed.  operands stands for the      *)
(* fields both structs copy unconditionally (command, url, path, to,       *)
(* amount, calldata); the others are kept apart because they are gated,    *)
(* validated, defaulted, or sent without being committed to.  The server   *)
(* is external: it signs records about bodies it received, and the network *)
(* may answer a request with any of them.                                  *)
(***************************************************************************)
EXTENDS DecisionRecord

CONSTANTS
  Calls,            \* the calls of the process; a call is its fresh nonce
  Clients,          \* its clients: see ClientType
  Intents,          \* what is asked for: see IntentType
  OwnCommits,       \* commitments callers compute themselves
  Names,            \* agent and task identifiers
  Policies,         \* policies the server may decide under
  MaxSafeInteger,   \* 2^53 - 1
  MaxNow            \* bound on the clock, in seconds

ClientType == [agent_id : Names \cup {None}, task_id : Names \cup {None}]

\* arguments and metadata are any JSON value until validate_intent has seen them.
Json == {None, "object", "other"}

IntentType ==
  [action : STRING, arguments : Json, operands : STRING, method : STRING \cup {None},
   chain_id : Nat \cup {None}, metadata : Json,
   agent_id : Names \cup {None}, task_id : Names \cup {None}]

ASSUME RequestAssumption ==
  /\ Clients \subseteq ClientType
  /\ Intents \subseteq IntentType
  /\ None \notin Names \cup OwnCommits
  /\ MaxSafeInteger \in Nat
  /\ MaxNow \in Nat

VARIABLES
  now,          \* the system clock; negative is before the epoch
  defaultTask,  \* DEFAULT_TASK_ID, None until a request first needs it
  request,      \* the body each call sent, None before it is prepared
  asked,        \* history: the client and intent of each call and its commitment's origin
  signed,       \* external: the records the server has signed, and about which body
  granted       \* the record each call was granted on, None when there is none

vars == <<now, defaultTask, request, asked, signed, granted>>

-----------------------------------------------------------------------------
\* Seeded fault: any chain identifier is let through.
validate_intent_unbounded(i) ==
  /\ i.action # ""
  /\ i.arguments # "other"
  /\ i.metadata # "other"

validate_intent(i) ==
  /\ i.action # ""
  /\ i.chain_id # None => i.chain_id <= MaxSafeInteger
  /\ i.arguments # "other"
  /\ i.metadata # "other"

\* Both structs carry the method for the action "http" only.
EmittedMethod(i) == IF i.action = "http" THEN i.method ELSE None

\* Seeded fault: the commitment takes the method as the intent has it.
generate_intent_commit_at_ungated(i, ts) ==
  [action |-> i.action, arguments |-> i.arguments, operands |-> i.operands,
   method |-> i.method, ts |-> ts]

generate_intent_commit_at(i, ts) ==
  [action |-> i.action, arguments |-> i.arguments, operands |-> i.operands,
   method |-> EmittedMethod(i), ts |-> ts]

\* The process-wide identifier is made of the clock when it is first needed;
\* a clock before the epoch counts as zero.
FreshTask == <<"rust-task", IF now < 0 THEN 0 ELSE now>>

ASSUME AbsenceAssumption == \A t \in 0..MaxNow : None # <<"rust-task", t>>

\* Seeded fault: the identifier is made anew whenever it is needed.
default_task_id_recomputed == FreshTask

default_task_id == IF defaultTask = None THEN FreshTask ELSE defaultTask

First(a, b) == IF a # None THEN a ELSE b

resolve_task_id(client, i) == First(First(i.task_id, client.task_id), default_task_id)

AuthorizeRequest(client, i, commit, nonce) ==
  [agent_id |-> First(First(i.agent_id, client.agent_id), "agent"),
   tx_commit |-> commit, request_nonce |-> nonce, chain_id |-> i.chain_id,
   action |-> i.action, arguments |-> i.arguments, operands |-> i.operands,
   method |-> EmittedMethod(i), task_id |-> resolve_task_id(client, i),
   metadata |-> i.metadata]

-----------------------------------------------------------------------------
Prepared(c) == request[c] # None

Sent == {c \in Calls : Prepared(c)}

Init ==
  /\ now \in {-1, 0}
  /\ defaultTask = None
  /\ request = [c \in Calls |-> None]
  /\ asked = [c \in Calls |-> None]
  /\ signed = {}
  /\ granted = [c \in Calls |-> None]

\* A caller may supply any commitment, one that is already in use included.
Supplied == OwnCommits \cup {request[c].tx_commit : c \in Sent}

\* prepare_authorize_request_at; an invalid intent, or a clock that cannot be
\* read, is an error of the call and changes nothing.
Prepare(c, client, i, supplied) ==
  LET commit == IF supplied # None THEN supplied ELSE generate_intent_commit_at(i, now)
      body   == AuthorizeRequest(client, i, commit, c)
  IN /\ ~Prepared(c)
     /\ now >= 0
     /\ validate_intent(i)
     /\ request' = [request EXCEPT ![c] = body]
     /\ asked' = [asked EXCEPT ![c] =
          [client |-> client, intent |-> i, ts |-> now, derived |-> supplied = None]]
     /\ defaultTask' = IF i.task_id = None /\ client.task_id = None
                         THEN default_task_id ELSE defaultTask
     /\ UNCHANGED <<now, signed, granted>>

\* resolve_task_id on its own, as the model usage ledger calls it; here even a
\* clock before the epoch serves.
ResolveTask(client) ==
  /\ client.task_id = None
  /\ defaultTask' = default_task_id
  /\ UNCHANGED <<now, request, asked, signed, granted>>

\* External: the server allows what a body says, under its policy of the moment.
Allow(c) ==
  /\ Prepared(c)
  /\ \E policy \in Policies :
       signed' = signed \cup
         {[nonce |-> request[c].request_nonce, intent |-> request[c].tx_commit,
           policy |-> policy, about |-> request[c]]}
  /\ UNCHANGED <<now, defaultTask, request, asked, granted>>

\* The call is answered with a record, which must bind to what it prepared.
Grant(c, record) ==
  /\ Prepared(c)
  /\ granted[c] = None
  /\ validate_decision_bindings(record,
       [commit |-> request[c].tx_commit, nonce |-> request[c].request_nonce]) = "ok"
  /\ granted' = [granted EXCEPT ![c] = record]
  /\ UNCHANGED <<now, defaultTask, request, asked, signed>>

\* External: the system clock, which may be set back.
Tick ==
  /\ now' \in {now - 1, now + 1} \cap (-1)..MaxNow
  /\ UNCHANGED <<defaultTask, request, asked, signed, granted>>

Next ==
  \/ \E c \in Calls :
       \/ \E client \in Clients, i \in Intents, s \in Supplied \cup {None} :
            Prepare(c, client, i, s)
       \/ Allow(c)
       \/ \E record \in signed : Grant(c, record)
  \/ \E client \in Clients : ResolveTask(client)
  \/ Tick

Spec == Init /\ [][Next]_vars

-----------------------------------------------------------------------------
(* Properties. *)

\* What a body says is to be done.
OperationOf(b) == <<b.action, b.arguments, b.operands, b.method>>

\* Every body that is sent is within the shared wire domain: a chain id JSON
\* readers agree on, objects or nothing, an agent and a task.
TypeOK ==
  /\ now \in (-1)..MaxNow
  /\ \A c \in Calls : granted[c] # None => granted[c] \in signed
  /\ \A c \in Sent :
       /\ request[c].chain_id \in 0..MaxSafeInteger \cup {None}
       /\ request[c].arguments \in {None, "object"}
       /\ request[c].metadata \in {None, "object"}
       /\ request[c].agent_id \in Names \cup {"agent"}
       /\ request[c].task_id # None

\* A derived commitment says neither more nor less than the operation that is
\* sent: requests of the same second share it exactly when they ask for the same
\* thing, so no field of the body escapes it and none it covers stays behind.
CommitIsTheOperation ==
  \A c, e \in Sent :
    asked[c].derived /\ asked[e].derived =>
      (request[c].tx_commit = request[e].tx_commit <=>
         /\ OperationOf(request[c]) = OperationOf(request[e])
         /\ asked[c].ts = asked[e].ts)

\* Authority is for the whole body the call sent, the fields no commitment covers
\* (chain, task, agent, metadata) included, although calls may share commitments:
\* the server decided this body, not another with the same commitment.
AuthorityIsForTheBody ==
  \A c \in Calls : granted[c] # None => granted[c].about = request[c]

\* All work that names no task, of whichever client of the process and whatever
\* the clock does, runs under one task identifier: the server's limits and the
\* model budget of the task cannot be escaped by leaving the name out.
OneDefaultTask ==
  \A c, e \in Sent :
    (\A a \in {asked[c], asked[e]} : a.intent.task_id = None /\ a.client.task_id = None)
      => request[c].task_id = request[e].task_id
=============================================================================
