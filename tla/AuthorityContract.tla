-------------------------- MODULE AuthorityContract --------------------------
(***************************************************************************)
(* What the client promises to the adapters that execute actions: a call   *)
(* ends with verified authority only if the server allowed that very       *)
(* request, with unverified authority only where the configuration accepts *)
(* it, and otherwise with none.  Authorization implements it.              *)
(***************************************************************************)
CONSTANTS Checks, Contexts, Configs, None

VARIABLES
  config,     \* the client's configuration
  context,    \* what each call asks for
  phase,      \* idle, open or done
  reached,    \* whether a response arrived
  allowed,    \* the requests the server has allowed, and under which policy
  authority   \* none, legacy or verified

vars == <<config, context, phase, reached, allowed, authority>>

Init ==
  /\ config \in Configs
  /\ context = [c \in Checks |-> None]
  /\ phase = [c \in Checks |-> "idle"]
  /\ reached = [c \in Checks |-> FALSE]
  /\ allowed = {}
  /\ authority = [c \in Checks |-> "none"]

Open(c, x) ==
  /\ phase[c] = "idle"
  /\ phase' = [phase EXCEPT ![c] = "open"]
  /\ context' = [context EXCEPT ![c] = x]
  /\ UNCHANGED <<config, reached, allowed, authority>>

Allow ==
  /\ allowed \subseteq allowed'
  /\ UNCHANGED <<config, context, phase, reached, authority>>

Backed(c) ==
  \E a \in allowed :
    /\ a.nonce = c
    /\ a.intent = context[c].commit
    /\ a.surface = context[c].surface
    /\ config.pin # None => a.policy = config.pin

\* A response arrives, and may already settle the call.
Respond(c) ==
  /\ phase[c] = "open"
  /\ ~reached[c]
  /\ reached' = [reached EXCEPT ![c] = TRUE]
  /\ \/ UNCHANGED <<phase, authority>>
     \/ /\ phase' = [phase EXCEPT ![c] = "done"]
        /\ \/ UNCHANGED authority
           \/ /\ config.mode = "Warn"
              /\ authority' = [authority EXCEPT ![c] = "legacy"]
  /\ UNCHANGED <<config, context, allowed>>

Conclude(c) ==
  /\ phase[c] = "open"
  /\ phase' = [phase EXCEPT ![c] = "done"]
  /\ \/ UNCHANGED authority
     \/ /\ IF reached[c] THEN config.mode = "Warn" ELSE config.failMode = "Open"
        /\ authority' = [authority EXCEPT ![c] = "legacy"]
     \/ /\ reached[c]
        /\ context[c].execution
        /\ Backed(c)
        /\ authority' = [authority EXCEPT ![c] = "verified"]
  /\ UNCHANGED <<config, context, reached, allowed>>

Next ==
  \/ \E c \in Checks :
       (\E x \in Contexts : Open(c, x)) \/ Respond(c) \/ Conclude(c)
  \/ Allow

Spec == Init /\ [][Next]_vars
=============================================================================
