---------------------------- MODULE KeyResolution ----------------------------
(***************************************************************************)
(* What resolve_jwk promises to token verification, without its cache and  *)
(* its HTTP exchanges: one resolution at a time per task, answered by a    *)
(* key that may be trusted at that moment, or given up for a reason the    *)
(* server or the network supplied.  JwksCache implements it.               *)
(***************************************************************************)
EXTENDS Naturals

CONSTANTS
  Tasks, Keys, Kids, KidOf, ValidKeys, None, PinChoices, Documents,
  Parses(_),  \* whether a published key set is acceptable
  StaleBound  \* how long ago a key may have been published and still be used

VARIABLES
  pinned,    \* config.decision_record_jwk
  document,  \* external: the key set the server publishes now
  gone,      \* time since each key was last published
  phase,     \* idle, resolving, found or unavailable
  want,      \* the kid each task resolves
  got,       \* the key a resolution returned
  steady,    \* the server served the kid since the resolution began
  fault      \* the network failed the resolution

vars == <<pinned, document, gone, phase, want, got, steady, fault>>

Serves(keys, kid) == Parses(keys) /\ \E k \in keys : KidOf[k] = kid

\* The keys a resolution of kid may return now.
Trustworthy(kid) ==
  {k \in ValidKeys :
     /\ KidOf[k] = kid
     /\ IF pinned # None THEN k = pinned ELSE gone[k] < StaleBound}

Init ==
  /\ pinned \in PinChoices
  /\ document \in Documents
  /\ gone = [k \in Keys |-> IF k \in document THEN 0 ELSE StaleBound]
  /\ phase = [t \in Tasks |-> "idle"]
  /\ want = [t \in Tasks |-> None]
  /\ got = [t \in Tasks |-> None]
  /\ steady = [t \in Tasks |-> FALSE]
  /\ fault = [t \in Tasks |-> FALSE]

Answer(t, kid) ==
  /\ phase' = [phase EXCEPT ![t] = "found"]
  /\ \E k \in Trustworthy(kid) : got' = [got EXCEPT ![t] = k]

\* A pinned key that does not carry the token's kid ends the resolution.
RefusePinned(t) ==
  /\ pinned # None
  /\ phase' = [phase EXCEPT ![t] = "unavailable"]
  /\ UNCHANGED got

\* Without a pinned key the server may have to be asked.
Await(t) ==
  /\ pinned = None
  /\ phase' = [phase EXCEPT ![t] = "resolving"]
  /\ UNCHANGED got

Begin(t, kid) ==
  /\ phase[t] = "idle"
  /\ want' = [want EXCEPT ![t] = kid]
  /\ steady' = [steady EXCEPT ![t] = Serves(document, kid)]
  /\ Answer(t, kid) \/ RefusePinned(t) \/ Await(t)
  /\ UNCHANGED <<pinned, document, gone, fault>>

Finish(t) ==
  /\ phase[t] = "resolving"
  /\ Answer(t, want[t])
  /\ UNCHANGED <<pinned, document, gone, want, steady, fault>>

\* The kid was missing at some moment of the resolution.
GiveUp(t) ==
  /\ phase[t] = "resolving"
  /\ ~steady[t]
  /\ phase' = [phase EXCEPT ![t] = "unavailable"]
  /\ UNCHANGED <<pinned, document, gone, want, got, steady, fault>>

NetworkFault(t) ==
  /\ phase[t] = "resolving"
  /\ phase' = [phase EXCEPT ![t] = "unavailable"]
  /\ fault' = [fault EXCEPT ![t] = TRUE]
  /\ UNCHANGED <<pinned, document, gone, want, got, steady>>

Leave(t) ==
  /\ phase[t] # "idle"
  /\ phase' = [phase EXCEPT ![t] = "idle"]
  /\ want' = [want EXCEPT ![t] = None]
  /\ got' = [got EXCEPT ![t] = None]
  /\ steady' = [steady EXCEPT ![t] = FALSE]
  /\ fault' = [fault EXCEPT ![t] = FALSE]
  /\ UNCHANGED <<pinned, document, gone>>

Publish(keys) ==
  /\ document' = keys
  /\ gone' = [k \in Keys |-> IF k \in keys THEN 0 ELSE gone[k]]
  /\ steady' = [t \in Tasks |-> steady[t] /\ Serves(keys, want[t])]
  /\ UNCHANGED <<pinned, phase, want, got, fault>>

Tick ==
  /\ gone' = [k \in Keys |-> IF k \in document THEN 0
                             ELSE IF gone[k] < StaleBound THEN gone[k] + 1
                                  ELSE StaleBound]
  /\ UNCHANGED <<pinned, document, phase, want, got, steady, fault>>

Next ==
  \/ \E t \in Tasks :
       \/ \E kid \in Kids : Begin(t, kid)
       \/ Finish(t) \/ GiveUp(t) \/ NetworkFault(t) \/ Leave(t)
  \/ \E keys \in Documents : Publish(keys)
  \/ Tick

Spec == Init /\ [][Next]_vars
=============================================================================
