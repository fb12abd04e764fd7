------------------------------ MODULE JwksCache ------------------------------
(***************************************************************************)
(* Key resolution for token verification: resolve_jwk and fetch_jwks of    *)
(* decision.rs, run by several verification tasks that share the cache of  *)
(* one client (SigilClient is Clone and its clones share the Arc).         *)
(*                                                                         *)
(* A client has one origin, so its cache is one entry.  Instants are kept  *)
(* relative to the present: what the code stores as expires_at is here the *)
(* time the entry has left, and each HTTP exchange carries the time its    *)
(* request timeout leaves it.  The model therefore needs no bound on time. *)
(* The lock of the cache is never held across an await, so a look-up and   *)
(* an insertion are each one step and everything between is interleaved.   *)
(***************************************************************************)
EXTENDS Naturals, FiniteSets

CONSTANTS
  Tasks,           \* verifications in flight on clones of one client
  Keys,            \* JWKs: key material together with its kid
  Kids,            \* key identifiers
  KidOf,           \* the kid each key is published under
  ValidKeys,       \* the keys validate_jwk accepts
  None,            \* absence of a key or of a kid
  PinChoices,      \* the decision_record_jwk settings explored, or None
  Documents,       \* the key sets the server may publish
  JWKS_CACHE_TTL,  \* lifetime of a cache entry
  RequestTimeout,  \* total timeout of one HTTP exchange
  JWKS_MAX_KEYS    \* largest key set the client accepts

ASSUME KeyAssumption ==
  /\ KidOf \in [Keys -> Kids]
  /\ ValidKeys \subseteq Keys
  /\ None \notin Keys \cup Kids
  /\ PinChoices \subseteq Keys \cup {None}
  /\ Documents \subseteq SUBSET Keys

\* build rejects a zero request_timeout; the TTL is 300 seconds.
ASSUME TimeAssumption ==
  /\ JWKS_CACHE_TTL \in Nat \ {0}
  /\ RequestTimeout \in Nat \ {0}

VARIABLES
  pinned,    \* config.decision_record_jwk, fixed when the client is built
  document,  \* external: the key set the server publishes now
  gone,      \* history: time since each key was last published, up to StaleBound
  cache,     \* the cache entry: its keys and the time it has left
  pc,        \* where each task stands in resolve_jwk
  want,      \* the kid each task resolves
  forced,    \* whether the exchange in flight is the forced refetch
  left,      \* time the request timeout leaves that exchange
  reply,     \* the key set on its way to the task
  got,       \* the key the resolution returned
  steady,    \* history: the server served the kid since the resolution began
  fault      \* history: an exchange of the resolution failed in transport

vars ==
  <<pinned, document, gone, cache, pc, want, forced, left, reply, got, steady, fault>>

taskVars == <<pc, want, forced, left, reply, got, fault>>

-----------------------------------------------------------------------------
(* What the code computes. *)

\* parse_jwks: a non-empty, bounded list of valid keys with distinct kids.
Parses(keys) ==
  /\ keys # {}
  /\ Cardinality(keys) <= JWKS_MAX_KEYS
  /\ keys \subseteq ValidKeys
  /\ \A j, k \in keys : KidOf[j] = KidOf[k] => j = k

Named(keys, kid) == {k \in keys : KidOf[k] = kid}

\* Seeded fault: the expiry of the entry is not consulted.
CacheLive_ignoring_expiry == cache.keys # {}

\* entry.expires_at > Instant::now(); an empty entry stands for no entry.
CacheLive == cache.left > 0

\* Seeded fault: the entry outlives its TTL by one unit.
FreshEntry_padded(keys) == [keys |-> keys, left |-> JWKS_CACHE_TTL + 1]

\* What a cache entry made from these keys looks like when it is inserted.
FreshEntry(keys) == [keys |-> keys, left |-> JWKS_CACHE_TTL]

InFlight(t) == pc[t] \in {"sent", "replied"}

\* The longest a key can have been gone when it is still accepted.
StaleBound == JWKS_CACHE_TTL + RequestTimeout

Aged(n) == IF n < StaleBound THEN n + 1 ELSE StaleBound

Served(keys, kid) == Parses(keys) /\ Named(keys, kid) # {}

TypeOK ==
  /\ pinned \in PinChoices
  /\ document \in Documents
  /\ gone \in [Keys -> 0..StaleBound]
  /\ cache \in [keys : SUBSET Keys, left : 0..JWKS_CACHE_TTL]
  /\ pc \in [Tasks -> {"idle", "sent", "replied", "found", "unavailable"}]
  /\ want \in [Tasks -> Kids \cup {None}]
  /\ forced \in [Tasks -> BOOLEAN]
  /\ left \in [Tasks -> 0..RequestTimeout]
  /\ reply \in [Tasks -> SUBSET Keys]
  /\ got \in [Tasks -> Keys \cup {None}]
  /\ steady \in [Tasks -> BOOLEAN]
  /\ fault \in [Tasks -> BOOLEAN]

-----------------------------------------------------------------------------
Init ==
  /\ pinned \in PinChoices
  /\ document \in Documents
  /\ gone = [k \in Keys |-> IF k \in document THEN 0 ELSE StaleBound]
  /\ cache = [keys |-> {}, left |-> 0]
  /\ pc = [t \in Tasks |-> "idle"]
  /\ want = [t \in Tasks |-> None]
  /\ forced = [t \in Tasks |-> FALSE]
  /\ left = [t \in Tasks |-> 0]
  /\ reply = [t \in Tasks |-> {}]
  /\ got = [t \in Tasks |-> None]
  /\ steady = [t \in Tasks |-> FALSE]
  /\ fault = [t \in Tasks |-> FALSE]

(* Outcomes a step of a task can have. *)

Found(t, key) ==
  /\ pc' = [pc EXCEPT ![t] = "found"]
  /\ got' = [got EXCEPT ![t] = key]
  /\ left' = [left EXCEPT ![t] = 0]
  /\ reply' = [reply EXCEPT ![t] = {}]
  /\ forced' = [forced EXCEPT ![t] = FALSE]

KeyUnavailable(t) ==
  /\ pc' = [pc EXCEPT ![t] = "unavailable"]
  /\ left' = [left EXCEPT ![t] = 0]
  /\ reply' = [reply EXCEPT ![t] = {}]
  /\ forced' = [forced EXCEPT ![t] = FALSE]
  /\ UNCHANGED got

\* The GET of fetch_jwks is sent and the lock is not held.
SendFetch(t, force) ==
  /\ pc' = [pc EXCEPT ![t] = "sent"]
  /\ forced' = [forced EXCEPT ![t] = force]
  /\ left' = [left EXCEPT ![t] = RequestTimeout]
  /\ reply' = [reply EXCEPT ![t] = {}]
  /\ UNCHANGED got

\* A pinned key is used alone: it must be valid and carry the token's kid.
ResolvePinned(t, kid) ==
  /\ pinned # None
  /\ IF pinned \in ValidKeys /\ KidOf[pinned] = kid
       THEN Found(t, pinned)
       ELSE KeyUnavailable(t)

\* Seeded fault: a kid the live entry lacks is refused without a refetch.
ResolveCached_no_refetch(t, kid) ==
  /\ pinned = None
  /\ CacheLive
  /\ \/ \E key \in Named(cache.keys, kid) : Found(t, key)
     \/ Named(cache.keys, kid) = {} /\ KeyUnavailable(t)

\* The unforced fetch_jwks answers from a live entry; a miss forces a refetch.
ResolveCached(t, kid) ==
  /\ pinned = None
  /\ CacheLive
  /\ \/ \E key \in Named(cache.keys, kid) : Found(t, key)
     \/ Named(cache.keys, kid) = {} /\ SendFetch(t, TRUE)

\* Without a live entry the unforced fetch_jwks goes to the network.
ResolveFetching(t, kid) ==
  /\ pinned = None
  /\ ~CacheLive
  /\ SendFetch(t, FALSE)

\* resolve_jwk up to its first await.
Resolve(t, kid) ==
  /\ pc[t] = "idle"
  /\ want' = [want EXCEPT ![t] = kid]
  /\ ResolvePinned(t, kid) \/ ResolveCached(t, kid) \/ ResolveFetching(t, kid)
  /\ steady' = [steady EXCEPT ![t] = Served(document, kid)]
  /\ UNCHANGED <<pinned, document, gone, cache, fault>>

\* External: the server answers with what it publishes at this moment.
Serve(t) ==
  /\ pc[t] = "sent"
  /\ pc' = [pc EXCEPT ![t] = "replied"]
  /\ reply' = [reply EXCEPT ![t] = document]
  /\ UNCHANGED <<pinned, document, gone, cache, want, forced, left, got, steady, fault>>

\* resolve_jwk after a fetch: take the key, or force one refetch, or give up.
AfterFetch(t, keys) ==
  \/ \E key \in Named(keys, want[t]) : Found(t, key)
  \/ Named(keys, want[t]) = {} /\ ~forced[t] /\ SendFetch(t, TRUE)
  \/ Named(keys, want[t]) = {} /\ forced[t] /\ KeyUnavailable(t)

\* The body arrives in time and parses: insert it, whatever is there, and go on.
FetchDone(t) ==
  /\ pc[t] = "replied"
  /\ Parses(reply[t])
  /\ cache' = FreshEntry(reply[t])
  /\ AfterFetch(t, reply[t])
  /\ UNCHANGED <<pinned, document, gone, want, steady, fault>>

\* The body parses to no acceptable key set.  The cache keeps its entry.
FetchMalformed(t) ==
  /\ pc[t] = "replied"
  /\ ~Parses(reply[t])
  /\ KeyUnavailable(t)
  /\ UNCHANGED <<pinned, document, gone, cache, want, steady, fault>>

\* Transport failure, a non-success status, a redirect or an oversized body.
FetchFailed(t) ==
  /\ InFlight(t)
  /\ KeyUnavailable(t)
  /\ fault' = [fault EXCEPT ![t] = TRUE]
  /\ UNCHANGED <<pinned, document, gone, cache, want, steady>>

\* Seeded fault: only the first exchange is given a timeout.
FetchTimeout_first_only(t) ==
  /\ InFlight(t)
  /\ left[t] = 0
  /\ ~forced[t]
  /\ KeyUnavailable(t)
  /\ fault' = [fault EXCEPT ![t] = TRUE]
  /\ UNCHANGED <<pinned, document, gone, cache, want, steady>>

\* The request timeout of the HTTP client expires.
FetchTimeout(t) ==
  /\ InFlight(t)
  /\ left[t] = 0
  /\ KeyUnavailable(t)
  /\ fault' = [fault EXCEPT ![t] = TRUE]
  /\ UNCHANGED <<pinned, document, gone, cache, want, steady>>

\* The future is dropped at an await (the hook's own timeout).
Cancel(t) ==
  /\ InFlight(t)
  /\ pc' = [pc EXCEPT ![t] = "idle"]
  /\ left' = [left EXCEPT ![t] = 0]
  /\ reply' = [reply EXCEPT ![t] = {}]
  /\ forced' = [forced EXCEPT ![t] = FALSE]
  /\ want' = [want EXCEPT ![t] = None]
  /\ steady' = [steady EXCEPT ![t] = FALSE]
  /\ UNCHANGED <<pinned, document, gone, cache, got, fault>>

\* The caller takes the outcome, and the task may verify another token.
Return(t) ==
  /\ pc[t] \in {"found", "unavailable"}
  /\ pc' = [pc EXCEPT ![t] = "idle"]
  /\ got' = [got EXCEPT ![t] = None]
  /\ want' = [want EXCEPT ![t] = None]
  /\ steady' = [steady EXCEPT ![t] = FALSE]
  /\ fault' = [fault EXCEPT ![t] = FALSE]
  /\ UNCHANGED <<pinned, document, gone, cache, forced, left, reply>>

\* External: the server rotates, removes or mispublishes keys.
Publish(keys) ==
  /\ document' = keys
  /\ gone' = [k \in Keys |-> IF k \in keys THEN 0 ELSE gone[k]]
  /\ steady' = [t \in Tasks |-> steady[t] /\ Served(keys, want[t])]
  /\ UNCHANGED <<pinned, cache, taskVars>>

\* Time passes; no exchange outlives its timeout.
Tick ==
  /\ \A t \in Tasks : InFlight(t) => left[t] > 0
  /\ left' = [t \in Tasks |-> IF InFlight(t) THEN left[t] - 1 ELSE left[t]]
  /\ cache' = [cache EXCEPT !.left = IF @ > 0 THEN @ - 1 ELSE 0]
  /\ gone' = [k \in Keys |-> IF k \in document THEN 0 ELSE Aged(gone[k])]
  /\ UNCHANGED <<pinned, document, pc, want, forced, reply, got, steady, fault>>

TaskStep(t) ==
  \/ \E kid \in Kids : Resolve(t, kid)
  \/ Serve(t)
  \/ FetchDone(t)
  \/ FetchMalformed(t)
  \/ FetchFailed(t)
  \/ FetchTimeout(t)
  \/ Cancel(t)
  \/ Return(t)

Next ==
  \/ \E t \in Tasks : TaskStep(t)
  \/ \E keys \in Documents : Publish(keys)
  \/ Tick

Spec == Init /\ [][Next]_vars

\* The clock runs and an expired timeout is noticed; nothing else is promised.
FairSpec ==
  /\ Spec
  /\ WF_vars(Tick)
  /\ \A t \in Tasks : WF_vars(FetchTimeout(t))

-----------------------------------------------------------------------------
(* Properties. *)

\* A resolution hands out only a key that may be trusted now: the pinned key
\* when there is one, otherwise a valid key of the token's kid that the server
\* published less than a cache lifetime plus one request timeout ago.  Late
\* insertions, refetches by other tasks and rotations in between are covered.
AcceptedKeyIsRecent ==
  [][\A t \in Tasks :
       pc[t] # "found" /\ pc'[t] = "found" =>
         /\ got'[t] \in ValidKeys
         /\ KidOf[got'[t]] = want'[t]
         /\ IF pinned # None
              THEN got'[t] = pinned
              ELSE gone[got'[t]] < StaleBound]_vars

\* KEY_UNAVAILABLE is never an artefact of the cache: if the server served the
\* token's kid during the whole resolution and no exchange of this resolution
\* failed, then it finds a key, even when another task put an older key set
\* into the cache meanwhile.
NoFalseUnavailable ==
  pinned = None =>
    \A t \in Tasks : pc[t] = "unavailable" /\ steady[t] => fault[t]

\* Whatever the server and the network do, a resolution ends: each of its
\* exchanges is bounded by the request timeout, and there are at most two.
ResolutionEnds ==
  \A t \in Tasks : InFlight(t) ~> ~InFlight(t)

\* How old the content of the entry, and of every reply on its way, can be:
\* the entry is never older than its remaining time allows, whichever of two
\* overlapping fetches inserted last.  It is what makes the bound above hold.
ContentAge ==
  /\ cache.left > 0 =>
       /\ Parses(cache.keys)
       /\ \A k \in cache.keys : gone[k] + cache.left <= StaleBound
  /\ \A t \in Tasks : pc[t] = "replied" =>
       \A k \in reply[t] : gone[k] + left[t] <= RequestTimeout

-----------------------------------------------------------------------------
(* The abstract key service, with the exchanges of a resolution hidden. *)

phase == [t \in Tasks |-> IF InFlight(t) THEN "resolving" ELSE pc[t]]

Service == INSTANCE KeyResolution WITH
  phase <- phase, Parses <- Parses, StaleBound <- StaleBound

\* Cache, forced refetch and concurrent insertions together behave as one
\* service that answers each resolution by itself.
ImplementsKeyResolution == Service!Spec

=============================================================================
