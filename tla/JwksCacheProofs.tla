--------------------------- MODULE JwksCacheProofs ---------------------------
(***************************************************************************)
(* Proofs about JwksCache for every number of tasks, keys and documents    *)
(* and every cache lifetime and request timeout.                           *)
(***************************************************************************)
EXTENDS JwksCache, Integers, TLAPS

USE KeyAssumption, TimeAssumption

\* The part of the state that the outcome of a task's step assigns.
OutcomeTypes ==
  /\ pc \in [Tasks -> {"idle", "sent", "replied", "found", "unavailable"}]
  /\ forced \in [Tasks -> BOOLEAN]
  /\ left \in [Tasks -> 0..RequestTimeout]
  /\ reply \in [Tasks -> SUBSET Keys]
  /\ got \in [Tasks -> Keys \cup {None}]

\* Finding a key, giving up and sending an exchange each keep these types.
LEMMA FoundTypes ==
  ASSUME TypeOK, NEW t \in Tasks, NEW key \in Keys, Found(t, key)
  PROVE  OutcomeTypes'
BY DEF TypeOK, OutcomeTypes, Found

LEMMA UnavailableTypes ==
  ASSUME TypeOK, NEW t \in Tasks, KeyUnavailable(t)
  PROVE  OutcomeTypes'
BY DEF TypeOK, OutcomeTypes, KeyUnavailable

LEMMA SendTypes ==
  ASSUME TypeOK, NEW t \in Tasks, NEW force \in BOOLEAN, SendFetch(t, force)
  PROVE  OutcomeTypes'
BY DEF TypeOK, OutcomeTypes, SendFetch

\* Whether a key set serves a kid is a Boolean, also as a stored value.
LEMMA ServedBoolean == \A keys, kid : Served(keys, kid) \in BOOLEAN
BY DEF Served, Parses

\* The type invariant is inductive by itself.
LEMMA TypeStep == TypeOK /\ [Next]_vars => TypeOK'
<1> SUFFICES ASSUME TypeOK, [Next]_vars PROVE TypeOK'
  OBVIOUS
<1> USE DEF TypeOK
<1>1. ASSUME NEW t \in Tasks, NEW kid \in Kids, Resolve(t, kid) PROVE TypeOK'
  <2>1. OutcomeTypes'
    <3>1. CASE ResolvePinned(t, kid)
      BY <3>1, FoundTypes, UnavailableTypes DEF ResolvePinned
    <3>2. CASE ResolveCached(t, kid)
      BY <3>2, FoundTypes, SendTypes DEF ResolveCached, Named
    <3>3. CASE ResolveFetching(t, kid)
      BY <3>3, SendTypes DEF ResolveFetching
    <3>4. QED BY <1>1, <3>1, <3>2, <3>3 DEF Resolve
  <2>2. want' \in [Tasks -> Kids \cup {None}] /\ steady' \in [Tasks -> BOOLEAN]
    BY <1>1, ServedBoolean DEF Resolve
  <2>3. UNCHANGED <<pinned, document, gone, cache, fault>>
    BY <1>1 DEF Resolve
  <2>4. QED BY <2>1, <2>2, <2>3 DEF OutcomeTypes
<1>2. ASSUME NEW t \in Tasks, Serve(t) PROVE TypeOK'
  BY <1>2 DEF Serve
<1>3. ASSUME NEW t \in Tasks, FetchDone(t) PROVE TypeOK'
  <2>1. OutcomeTypes'
    BY <1>3, FoundTypes, UnavailableTypes, SendTypes DEF FetchDone, AfterFetch, Named
  <2>2. cache' \in [keys : SUBSET Keys, left : 0..JWKS_CACHE_TTL]
    BY <1>3 DEF FetchDone, FreshEntry
  <2>3. UNCHANGED <<pinned, document, gone, want, steady, fault>>
    BY <1>3 DEF FetchDone
  <2>4. QED BY <2>1, <2>2, <2>3 DEF OutcomeTypes
<1>4. ASSUME NEW t \in Tasks, FetchMalformed(t) PROVE TypeOK'
  BY <1>4 DEF FetchMalformed, KeyUnavailable
<1>5. ASSUME NEW t \in Tasks, FetchFailed(t) PROVE TypeOK'
  BY <1>5 DEF FetchFailed, KeyUnavailable
<1>6. ASSUME NEW t \in Tasks, FetchTimeout(t) PROVE TypeOK'
  BY <1>6 DEF FetchTimeout, KeyUnavailable
<1>7. ASSUME NEW t \in Tasks, Cancel(t) PROVE TypeOK'
  BY <1>7 DEF Cancel
<1>8. ASSUME NEW t \in Tasks, Return(t) PROVE TypeOK'
  BY <1>8 DEF Return
<1>9. ASSUME NEW keys \in Documents, Publish(keys) PROVE TypeOK'
  BY <1>9 DEF Publish, Served, taskVars, StaleBound
<1>10. CASE Tick
  <2>1. gone' \in [Keys -> 0..StaleBound]
    BY <1>10 DEF Tick, Aged, StaleBound
  <2>2. left' \in [Tasks -> 0..RequestTimeout]
    BY <1>10 DEF Tick
  <2>3. cache' \in [keys : SUBSET Keys, left : 0..JWKS_CACHE_TTL]
    BY <1>10 DEF Tick
  <2>4. QED BY <1>10, <2>1, <2>2, <2>3 DEF Tick
<1>11. CASE UNCHANGED vars
  BY <1>11 DEF vars
<1>12. QED
  BY <1>1, <1>2, <1>3, <1>4, <1>5, <1>6, <1>7, <1>8, <1>9, <1>10, <1>11
  DEF Next, TaskStep

\* Every variable of the resolver keeps its type.
THEOREM TypeCorrect == Spec => []TypeOK
<1>1. Init => TypeOK
  BY DEF Init, TypeOK, StaleBound
<1>2. QED BY <1>1, TypeStep, PTL DEF Spec

-----------------------------------------------------------------------------
(* Staleness. *)

\* What ContentAge needs to be inductive: a published key is not gone, and only
\* a client without a pinned key has exchanges.
AgeInv ==
  /\ ContentAge
  /\ \A k \in document : gone[k] = 0
  /\ \A t \in Tasks : InFlight(t) => pinned = None

\* The age of keys is unchanged and so is the entry, in the steps of a task
\* other than FetchDone; only Serve creates a reply.
LEMMA AgeFrame ==
  ASSUME TypeOK, AgeInv, NEW t \in Tasks,
         UNCHANGED <<document, gone, cache, pinned>>,
         \A u \in Tasks : pc'[u] = "replied" =>
           pc[u] = "replied" /\ reply'[u] = reply[u] /\ left'[u] = left[u],
         \A u \in Tasks : pc'[u] \in {"sent", "replied"} => pinned = None
  PROVE  AgeInv'
BY DEF TypeOK, AgeInv, ContentAge, InFlight, StaleBound

LEMMA AgeStep == TypeOK /\ AgeInv /\ [Next]_vars => AgeInv'
<1> SUFFICES ASSUME TypeOK, AgeInv, [Next]_vars PROVE AgeInv'
  OBVIOUS
<1>1. ASSUME NEW t \in Tasks, NEW kid \in Kids, Resolve(t, kid) PROVE AgeInv'
  <2>1. UNCHANGED <<document, gone, cache, pinned>>
    BY <1>1 DEF Resolve
  <2>2. CASE ResolvePinned(t, kid)
    BY <2>1, <2>2, AgeFrame
    DEF ResolvePinned, Found, KeyUnavailable, TypeOK, AgeInv, InFlight
  <2>3. CASE ResolveCached(t, kid)
    BY <2>1, <2>3, AgeFrame DEF ResolveCached, Found, SendFetch, TypeOK, AgeInv, InFlight
  <2>4. CASE ResolveFetching(t, kid)
    BY <2>1, <2>4, AgeFrame DEF ResolveFetching, SendFetch, TypeOK, AgeInv, InFlight
  <2>5. QED BY <1>1, <2>2, <2>3, <2>4 DEF Resolve
<1>2. ASSUME NEW t \in Tasks, Serve(t) PROVE AgeInv'
  <2>1. \A k \in reply'[t] : gone'[k] + left'[t] <= RequestTimeout
    BY <1>2 DEF Serve, TypeOK, AgeInv
  <2>2. QED BY <1>2, <2>1 DEF Serve, TypeOK, AgeInv, ContentAge, InFlight, StaleBound
<1>3. ASSUME NEW t \in Tasks, FetchDone(t) PROVE AgeInv'
  <2>1. \A k \in reply[t] : gone[k] \in Nat /\ gone[k] <= RequestTimeout
    BY <1>3 DEF FetchDone, TypeOK, AgeInv, ContentAge, StaleBound
  <2>2. cache'.left = JWKS_CACHE_TTL /\ cache'.keys = reply[t]
    BY <1>3 DEF FetchDone, FreshEntry
  <2>3. /\ Parses(cache'.keys)
        /\ \A k \in cache'.keys : gone'[k] + cache'.left <= StaleBound
    BY <1>3, <2>1, <2>2 DEF FetchDone, StaleBound
  <2>4. \A u \in Tasks : pc'[u] = "replied" =>
          pc[u] = "replied" /\ reply'[u] = reply[u] /\ left'[u] = left[u]
    BY <1>3 DEF FetchDone, AfterFetch, Found, SendFetch, KeyUnavailable, TypeOK
  <2>5. \A u \in Tasks : pc'[u] \in {"sent", "replied"} => pinned = None
    BY <1>3 DEF FetchDone, AfterFetch, Found, SendFetch, KeyUnavailable, TypeOK,
                AgeInv, InFlight
  <2>6. UNCHANGED <<pinned, document, gone>>
    BY <1>3 DEF FetchDone
  <2>7. QED BY <2>3, <2>4, <2>5, <2>6 DEF AgeInv, ContentAge, InFlight, Parses
<1>4. ASSUME NEW t \in Tasks,
             FetchMalformed(t) \/ FetchFailed(t) \/ FetchTimeout(t) PROVE AgeInv'
  BY <1>4, AgeFrame
  DEF FetchMalformed, FetchFailed, FetchTimeout, KeyUnavailable, TypeOK, AgeInv, InFlight
<1>5. ASSUME NEW t \in Tasks, Cancel(t) \/ Return(t) PROVE AgeInv'
  BY <1>5, AgeFrame DEF Cancel, Return, TypeOK, AgeInv, InFlight
<1>6. ASSUME NEW keys \in Documents, Publish(keys) PROVE AgeInv'
  <2>1. \A k \in Keys : gone'[k] \in Nat /\ gone'[k] <= gone[k]
    BY <1>6 DEF Publish, TypeOK, StaleBound
  <2>2. \A k \in keys : gone'[k] = 0
    BY <1>6 DEF Publish
  <2>3. UNCHANGED <<pinned, cache, pc, left, reply>>
    BY <1>6 DEF Publish, taskVars
  <2>4. QED BY <1>6, <2>1, <2>2, <2>3
            DEF Publish, TypeOK, AgeInv, ContentAge, InFlight, StaleBound, Parses
<1>7. CASE Tick
  <2>1. \A k \in Keys : gone[k] \in Nat /\ gone'[k] \in Nat /\ gone'[k] <= gone[k] + 1
    BY <1>7 DEF Tick, Aged, TypeOK, StaleBound
  <2>2. \A k \in document : gone'[k] = 0
    BY <1>7 DEF Tick, TypeOK
  <2>3. cache'.keys = cache.keys /\ cache'.left = IF cache.left > 0 THEN cache.left - 1 ELSE 0
    BY <1>7 DEF Tick, TypeOK
  <2>4. \A u \in Tasks : pc[u] = "replied" => left'[u] = left[u] - 1
    BY <1>7 DEF Tick, InFlight
  <2>5. UNCHANGED <<pinned, document, pc, reply>>
    BY <1>7 DEF Tick
  <2>6. cache'.left > 0 =>
          /\ Parses(cache'.keys)
          /\ \A k \in cache'.keys : gone'[k] + cache'.left <= StaleBound
    BY <2>1, <2>3 DEF TypeOK, AgeInv, ContentAge, StaleBound
  <2>7. \A u \in Tasks : pc'[u] = "replied" =>
          \A k \in reply'[u] : gone'[k] + left'[u] <= RequestTimeout
    BY <2>1, <2>4, <2>5 DEF TypeOK, AgeInv, ContentAge
  <2>8. QED BY <2>2, <2>5, <2>6, <2>7 DEF AgeInv, ContentAge, InFlight, Parses
<1>8. CASE UNCHANGED vars
  BY <1>8 DEF vars, AgeInv, ContentAge, InFlight, Parses, StaleBound
<1>9. QED
  BY <1>1, <1>2, <1>3, <1>4, <1>5, <1>6, <1>7, <1>8 DEF Next, TaskStep

LEMMA AgeInit == Init => AgeInv
BY DEF Init, AgeInv, ContentAge, InFlight

\* How old the cache entry and every reply can be, over any interleaving of
\* fetches, insertions and rotations.
THEOREM ContentAgeHolds == Spec => []ContentAge
<1>1. Spec => []TypeOK
  BY TypeCorrect
<1>2. AgeInv => ContentAge
  BY DEF AgeInv
<1>3. QED BY <1>1, <1>2, AgeInit, AgeStep, PTL DEF Spec

\* The content of AcceptedKeyIsRecent for one step.
Accepts(t) ==
  pc[t] # "found" /\ pc'[t] = "found" =>
    /\ got'[t] \in ValidKeys
    /\ KidOf[got'[t]] = want'[t]
    /\ IF pinned # None THEN got'[t] = pinned ELSE gone[got'[t]] < StaleBound

\* A key taken from a live entry or from a reply has been gone for less than
\* the bound.
LEMMA CachedKeyIsRecent ==
  ASSUME TypeOK, AgeInv, CacheLive, NEW k \in cache.keys
  PROVE  k \in ValidKeys /\ gone[k] < StaleBound
<1>1. cache.left > 0 /\ cache.left \in Nat /\ k \in Keys /\ gone[k] \in Nat /\ StaleBound \in Nat
  BY DEF CacheLive, TypeOK, StaleBound
<1>2. Parses(cache.keys) /\ gone[k] + cache.left <= StaleBound
  BY <1>1 DEF AgeInv, ContentAge
<1>3. QED BY <1>1, <1>2 DEF Parses

LEMMA ReplyKeyIsRecent ==
  ASSUME TypeOK, AgeInv, NEW t \in Tasks, pc[t] = "replied", Parses(reply[t]),
         NEW k \in reply[t]
  PROVE  k \in ValidKeys /\ gone[k] < StaleBound
<1>1. left[t] \in Nat /\ k \in Keys /\ gone[k] \in Nat
  BY DEF TypeOK, StaleBound
<1>2. gone[k] + left[t] <= RequestTimeout
  BY DEF AgeInv, ContentAge
<1>3. QED BY <1>1, <1>2 DEF Parses, StaleBound

LEMMA AcceptStep ==
  ASSUME TypeOK, AgeInv, [Next]_vars, NEW t \in Tasks
  PROVE  Accepts(t)
<1>1. ASSUME NEW u \in Tasks, NEW kid \in Kids, Resolve(u, kid) PROVE Accepts(t)
  <2>1. want'[u] = kid /\ UNCHANGED pinned
    BY <1>1 DEF Resolve, TypeOK
  <2>2. CASE ResolvePinned(u, kid)
    BY <2>1, <2>2 DEF ResolvePinned, Found, KeyUnavailable, Accepts, TypeOK
  <2>3. CASE ResolveCached(u, kid)
    <3>1. ASSUME NEW key \in Named(cache.keys, kid), Found(u, key) PROVE Accepts(t)
      BY <2>1, <2>3, <3>1, CachedKeyIsRecent
      DEF ResolveCached, Found, Named, Accepts, TypeOK
    <3>2. CASE SendFetch(u, TRUE)
      BY <3>2 DEF SendFetch, Accepts, TypeOK
    <3>3. QED BY <2>3, <3>1, <3>2 DEF ResolveCached
  <2>4. CASE ResolveFetching(u, kid)
    BY <2>4 DEF ResolveFetching, SendFetch, Accepts, TypeOK
  <2>5. QED BY <1>1, <2>2, <2>3, <2>4 DEF Resolve
<1>2. ASSUME NEW u \in Tasks, FetchDone(u) PROVE Accepts(t)
  <2>1. pinned = None /\ UNCHANGED want
    BY <1>2 DEF FetchDone, AgeInv, InFlight
  <2>2. ASSUME NEW key \in Named(reply[u], want[u]), Found(u, key) PROVE Accepts(t)
    BY <1>2, <2>1, <2>2, ReplyKeyIsRecent DEF FetchDone, Found, Named, Accepts, TypeOK
  <2>3. CASE SendFetch(u, TRUE)
    BY <2>3 DEF SendFetch, Accepts, TypeOK
  <2>4. CASE KeyUnavailable(u)
    BY <2>4 DEF KeyUnavailable, Accepts, TypeOK
  <2>5. QED BY <1>2, <2>2, <2>3, <2>4 DEF FetchDone, AfterFetch
<1>3. ASSUME NEW u \in Tasks,
             FetchMalformed(u) \/ FetchFailed(u) \/ FetchTimeout(u) PROVE Accepts(t)
  BY <1>3 DEF FetchMalformed, FetchFailed, FetchTimeout, KeyUnavailable, Accepts, TypeOK
<1>4. ASSUME NEW u \in Tasks, Serve(u) \/ Cancel(u) \/ Return(u) PROVE Accepts(t)
  BY <1>4 DEF Serve, Cancel, Return, Accepts, TypeOK
<1>5. CASE (\E keys \in Documents : Publish(keys)) \/ Tick \/ UNCHANGED vars
  BY <1>5 DEF Publish, Tick, vars, taskVars, Accepts
<1>6. QED BY <1>1, <1>2, <1>3, <1>4, <1>5 DEF Next, TaskStep

\* A key is accepted only while it is pinned, or was published less than a
\* cache lifetime plus a request timeout ago.
THEOREM AcceptedKeysAreRecent == Spec => AcceptedKeyIsRecent
<1>1. TypeOK /\ AgeInv /\ [Next]_vars =>
        [\A t \in Tasks :
           pc[t] # "found" /\ pc'[t] = "found" =>
             /\ got'[t] \in ValidKeys
             /\ KidOf[got'[t]] = want'[t]
             /\ IF pinned # None
                  THEN got'[t] = pinned
                  ELSE gone[got'[t]] < StaleBound]_vars
  BY AcceptStep DEF Accepts
<1>2. Spec => []TypeOK
  BY TypeCorrect
<1>3. QED BY <1>1, <1>2, AgeInit, AgeStep, PTL DEF Spec, AcceptedKeyIsRecent

-----------------------------------------------------------------------------
(* KEY_UNAVAILABLE is justified. *)

\* While a resolution is steady the server serves its kid, and so does the
\* reply on its way; once it has failed, something failed it.
SteadyInv ==
  /\ NoFalseUnavailable
  /\ \A t \in Tasks : steady[t] => Served(document, want[t])
  /\ \A t \in Tasks : pc[t] = "replied" /\ steady[t] => Served(reply[t], want[t])
  /\ \A t \in Tasks : InFlight(t) => pinned = None

LEMMA SteadyStep == TypeOK /\ SteadyInv /\ [Next]_vars => SteadyInv'
<1> SUFFICES ASSUME TypeOK, SteadyInv, [Next]_vars PROVE SteadyInv'
  OBVIOUS
<1> USE DEF SteadyInv, NoFalseUnavailable, InFlight
<1>1. ASSUME NEW t \in Tasks, NEW kid \in Kids, Resolve(t, kid) PROVE SteadyInv'
  <2>1. /\ UNCHANGED <<pinned, document, gone, cache, fault>>
        /\ want' = [want EXCEPT ![t] = kid]
        /\ steady' = [steady EXCEPT ![t] = Served(document, kid)]
    BY <1>1 DEF Resolve
  <2>2. \A u \in Tasks : steady'[u] => Served(document', want'[u])
    BY <2>1 DEF TypeOK
  <2>3. CASE ResolvePinned(t, kid)
    BY <2>1, <2>2, <2>3 DEF ResolvePinned, Found, KeyUnavailable, TypeOK
  <2>4. CASE ResolveCached(t, kid)
    BY <2>1, <2>2, <2>4 DEF ResolveCached, Found, SendFetch, TypeOK
  <2>5. CASE ResolveFetching(t, kid)
    BY <2>1, <2>2, <2>5 DEF ResolveFetching, SendFetch, TypeOK
  <2>6. QED BY <1>1, <2>3, <2>4, <2>5 DEF Resolve
<1>2. ASSUME NEW t \in Tasks, Serve(t) PROVE SteadyInv'
  BY <1>2 DEF Serve, TypeOK
<1>3. ASSUME NEW t \in Tasks, FetchDone(t) PROVE SteadyInv'
  <2>1. Named(reply[t], want[t]) = {} => ~steady[t]
    BY <1>3 DEF FetchDone, Served
  <2>2. QED
    BY <1>3, <2>1 DEF FetchDone, AfterFetch, Found, SendFetch, KeyUnavailable, TypeOK
<1>4. ASSUME NEW t \in Tasks, FetchMalformed(t) PROVE SteadyInv'
  <2>1. ~steady[t]
    BY <1>4 DEF FetchMalformed, Served
  <2>2. QED BY <1>4, <2>1 DEF FetchMalformed, KeyUnavailable, TypeOK
<1>5. ASSUME NEW t \in Tasks, FetchFailed(t) \/ FetchTimeout(t) PROVE SteadyInv'
  BY <1>5 DEF FetchFailed, FetchTimeout, KeyUnavailable, TypeOK
<1>6. ASSUME NEW t \in Tasks, Cancel(t) \/ Return(t) PROVE SteadyInv'
  BY <1>6 DEF Cancel, Return, TypeOK
<1>7. ASSUME NEW keys \in Documents, Publish(keys) PROVE SteadyInv'
  BY <1>7 DEF Publish, taskVars, TypeOK
<1>8. CASE Tick
  BY <1>8 DEF Tick
<1>9. CASE UNCHANGED vars
  BY <1>9 DEF vars
<1>10. QED
  BY <1>1, <1>2, <1>3, <1>4, <1>5, <1>6, <1>7, <1>8, <1>9 DEF Next, TaskStep

\* No resolution fails because of what the cache happens to hold.
THEOREM UnavailableIsJustified == Spec => []NoFalseUnavailable
<1>1. Init => SteadyInv
  BY DEF Init, SteadyInv, NoFalseUnavailable, InFlight
<1>2. SteadyInv => NoFalseUnavailable
  BY DEF SteadyInv
<1>3. Spec => []TypeOK
  BY TypeCorrect
<1>4. QED BY <1>1, <1>2, <1>3, SteadyStep, PTL DEF Spec

-----------------------------------------------------------------------------
(* JwksCache implements KeyResolution: with its exchanges hidden, every step *)
(* of the resolver is a step of the service or changes nothing of it.        *)


\* How each outcome of a step looks from outside.
LEMMA PhaseFound ==
  ASSUME TypeOK, NEW t \in Tasks, NEW key, Found(t, key)
  PROVE  phase' = [phase EXCEPT ![t] = "found"]
BY DEF TypeOK, Found, phase, InFlight

LEMMA PhaseUnavailable ==
  ASSUME TypeOK, NEW t \in Tasks, KeyUnavailable(t)
  PROVE  phase' = [phase EXCEPT ![t] = "unavailable"]
BY DEF TypeOK, KeyUnavailable, phase, InFlight

LEMMA PhaseSent ==
  ASSUME TypeOK, NEW t \in Tasks, NEW force \in BOOLEAN, SendFetch(t, force)
  PROVE  phase' = [phase EXCEPT ![t] = "resolving"]
BY DEF TypeOK, SendFetch, phase, InFlight

\* Both modules mean the same by a key set that serves a kid.
LEMMA SameService ==
  ASSUME NEW keys, NEW kid
  PROVE  Served(keys, kid) = Service!Serves(keys, kid)
BY DEF Served, Named, Service!Serves

\* The keys the resolver may hand out are the ones the service allows.
LEMMA TrustCached ==
  ASSUME TypeOK, AgeInv, pinned = None, CacheLive, NEW kid, NEW k \in Named(cache.keys, kid)
  PROVE  k \in Service!Trustworthy(kid)
BY CachedKeyIsRecent DEF Named, Service!Trustworthy

LEMMA TrustReply ==
  ASSUME TypeOK, AgeInv, pinned = None, NEW t \in Tasks, pc[t] = "replied",
         Parses(reply[t]), NEW kid, NEW k \in Named(reply[t], kid)
  PROVE  k \in Service!Trustworthy(kid)
BY ReplyKeyIsRecent DEF Named, Service!Trustworthy

\* Only a task that has its outcome holds a key or knows of a fault.
QuietInv ==
  \A t \in Tasks :
    /\ pc[t] # "found" => got[t] = None
    /\ pc[t] # "unavailable" => fault[t] = FALSE

LEMMA QuietStep == TypeOK /\ QuietInv /\ [Next]_vars => QuietInv'
<1> SUFFICES ASSUME TypeOK, QuietInv, [Next]_vars PROVE QuietInv'
  OBVIOUS
<1> USE DEF QuietInv, TypeOK
<1>1. ASSUME NEW t \in Tasks, NEW kid \in Kids, Resolve(t, kid) PROVE QuietInv'
  BY <1>1 DEF Resolve, ResolvePinned, ResolveCached, ResolveFetching, Found,
     KeyUnavailable, SendFetch
<1>2. ASSUME NEW t \in Tasks, Serve(t) PROVE QuietInv'
  BY <1>2 DEF Serve
<1>3. ASSUME NEW t \in Tasks, FetchDone(t) PROVE QuietInv'
  BY <1>3 DEF FetchDone, AfterFetch, Found, KeyUnavailable, SendFetch
<1>4. ASSUME NEW t \in Tasks, FetchMalformed(t) \/ FetchFailed(t) \/ FetchTimeout(t)
      PROVE  QuietInv'
  BY <1>4 DEF FetchMalformed, FetchFailed, FetchTimeout, KeyUnavailable, InFlight
<1>5. ASSUME NEW t \in Tasks, Cancel(t) \/ Return(t) PROVE QuietInv'
  BY <1>5 DEF Cancel, Return, InFlight
<1>6. CASE (\E keys \in Documents : Publish(keys)) \/ Tick \/ UNCHANGED vars
  BY <1>6 DEF Publish, taskVars, Tick, vars
<1>7. QED BY <1>1, <1>2, <1>3, <1>4, <1>5, <1>6 DEF Next, TaskStep

LEMMA RefinementStep ==
  TypeOK /\ AgeInv /\ SteadyInv /\ QuietInv /\ [Next]_vars
    => [Service!Next]_(Service!vars)
<1> SUFFICES ASSUME TypeOK, AgeInv, SteadyInv, QuietInv, [Next]_vars
             PROVE  Service!Next \/ UNCHANGED Service!vars
  OBVIOUS
<1>1. ASSUME NEW t \in Tasks, NEW kid \in Kids, Resolve(t, kid)
      PROVE  Service!Begin(t, kid)
  <2>1. phase[t] = "idle"
    BY <1>1 DEF Resolve, phase, InFlight
  <2>2. steady' = [steady EXCEPT ![t] = Service!Serves(document, kid)]
    BY <1>1, SameService DEF Resolve
  <2>3. Service!Answer(t, kid) \/ Service!RefusePinned(t) \/ Service!Await(t)
    <3>1. CASE ResolvePinned(t, kid)
      BY <3>1, PhaseFound, PhaseUnavailable
      DEF ResolvePinned, Found, KeyUnavailable, Service!Answer, Service!RefusePinned,
          Service!Trustworthy
    <3>2. CASE ResolveCached(t, kid)
      <4>1. ASSUME NEW key \in Named(cache.keys, kid), Found(t, key)
            PROVE  Service!Answer(t, kid)
        BY <3>2, <4>1, PhaseFound, TrustCached DEF ResolveCached, Found, Service!Answer
      <4>2. CASE SendFetch(t, TRUE)
        BY <3>2, <4>2, PhaseSent DEF ResolveCached, SendFetch, Service!Await
      <4>3. QED BY <3>2, <4>1, <4>2 DEF ResolveCached
    <3>3. CASE ResolveFetching(t, kid)
      BY <3>3, PhaseSent DEF ResolveFetching, SendFetch, Service!Await
    <3>4. QED BY <1>1, <3>1, <3>2, <3>3 DEF Resolve
  <2>4. QED BY <1>1, <2>1, <2>2, <2>3 DEF Resolve, Service!Begin
<1>2. ASSUME NEW t \in Tasks, Serve(t) PROVE UNCHANGED Service!vars
  <2>1. phase' = phase
    BY <1>2 DEF Serve, phase, InFlight, TypeOK
  <2>2. QED BY <1>2, <2>1 DEF Serve, Service!vars
<1>3. ASSUME NEW t \in Tasks, FetchDone(t)
      PROVE  Service!Finish(t) \/ Service!GiveUp(t) \/ UNCHANGED Service!vars
  <2>1. phase[t] = "resolving" /\ pinned = None
    BY <1>3 DEF FetchDone, phase, InFlight, AgeInv
  <2>2. ASSUME NEW key \in Named(reply[t], want[t]), Found(t, key)
        PROVE  Service!Finish(t)
    BY <1>3, <2>1, <2>2, PhaseFound, TrustReply
    DEF FetchDone, Found, Service!Finish, Service!Answer
  <2>3. CASE SendFetch(t, TRUE)
    <3>1. phase' = phase
      BY <1>3, <2>3 DEF FetchDone, SendFetch, phase, InFlight, TypeOK
    <3>2. QED BY <1>3, <2>3, <3>1 DEF FetchDone, SendFetch, Service!vars
  <2>4. CASE Named(reply[t], want[t]) = {} /\ KeyUnavailable(t)
    <3>1. ~steady[t]
      BY <1>3, <2>4 DEF FetchDone, SteadyInv, Served
    <3>2. QED
      BY <1>3, <2>1, <2>4, <3>1, PhaseUnavailable
      DEF FetchDone, KeyUnavailable, Service!GiveUp
  <2>5. QED BY <1>3, <2>2, <2>3, <2>4 DEF FetchDone, AfterFetch
<1>4. ASSUME NEW t \in Tasks, FetchMalformed(t) PROVE Service!GiveUp(t)
  <2>1. ~steady[t] /\ phase[t] = "resolving"
    BY <1>4 DEF FetchMalformed, SteadyInv, Served, phase, InFlight
  <2>2. QED BY <1>4, <2>1, PhaseUnavailable DEF FetchMalformed, KeyUnavailable, Service!GiveUp
<1>5. ASSUME NEW t \in Tasks, FetchFailed(t) \/ FetchTimeout(t)
      PROVE  Service!NetworkFault(t)
  <2>1. phase[t] = "resolving"
    BY <1>5 DEF FetchFailed, FetchTimeout, phase, InFlight
  <2>2. QED
    BY <1>5, <2>1, PhaseUnavailable
    DEF FetchFailed, FetchTimeout, KeyUnavailable, Service!NetworkFault
<1>6. ASSUME NEW t \in Tasks, Cancel(t) \/ Return(t) PROVE Service!Leave(t)
  <2>1. phase[t] # "idle" /\ phase' = [phase EXCEPT ![t] = "idle"]
    BY <1>6 DEF Cancel, Return, phase, InFlight, TypeOK
  <2>2. got' = [got EXCEPT ![t] = None] /\ fault' = [fault EXCEPT ![t] = FALSE]
    BY <1>6 DEF Cancel, Return, QuietInv, TypeOK, InFlight
  <2>3. QED BY <1>6, <2>1, <2>2 DEF Cancel, Return, Service!Leave
<1>7. ASSUME NEW keys \in Documents, Publish(keys) PROVE Service!Publish(keys)
  <2>1. phase' = phase
    BY <1>7 DEF Publish, taskVars, phase, InFlight
  <2>2. steady' = [t \in Tasks |-> steady[t] /\ Service!Serves(keys, want[t])]
    BY <1>7, SameService DEF Publish
  <2>3. QED BY <1>7, <2>1, <2>2 DEF Publish, taskVars, Service!Publish
<1>8. ASSUME Tick PROVE Service!Tick
  <2>1. phase' = phase
    BY <1>8 DEF Tick, phase, InFlight
  <2>2. QED BY <1>8, <2>1 DEF Tick, Aged, Service!Tick
<1>9. CASE UNCHANGED vars
  BY <1>9 DEF vars, Service!vars, phase, InFlight
<1>10. QED
  BY <1>1, <1>2, <1>3, <1>4, <1>5, <1>6, <1>7, <1>8, <1>9
  DEF Next, TaskStep, Service!Next

LEMMA RefinementInit == Init => Service!Init
BY DEF Init, Service!Init, phase, InFlight

\* The concurrent cache with its forced refetch behaves as the key service.
THEOREM CacheImplementsService == Spec => ImplementsKeyResolution
<1>1. Spec => []TypeOK
  BY TypeCorrect
<1>2. Init => SteadyInv
  BY DEF Init, SteadyInv, NoFalseUnavailable, InFlight
<1>3. Init => QuietInv
  BY DEF Init, QuietInv
<1>4. QED
  BY <1>1, <1>2, <1>3, AgeInit, AgeStep, SteadyStep, QuietStep, RefinementInit, RefinementStep, PTL
  DEF Spec, ImplementsKeyResolution, Service!Spec

-----------------------------------------------------------------------------
(* Running down.                                                           *)

\* What a resolution has left: an exchange and the refetch, with their times.
Remaining(t) ==
  IF ~InFlight(t) THEN 0
    ELSE (IF forced[t] THEN 0 ELSE RequestTimeout + 2) + left[t] + (IF pc[t] = "sent" THEN 2 ELSE 1)

\* What is left of a resolution in flight.
LEMMA RemainingType ==
  TypeOK => \A t \in Tasks : /\ Remaining(t) \in 0..2 * RequestTimeout + 4
                             /\ InFlight(t) => Remaining(t) > 0
BY TimeAssumption DEF TypeOK, Remaining, InFlight

\* Every step of a resolution takes something off what it has left.
LEMMA StepRunsDown ==
  ASSUME TypeOK, NEW t \in Tasks, TaskStep(t), InFlight(t)
  PROVE  Remaining(t)' < Remaining(t)
<1> USE TimeAssumption DEF TypeOK, InFlight
<1>1. Remaining(t) > 0
  BY RemainingType
<1>2. CASE \E kid \in Kids : Resolve(t, kid)
  BY <1>2 DEF Resolve
<1>3. CASE Serve(t)
  BY <1>3 DEF Serve, Remaining
<1>4. CASE FetchDone(t)
  <2>1. CASE pc'[t] \in {"found", "unavailable"}
    <3>1. Remaining(t)' = 0
      BY <2>1 DEF Remaining
    <3> QED
      BY <3>1, <1>1
  <2>2. CASE ~forced[t] /\ SendFetch(t, TRUE)
    <3>1. Remaining(t)' = RequestTimeout + 2
      BY <2>2 DEF SendFetch, Remaining
    <3>2. Remaining(t) = RequestTimeout + 2 + left[t] + 1 /\ left[t] \in Nat
      BY <1>4, <2>2 DEF FetchDone, Remaining
    <3> QED
      BY <3>1, <3>2
  <2>3. pc'[t] \in {"found", "unavailable"} \/ (~forced[t] /\ SendFetch(t, TRUE))
    <3>1. ASSUME NEW key, Found(t, key) PROVE pc'[t] = "found"
      BY <3>1 DEF Found
    <3>2. KeyUnavailable(t) => pc'[t] = "unavailable"
      BY DEF KeyUnavailable
    <3> QED
      BY <1>4, <3>1, <3>2 DEF FetchDone, AfterFetch
  <2> QED
    BY <2>1, <2>2, <2>3
<1>5. CASE FetchMalformed(t) \/ FetchFailed(t) \/ FetchTimeout(t) \/ Cancel(t)
  <2>1. ~InFlight(t)'
    BY <1>5 DEF FetchMalformed, FetchFailed, FetchTimeout, Cancel, KeyUnavailable
  <2>2. Remaining(t)' = 0
    BY <2>1 DEF Remaining
  <2> QED
    BY <2>2, <1>1
<1>6. CASE Return(t)
  BY <1>6 DEF Return
<1> QED
  BY <1>2, <1>3, <1>4, <1>5, <1>6 DEF TaskStep

\* So does the clock.
LEMMA TickRunsDown ==
  ASSUME TypeOK, NEW t \in Tasks, Tick, InFlight(t)
  PROVE  Remaining(t)' < Remaining(t)
<1>1. left[t] \in Nat /\ left'[t] = left[t] - 1 /\ UNCHANGED <<pc, forced>>
  BY DEF Tick, TypeOK
<1>2. CASE forced[t]
  BY <1>1, <1>2 DEF Remaining, InFlight
<1>3. CASE ~forced[t]
  <2>1. Remaining(t) = RequestTimeout + 2 + left[t] + (IF pc[t] = "sent" THEN 2 ELSE 1)
    BY <1>3 DEF Remaining
  <2>2. Remaining(t)' = RequestTimeout + 2 + (left[t] - 1) + (IF pc[t] = "sent" THEN 2 ELSE 1)
    BY <1>1, <1>3 DEF Remaining, InFlight
  <2> QED
    BY <1>1, <2>1, <2>2, TimeAssumption
<1> QED
  BY <1>2, <1>3

\* Other tasks, however they use the entry, and the server leave it alone.
LEMMA OthersLeaveIt ==
  ASSUME TypeOK, NEW t \in Tasks, InFlight(t),
         (\E s \in Tasks \ {t} : TaskStep(s)) \/ (\E keys \in Documents : Publish(keys)) \/ UNCHANGED vars
  PROVE  Remaining(t)' = Remaining(t)
<1>1. pc'[t] = pc[t] /\ forced'[t] = forced[t] /\ left'[t] = left[t]
  <2>1. ASSUME NEW s \in Tasks \ {t}, TaskStep(s)
        PROVE  pc'[t] = pc[t] /\ forced'[t] = forced[t] /\ left'[t] = left[t]
    BY <2>1 DEF TypeOK, TaskStep, Resolve, ResolvePinned, ResolveCached, ResolveFetching, Serve,
       FetchDone, AfterFetch, FetchMalformed, FetchFailed, FetchTimeout, Cancel, Return,
       Found, KeyUnavailable, SendFetch
  <2> QED
    BY <2>1 DEF Publish, taskVars, vars
<1> QED
  BY <1>1 DEF Remaining, InFlight

\* A resolution in flight has at most 2 * RequestTimeout + 4 steps and ticks left,
\* whatever other tasks, the cache and the server do: each of its own steps and
\* each tick takes from them and nothing gives back, so that no sequence of
\* misses, insertions and rotations keeps it refetching.
THEOREM ResolutionsRunDown ==
  Spec => /\ [](\A t \in Tasks : Remaining(t) \in 0..2 * RequestTimeout + 4)
          /\ [][\A t \in Tasks : InFlight(t) =>
                  /\ Remaining(t)' <= Remaining(t)
                  /\ TaskStep(t) \/ Tick => Remaining(t)' < Remaining(t)]_vars
<1> DEFINE RunsDown == \A t \in Tasks : InFlight(t) =>
             /\ Remaining(t)' <= Remaining(t)
             /\ TaskStep(t) \/ Tick => Remaining(t)' < Remaining(t)
           Bounded == \A t \in Tasks : Remaining(t) \in 0..2 * RequestTimeout + 4
<1>1. TypeOK => Bounded
  BY RemainingType
<1>2. TypeOK /\ TypeOK' /\ [Next]_vars => RunsDown
  <2> SUFFICES ASSUME TypeOK, TypeOK', [Next]_vars, NEW t \in Tasks, InFlight(t)
               PROVE  /\ Remaining(t)' <= Remaining(t)
                      /\ TaskStep(t) \/ Tick => Remaining(t)' < Remaining(t)
    OBVIOUS
  <2>1. Remaining(t) \in Int /\ Remaining(t)' \in Int
    BY RemainingType, TimeAssumption DEF TypeOK, Remaining, InFlight
  <2>2. TaskStep(t) \/ Tick => Remaining(t)' < Remaining(t)
    BY StepRunsDown, TickRunsDown
  <2>3. TaskStep(t) \/ Tick \/ Remaining(t)' = Remaining(t)
    BY OthersLeaveIt DEF Next
  <2> QED
    BY <2>1, <2>2, <2>3
<1>3. TypeOK /\ TypeOK' /\ [Next]_vars => [RunsDown]_vars
  BY <1>2
<1> HIDE DEF RunsDown, Bounded
<1>4. Spec => []Bounded /\ [][RunsDown]_vars
  BY <1>1, <1>3, TypeCorrect, PTL DEF Spec
<1> QED
  BY <1>4 DEF RunsDown, Bounded
=============================================================================
