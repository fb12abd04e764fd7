# Verification of agent-hooks-rs

TLA+ models of the Sigil agent hooks for Rust, model-checked with TLC on small
instances and, for the parts that carry the authority to execute actions,
proved with TLAPS for every value of the constants.

Every definition is translated from the Rust source or the release script. The
map from definitions to source lines, the runs, the proved theorems and the
list of hazards are in `PROJECT.json`.

## The system

A host (an agent runtime) asks the Sigil server whether it may run an action.
The client sends an authorize request, receives a decision with a signed
*decision record* and, for an allowed action, a signed *intent attestation*,
verifies both with keys it resolves from the server's key set, and returns a
result that may or may not carry an opaque capability. Only a capability lets
an execution adapter run the action.

| Component | State | Operations | Interacts with | What makes it hard |
| --- | --- | --- | --- | --- |
| Key resolution (`decision.rs`: `resolve_jwk`, `fetch_jwks`) | one cache entry per client, shared by its clones through an `Arc<Mutex>`; a pinned key | resolve a kid: pinned key, live cache, fetch, forced refetch | called by token verification; the server's key set | overlapping fetches, late insertions, rotation, removed keys, timeouts, dropped futures |
| Record verification (`decision.rs`) | none of its own; works on one response | `verify_authorization_response` and the claim checks | key resolution twice per response; called by the client and directly by hosts | ordered early returns, time passing at two awaits, responses of other requests, fallback by mode |
| Authorization client (`client.rs`) | configuration; per call the nonce and commitment; the process's default task id | `check_intent`: validate the intent, build body and commitment, classify the response, apply fail modes | the server over HTTPS; verification | body and commitment built separately, shared commitments; reached against unreachable, 403 as policy denial, broken bodies |
| Client builder (`client.rs`) | the configuration being built | setters, `build` | creates HTTP clients and the cache | Enforce needs a pin; both HTTP clients share the timeout |
| Model usage ledger (`model_usage.rs`) | process-wide map from task id to accumulated usage | record, report, clear, budget check | `check_intent` for budgets; all clients of the process | clock read before the lock, eviction, checked additions, read-then-await |
| IronClaw hook (`sigil-agent-hooks-ironclaw`) | a client, a mapper | `build` (rebuilds the client), `execute` | runs `check_intent` under the runtime's hook timeout | the hook timeout equals one exchange's timeout; the client is rebuilt field by field |
| Rejection context (`rejection.rs`) | none | maps a result to what the agent is told | hook, hosts | which refusals may be retried |
| Response policies (`response_wire.rs`) | none | parse, validate, serialize, formats 1 and 2 | not used by the client at run time | tool lists that must not overlap, lifetimes, observe windows as UTC texts |
| Response decisions (`response_wire.rs`) | none | parse, validate, serialize, formats 1 and 2 | not used by the client at run time | redaction coverage checked locally, scanner evidence against findings, expired observation |
| Crate publisher (`scripts/publish-rust-crates.sh`) | crates.io | publish what is missing, wait for the index | cargo, crates.io, GitHub workflow | partial releases, index lag, overlapping runs |
| Decision gates, CI | none | scan sources; run commands | the repository | none |

What makes each of them correct:

- *Key resolution*: a key handed out is pinned, or is valid, carries the
  token's kid and was published recently; a key the server serves all along is
  found; a resolution ends.
- *Verification and client*: verified authority only for the very request the
  server allowed; unverified authority only by fail-open without a response or
  in Warn mode; nothing but an allowed result carries a capability; proof is
  fresh when authority is granted; calls end.
- *Request*: the commitment covers the operation that is sent, no more and no
  less; authority is for the whole body; unnamed work shares one task.
- *Hook and builder*: the client the hook rebuilds keeps the caller's
  configuration; a tool runs only on authority that configuration accepts; every
  tool call ends; only an outage is advised to be retried.
- *Ledger*: usage of a task is never lost or understated except by clear or
  expiry; a budget check sends at least what was used before it began; spend is
  exact and has one text per amount.
- *Response policies*: every covered tool is inspected in one way; an observe
  window ends, by the calendar, within the longest window.
- *Response decisions*: a redaction is complete and its spans are disjoint; what
  is released has been scanned as far as it must be; observation ends.
- *Publisher*: dependency order; success means released; releases complete.

## Modules

```
KeyResolution  <--implements--  JwksCache  <-- JwksCacheProofs
                                    ^-- MCJwksCache
AuthorityContract <--implements-- Authorization (EXTENDS DecisionRecord)
                                    ^-- MCAuthorization, AuthorizationProofs
                            ^-- same contract, INSTANCEd for the caller's settings
                       IronclawHook (EXTENDS ClientBuilder) <-- MCIronclawHook, IronclawHookProofs
IntentRequest (EXTENDS DecisionRecord) <-- MCIntentRequest, IntentRequestProofs
ModelUsage, Spend <-- MCModelUsage, ModelUsageProofs
ResponsePolicy (EXTENDS ObserveWindow) <-- MCResponsePolicy, ResponsePolicyProofs
ResponseDecision <-- MCResponseDecision, ResponseDecisionProofs
Publish <-- MCPublish, PublishProofs
```

**KeyResolution** is what `resolve_jwk` promises its caller: one resolution per
task, answered by a trustworthy key, given up because the server did not serve
the kid throughout, or failed by the network.

**JwksCache** is the code. A task moves through `idle`, `sent` (the GET of
`fetch_jwks` is out), `replied` (the body is on its way), `found` or
`unavailable`. The mutex is never held across an await, so looking up and
inserting are one step each and everything in between interleaves. `forced`
says which of the two fetches of `resolve_jwk` is in flight. Instants are kept
relative to the present (`cache.left`, `left[t]`), so time needs no bound. Two
history variables, `gone` (how long ago each key was last published) and
`steady` (the server served the kid all along), are read by the properties
only. `Cancel` is the future being dropped by a host's own timeout.

**DecisionRecord** holds the checks on tokens as operators, in the code's order
of early returns and with its reasons. A token is a record of claims; a hash is
the value hashed; a damaged token is one that does not parse or whose signature
does not verify. The trust placed in Ed25519 and SHA-256 is thereby assumed.

**AuthorityContract** is what execution adapters rely on: who may end up with
which kind of authority. It knows no tokens, keys or times.

**Authorization** runs several checks of one client concurrently: `Start`
prepares a request (a fresh nonce, its commitment), `Rule` is the server
signing a record for it, `Head`, `BodyInvalid`, `BodyDecoded` and `Unreachable`
are the ways the exchange can end, `Present` is a host calling the public
verifier itself, `VerifyRecord` and `VerifyAttestation` are the two halves of
`verify_authorization_response` around its awaits. The network is modelled by
what may arrive: any status with any record and attestation ever signed, or
with damaged ones. Key resolution is used by its contract only: within
`ResolveTimeout` it yields the key of the token or none. The fail mode, the
verification mode and the pin are chosen initially among those `build` accepts.

**IntentRequest** is what precedes the POST: `Prepare` is
`prepare_authorize_request_at` with `validate_intent`, the commitment derived from
the intent or supplied by the caller (a commitment already in use included), and
the default task id of the process, made of a clock that may go back or stand
before the epoch. A digest is what is hashed; the fields both structs copy
unconditionally are one operand, the gated, validated and uncommitted ones are
kept apart. The server signs records about the bodies it got (`Allow`), and any of
them may answer a call (`Grant`, which is `validate_decision_bindings`).

**ClientBuilder** holds `build`, with its refusals in the code's order, and
`rebuild_settings`, the field-by-field copy of `IronclawSigilHookBuilder::build`,
as operators. **IronclawHook** runs tool calls through the rebuilt client:
`ToolCall` maps an event to an intent, `NoResponse`, `Respond` and `Verify` are the
ways `check_intent` may come to a result, `Decide` is what `execute` makes of it,
rejection context included, and `HookTimeout` is the runtime dropping the future.
What `check_intent` may answer is taken from `AuthorityContract`, which
`Authorization` is shown to implement. The same contract is instantiated a second
time with the *caller's* settings in place of the rebuilt client's
(`CallersContract`): a field lost in the rebuild breaks it. With a silent server the
hook's timeout (`lib.rs:171-173`) and the fail-open result fall due at the same
moment, and the model lets either come first.

**ModelUsage** is the ledger with threads that have read the clock and resolved
their task id but do not hold the lock yet (`Begin...`), and then act under the
lock in one step (`Finish...`, `AskBudget`). `TokenMax` plays `u64::MAX`.
`floor` is a history variable: what the task had used when a report was asked
for.

**Spend** is the decimal text of one ledger entry: `RecordSpend` parses an amount,
adds it in micros and prints the sum, as `record_model_usage` does under the lock
that `ModelUsage` models; there, a spend that does not fit is one more reason to
refuse a record. The base, the number of places and `U128_MAX` are constants.
`exact` is a history variable: it adds what each numeral is worth by its place
(`Worth`), without the code's parser, its padding or its split into micros.

**ObserveWindow** is the window of a format-2 policy: a calendar walks second by
second (`Tick`, with month lengths and the Gregorian rule stated as people state
them) beside `canonical_utc_seconds` and `seconds`, the conversion of the code, and
a window may be written at any moment of the walk (`Issue`). **ResponsePolicy** puts
the rest of a compiled policy around it: an issuer fills in the fields of either
format as it likes (`Drafts`), and `IssuePolicy` is the validation that
`canonical_bytes` and the parsers share, with the time of the walk as `issued_at`.

**ResponseDecision** is the validation of a format-2 decision, one operator per
block of `validate`. A text is its positions and a digest a number, as digests are
only compared; the properties speak of the positions, the code of neighbouring
spans and citations.

**Publish** is the script. A run checks, publishes and waits for each crate in
order; runs may overlap, be killed or fail spuriously (`RunFault`,
`CheckFault`, at most `MaxFaults`); the index catches up later (`Index`).

Definitions that carry the comment *Seeded fault* next to the real ones are
plausible bugs (a dropped comparison, a missing reset, an off-by-one). They are
used by no specification: replacing the real definition by one of them makes
the property named in `PROJECT.json` under `mutants` fail, which shows that the
property depends on that code.

## Runs

| Run | Instance | Shows |
| --- | --- | --- |
| `keys` | 2 tasks, 4 keys on 2 kids, 4 published sets (rotation, duplicate kid, invalid key), pin or none, TTL 2, timeout 1 | `ContentAge`, `AcceptedKeyIsRecent`, `NoFalseUnavailable`, `ResolutionEnds`, implements `KeyResolution` |
| `mixed_responses` | 2 checks, 2 commitments, 4 configurations (both modes, both fail modes, pinned and not), damaged signatures; for one commitment and configuration also server clocks ahead by 0 or 2 and a clock to 5 (validity 2, tolerance 1, resolution 1) | `LegacyIsExplained`, `GrantsAreFresh`, implements `AuthorityContract` under swapped and mixed responses |
| `surfaces` | 1 call of either entry, all literals, three surfaces, 2 policies, 2 keys, hold or none, both kinds of damage | `AuthorityIsBacked`, `OnlyAllowedCarriesAuthority`, `ChecksEnd` |
| `intent_request` | 2 calls, 3 clients, 10 intents (each refusal of `validate_intent` among them), one supplied commitment, clock from -1 to 1 | `TypeOK`, `CommitIsTheOperation`, `AuthorityIsForTheBody`, `OneDefaultTask` |
| `hook` | every setting a caller can leave in the builder (36864 of them); under 6 of them 2 calls of 4 tools or parameter forms, hook timeout 2, no exchange need end | `RebindKeepsConfiguration`, `ToolsRunOnAuthority`, `RetryOnlyAfterOutage`, `CallsEnd`, implements `AuthorityContract` as the caller configured it |
| `usage` | 2 threads, 2 clients (own task id, process default), 2 usages, `TokenMax` 4, lifetime 1; spends in base 3 with 2 places, sums to 61 micros, 152 reported texts | `TypeOK`, `TotalCoversParts`, `BudgetCountsPriorUsage`, `UsageIsNeverLost`, `ReportsAreAlive`, `SpendIsExact`, `RefusedOnlyWhenFull` |
| `policy` | 4 days of 8 seconds from 4 dates (the ends of February 2000 and 2100, of 2023 and of 9999), windows of 3 days, 86 texts; 3 names (one empty) in 3 lists, and policies with one thing wrong | `DateIsCounted`, `WindowIsBounded`, `WindowEndExists`, `NoWindowRefused`, `CoverageIsAPartition` |
| `decision` | 3 positions, up to 3 of 7 findings and 3 of 7 spans, two classes; and up to 2 of 9 findings and 1 of 2 spans with 7 dispositions, 7 scanner results, all windows | `RedactionIsComplete`, `SpansAreDisjoint`, `ReleasesHeardTheScanner`, `ExpiredWindowExcusesNothing` |
| `release` | 2 runs, 2 crates, 2 checks per wait, 2 faults | `SuccessMeansReleased`, `DependenciesFirst`, `ReleaseCompletes`, `RunsEnd` |
| `enforce_pending`, `no_execution`, `release_rerun` | one check or one run | statements of the documents that the code does not keep, see below |

Four runs put two questions to one component and keep their product small, three
of them by a state constraint. `MCWhenTimePasses`: the swapped responses of
`mixed_responses` are explored while the clocks stand still, and once a clock moves
only allowed records of one intent are followed. `MCCalls`: the hook is built from
every setting, and called under those that differ in mode, fail mode and pin, which
are all a call depends on. `MCLists`: long lists go with the one head that redacts,
all heads with short lists. In `usage`, `MCNext` moves the ledger or the spends while
the other is at its start: they share no variable. Where a module has a type
invariant that no run lists, it is proved (see Proofs).

Why these bounds are enough: two tasks, checks, threads or runs are what it
takes for one to overtake, overwrite or answer for the other; every property
relates at most two of them and one piece of shared state. TTL 2 with timeout 1
makes both the expiry of an entry and the late insertion of an older one occur
in either order, and `StaleBound` is reached. A validity of 2 and a tolerance of
1 let a record expire during the attestation's key resolution, with the clock
running past every limit. `TokenMax` is reached by two records of one task, and
the clock of the ledger runs past the lifetime, so expiry by an old stamp and by
a new one both occur. Two faults allow a kill and a spurious failure in one
release. Two calls suffice for a shared commitment and for a second caller of the
default task id; the rebuilt client is explored over every setting, so nothing is
left to chance there. Three spans are the fewest for which neighbours say nothing
of the outer two, and three positions let findings be contained, adjoin and
straddle. The walks of the calendar cover every kind of month end, a leap year, a
common century and a turn of the era, and proofs cover the other dates. In base 3
with two places every path of parsing and printing occurs (inner, leading and
trailing zeros, no fraction, overflow of the text and of the sum). The clocks of `Authorization` and `ModelUsage` are bounded by `MaxNow`,
as is that of `IntentRequest`, the walk of `ObserveWindow` by `MaxDays`, the lists of
`ResponseDecision` by `MaxFindings` and `MaxRedactions`, and the faults of `Publish` by `MaxFaults`; nothing else is bounded
by a guard.
Deadlock is not checked where a finished system may stop (all checks returned,
clock at its bound, all crates released).

### Statements of the documents that do not hold

- `enforce_pending`: `architecture.md:139-140` says that in Enforce mode any
  reached but unverifiable response denies. `fallback` (`decision.rs:964`)
  denies only `ALLOWED`; an unverified `PENDING` is returned as pending, with the
  hold id of the unverified body. No authority results from it.
- `no_execution`: `decision.rs:201` documents `execution` as whether the
  verification can grant execution authority. In Warn mode `fallback` grants a
  legacy capability whatever it says.
- `release_rerun`: `architecture.md:129` says a rerun resumes instead of failing
  on the already-published core version. While the index lags behind the
  upload, the rerun publishes again and fails.

## Fairness

- `JwksCache!FairSpec`: time passes and an expired timeout is noticed. That is
  what `reqwest`'s total timeout on the JWKS client gives; no answer of the server
  is assumed.
- `Authorization!FairSpec`: an outstanding exchange of a check ends in one of
  its ways. The POST is bounded by the request timeout and key resolution ends by
  `ResolutionEnds`. The choice among the ways is free.
- `IronclawHook!FairSpec`: time passes and the runtime's timer fires. Nothing is
  assumed of the server or of the exchanges of a check.
- `Publish!RunFairSpec`: the runner executes the script, whose waits are counted.
  Nothing is assumed of the index or of the people who start runs: what
  `ReleaseCompletes` needs of them, that unsuccessful runs are repeated and that the
  index catches up with an upload, is its antecedent `Resumed`.

The ledger has no liveness property: its operations do not wait for each other
beyond the mutex. Nor have `IntentRequest` and the pure validators.

## Proofs

For every number of tasks, keys, kids and documents, and every positive TTL and
timeout (`KeyAssumption`, `TimeAssumption`):

- `JwksCacheProofs!TypeCorrect`, `ContentAgeHolds`, `AcceptedKeysAreRecent`,
  `UnavailableIsJustified`. `AcceptedKeyIsRecent` is not inductive: a key is
  accepted from a cache another task filled. The strengthening, `AgeInv`, bounds
  the age of the cached content by the lifetime left to the entry, and of each
  reply by the time left to its exchange; the two bounds add up to `StaleBound`
  because an insertion trades the second for the first. `SteadyInv` says the same
  of the set the server served throughout.
- `JwksCacheProofs!CacheImplementsService`: each step of the resolver is a
  step of the key service or a stutter. It needs `QuietInv`: a task without an
  outcome holds no key and no fault.

For every number of checks, configurations, policies, kids, surfaces and holds
(`AuthorizationAssumption`, `ClockAssumption`):

- `AuthorizationProofs!AuthorizationTypeCorrect`, `AuthorityBacked`,
  `LegacyExplained`, `OnlyAllowedHasAuthority`. `AuthorityIsBacked` says nothing of a check that is still
  waiting for the attestation's key, so the induction needs `PendingInv`: the
  record such a check holds was signed by the server for exactly this request.
  `AcceptedRecord` derives that from the claim checks, and `Rule` only adds
  records, so it stays true. `ReachedInv` and `OpenInv` tie the history of a call
  to its progress for the fail-open case. `OnlyAllowedCarriesAuthority` needs
  `OnlyInv`: the fallback of a body under verification attaches a capability to an
  allowed literal only.
- `AuthorizationImplementsContract`: each step of a check is a step of
  `AuthorityContract` or a stutter. A check that ends must then end with one of the
  results the contract offers, and a verified one with the server's allowance, which
  `AuthInv` supplies before and after the step.
- `GrantsFresh`: `TimeInv` bounds how far the record of a check that waits for the
  attestation's key can have expired by what the resolution has used of its time.

For every set of calls, clients, intents, policies, names and commitments, and every
bound of the clock and of chain identifiers (`RequestAssumption`, and
`AbsenceAssumption`: an absent task is no task):

- `IntentRequestProofs!TypeCorrect`, `CommitmentsFollowOperations`,
  `AuthorityForTheBody`, `TaskIsShared`. The invariant ties each body to its intent
  (`BodyOf`), each signed record to the body its nonce names (`SignedInv`), and each
  body of unnamed work to the identifier of the process (`TaskOf`), which no later
  request replaces.

For every number of calls, tools, settings, policies and holds, and every timeout
(`BuilderAssumption`, `HookAssumption`):

- `IronclawHookProofs!HookTypeCorrect`, `ToolsRunOnlyOnAuthority`. The hook decides by
  the client it rebuilt and the property speaks of the caller's settings;
  `HookClientKeeps` shows that rebuilding keeps mode, fail mode and pin, and the
  invariant carries that along with the calls in flight.
- `RebindingKeepsConfiguration`: every configuration the builder accepts passes it a
  second time, field by field.
- `RetriesOnlyAfterOutage`: only the classification of an unreachable server is
  explained with the code that advises to retry (`RetryMeansUnreachable`).
- `HookImplementsContract`: the same contract as above, for the settings of the caller
  instead of the client that was rebuilt; `CInv` adds that a call without an event has
  no authority and no advice.

For every number of threads, clients, task ids and usages, every width of the
counters and every lifetime (`UsageAssumption`):

- `ModelUsageProofs!LedgerTypeCorrect`, `TotalsCoverParts`. A record normalizes its
  usage before it has the lock, so `CoverInv` says of the usages in waiting what
  `TotalCoversParts` says of the ledger.
- `BudgetsCountPriorUsage`: `FloorInv` says of every check that has not read the
  ledger yet that its task's live entry covers what had been used when it began, and
  follows it through concurrent records, evictions by an older clock reading and
  clears.
- `UsageNeverLost`, `ReportsStayAlive`: a step evicts expired entries only and a
  record never lowers a total, saturation included (`RecordKeeps`, `LosesOnlyExpired`);
  what a reader finds after its own eviction is alive at its clock reading.

For every set of findings, spans and heads, lists of any length and offsets of any
size (`DecisionAssumption`):

- `ResponseDecisionProofs!AcceptedSpansAreDisjoint`, `AcceptedRedactionIsComplete`,
  `ReleasesHearTheScanner`, `ExpiryExcusesNothing`, `DecisionTypeCorrect`. The invariant is that an accepted decision passes `validate` as
  it stands. That ordered neighbours order all spans needs induction on the distance
  of two spans, done as a least counterexample (`LeastNatural`): the closest
  overlapping pair has a span between them that also overlaps.

For every clock of up to 99 hours, minutes and seconds, every longest window, every
walk from the known dates and every set of texts (`WindowAssumption`):

- `ResponsePolicyProofs!DatesAreCounted`, `WindowsAreBounded`, `WindowEndsExist`,
  `ProperWindowsAccepted`, `WindowTypeCorrect`. The invariant is that the seconds
  counted equal the seconds computed; `NextDayCounts` is its step, by cases on month
  ends, the end of February and the end of a year, from `YearLength` and the
  month formula. `DatesInOrder` and `SecondsInOrder` show that the computed seconds
  order texts as their digits do, so that comparing them compares dates. The
  conversion is thereby right relative to `KnownDays`, the dates the walks start from.

For every policy drafted from any names and lists of any length (`PolicyAssumption`):

- `ResponsePolicyProofs!CoverageIsPartition`. Validation counts: it compares the length
  of the sorted union with the lengths of the two lists, and the property speaks of the
  tools in them. `SortedIs` shows that every finite set of names has a sorted list without
  repetitions, by induction on its cardinality, and `CoveragePartitions` that lists whose
  lengths add up to the size of their union share no tool.
- `PolicyImplementsWindow`: issuing the rest of a policy leaves the window as
  `ObserveWindow` has it, so that the theorems above hold for policies.

For every base, number of places and largest amount, and every set of offered texts
(`SpendAssumption`):

- `ModelUsageProofs!SpendExact`, `RefusedWhenFull`. `SpendInv` says more than either: an
  entry with a spend holds the very text `micros_to_decimal(exact)`. It is inductive
  because parsing undoes printing (`PrintedReadsBack`, with `ToStringReadsBack` for the
  whole part, `PaddedReadsBack` and `TrimKeeps` for the fraction) and because what a
  decimal is worth by its places is what the parser makes of it (`WorthIsMicros`).
  The library's induction and recursion theorems take operators as parameters and cannot
  be used; the proofs use their well-founded core instead. `Descent` states induction for
  sets, as the absence of a least counterexample, and `RecursionDefines` shows that a
  recursive function over a rank that falls exists, so that `power`, `number`, `places`,
  `to_string` and `trim_end` meet the equations they are written with.

For every number of runs, crates, attempts and faults (`PublishAssumption`):

- `PublishProofs!PublishTypeCorrect`, `SuccessReleases`, `PublishesInOrder`. Both
  claims follow from `ProgressInv`: a run at work on a crate has seen every earlier
  crate in the index. The dependency it needs is one of them, and a run that
  finishes has seen them all.

Under the assumptions of each component above, what is left of work in flight is bounded
and only falls (`Remaining`, one in each of the modules):

- `JwksCacheProofs!ResolutionsRunDown`: two exchanges with their timeouts; no sequence of
  misses, insertions by other tasks and rotations makes a task fetch a third time.
- `AuthorizationProofs!ChecksRunDown`: the head, the body and two key resolutions; no
  answer sends a check back, and one that returned never runs again.
- `IronclawHookProofs!CallsRunDown`: the hook's timeout and the two steps of its check.
- `PublishProofs!RunsRunDown`: a check, a publication and `MaxAttempts` waits for each
  crate, faults included, whether or not the index catches up.

What the liveness runs add is that the steps which are left do happen, under fairness.

Only model-checked: `ResolutionEnds`, `ChecksEnd`, `CallsEnd`, `RunsEnd` and
`ReleaseCompletes`, as fairness and ENABLED are outside the prover's reach. Their safety
half is proved: what a step can never do is give back what is left (see below). Every
other property of a passing run has a theorem.

## Not modelled

- The syntax of JWS, JWK, JSON, URLs and identifiers, and the cryptography: a token is
  genuine or damaged, a key set acceptable or not, a name well formed or not. The
  canonical JSON serialization of the response wire types and its UTF-16 order of
  names are among them: names are numbers in that order.
- Messages, logging and error texts.
- The texts an IronClaw mapper copies from tool parameters, beyond the action and
  whether the parameters are an object.
- Format-1 response decisions: their few checks (`response_wire.rs:585-639`) relate a
  disposition to a reason and keep no list, and a property of them would repeat them.
- That a server never sends `SIGIL_UNREACHABLE` as an error code of its own is assumed
  (`HookAssumption`); the code would pass such a denial on, and the agent would be told
  to retry.
- The source gates and CI: commands without state.

## Plan

Built in this order: key resolution, verification and the client with their contracts;
the ledger; the publisher; the hook with the builder, against the client's contract; the
response validators, the calendar and the spend; the request before the POST. What is
left:

1. `CheckedResolution`: `Authorization` with the two key resolutions of a check
   played by `KeyResolution` and key rotation, to drop the assumption that
   resolution is instantaneous in its choice of key.
