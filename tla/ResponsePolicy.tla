---------------------------- MODULE ResponsePolicy ----------------------------
(***************************************************************************)
(* Compiled response policies of both formats: what their validation       *)
(* accepts.  An issuer fills in the fields as it likes and issues the      *)
(* policy at some moment of ObserveWindow's calendar; canonical_bytes and  *)
(* the parsers run the same validation, which never looks at a clock but   *)
(* compares the fields with issued_at.  Names are numbers in their UTF-16  *)
(* order; identifiers, digests and bounds have the right form or not.      *)
(***************************************************************************)
EXTENDS ObserveWindow, Sequences, FiniteSets, Functions

CONSTANTS
  Names,                 \* of tools
  Drafts,                \* what issuers fill in, see DraftType
  MaxLifetime,           \* max_envelope_lifetime_seconds, 300
  MAX_SAFE_INTEGER

\* The empty name.
nameless == 0

Classes == {"malicious_url", "pii", "prompt_injection", "secret"}

class_rank == [malicious_url |-> 1, pii |-> 2, prompt_injection |-> 3, secret |-> 4]

\* lifetime is expires_at - issued_at.  Only format 2 has redact_classes, a
\* scanner and an observe window.
DraftType ==
  [format : {1, 2}, header : BOOLEAN, version : {"2.2", "2.3", "other"}, lifetime : Int,
   covered_tools : Seq(Names),
   web_fetch_tools : Seq(Names) \cup {None}, http_tools : Seq(Names) \cup {None},
   block_classes : Seq(Classes) \cup {None}, deny_strings : Seq(Nat) \cup {None},
   redact_classes : Seq(Classes) \cup {None},
   scanner : [profile : BOOLEAN, classes : Seq(Classes), confidence : BOOLEAN] \cup {None},
   observe : [classes : Seq(Classes), until : Untils] \cup {None}]

ASSUME PolicyAssumption ==
  /\ Names \subseteq Nat
  /\ Drafts \subseteq DraftType
  /\ {MaxLifetime, MAX_SAFE_INTEGER} \subseteq Nat
  /\ None \in Untils \ Drafts
  /\ \A p \in Drafts :
       p.format = 1 => p.redact_classes = None /\ p.scanner = None /\ p.observe = None

VARIABLES
  compiled,  \* the policy that was issued, or None; its time is in the variable policy
  valid      \* whether it passes validate

policyVars == <<now, elapsed, left, policy, compiled, valid>>

-----------------------------------------------------------------------------
Increasing(numbers) == \A i \in 1..Len(numbers) - 1 : numbers[i] < numbers[i + 1]

sorted_unique_nonempty(names) ==
  names # <<>> /\ nameless \notin Range(names) /\ Increasing(names)

sorted_unique_classes(classes) ==
  classes # <<>> /\ Increasing([i \in DOMAIN classes |-> class_rank[classes[i]]])

Lifetime(p, issued) ==
  /\ issued <= MAX_SAFE_INTEGER /\ issued + p.lifetime <= MAX_SAFE_INTEGER
  /\ p.lifetime \in 1..MaxLifetime

ClassLists(p) ==
  \A classes \in {p.block_classes, p.redact_classes} \ {None} : sorted_unique_classes(classes)

Scanner(p) ==
  p.scanner # None =>
    /\ p.scanner.profile /\ p.scanner.confidence
    /\ sorted_unique_classes(p.scanner.classes)

Observe(p, issued) ==
  p.observe # None => sorted_unique_classes(p.observe.classes) /\ InWindow(issued, p.observe.until)

Given(tools) == IF tools = None THEN <<>> ELSE tools

sorted(S) == CHOOSE s \in [1..Cardinality(S) -> S] : Range(s) = S /\ Increasing(s)

union(p) == sorted(Range(Given(p.web_fetch_tools)) \cup Range(Given(p.http_tools)))

\* Seeded fault: the union is compared without counting it.
Coverage_uncounted(p) == union(p) = p.covered_tools

\* The union without duplicates is as long as both lists, and is what is covered.
Coverage(p) ==
  /\ p.web_fetch_tools # None \/ p.http_tools # None
  /\ Len(union(p)) = Len(Given(p.web_fetch_tools)) + Len(Given(p.http_tools))
  /\ union(p) = p.covered_tools

validate(p, issued) ==
  /\ p.header
  /\ p.version = IF p.format = 1 THEN "2.2" ELSE "2.3"
  /\ Lifetime(p, issued)
  /\ \A names \in {p.covered_tools, p.web_fetch_tools, p.http_tools, p.deny_strings} \ {None} :
       sorted_unique_nonempty(names)
  /\ ClassLists(p) /\ Scanner(p) /\ Observe(p, issued) /\ Coverage(p)

-----------------------------------------------------------------------------
PolicyInit == Init /\ compiled = None /\ valid = FALSE

\* A policy is issued, its observe window with it, and validated.
IssuePolicy(p) ==
  /\ Issue(IF p.observe = None THEN None ELSE p.observe.until)
  /\ compiled' = p
  /\ valid' = validate(p, elapsed)

PolicyNext ==
  \/ \E p \in Drafts : IssuePolicy(p)
  \/ Tick /\ UNCHANGED <<compiled, valid>>

PolicySpec == PolicyInit /\ [][PolicyNext]_policyVars

-----------------------------------------------------------------------------
(* Properties. *)

\* Every tool a valid policy covers is inspected in exactly one way, as a web
\* fetch or as HTTP, and no tool is inspected that is not covered, so that what
\* a decision about it means never depends on which list is looked at first; the
\* validation only compares lengths and one sorted union.
CoverageIsAPartition ==
  valid =>
    /\ \A i \in DOMAIN compiled.covered_tools :
         compiled.covered_tools[i] \in Range(Given(compiled.web_fetch_tools))
           <=> compiled.covered_tools[i] \notin Range(Given(compiled.http_tools))
    /\ Range(Given(compiled.web_fetch_tools)) \cup Range(Given(compiled.http_tools))
         \subseteq Range(compiled.covered_tools)

=============================================================================
