--------------------------- MODULE ResponseDecision ---------------------------
(***************************************************************************)
(* The format-2 response decision (ResponseDecisionV2 of response_wire.rs):*)
(* what its validation accepts.  A host assembles a decision about a tool  *)
(* result field by field, or receives one; canonical_bytes and             *)
(* parse_response_decision_v2 run the same validation, and only a decision *)
(* that passes it travels.  Text is its positions; digests are numbers, as *)
(* they are only compared; identifiers have the right form or not.         *)
(***************************************************************************)
EXTENDS Naturals, Sequences, FiniteSets, Functions

CONSTANTS
  FindingPool,       \* findings a decision may list, see FindingType
  RedactionPool,     \* redaction spans, see RedactionType
  HeadPool,          \* the remaining fields, see HeadType
  MaxFindings,       \* bound on the findings of a decision
  MaxRedactions,     \* bound on its redactions
  MaxList,           \* the most findings the wire format admits
  MAX_SAFE_INTEGER,  \* largest offset
  Rulesets           \* ruleset versions other than the deterministic one

Classes == {"malicious_url", "pii", "prompt_injection", "secret"}

\* class_name: classes are ordered by their names.
class_rank ==
  [malicious_url |-> 1, pii |-> 2, prompt_injection |-> 3, secret |-> 4]

\* The number that stands for every digest of the wrong form.
malformed == 0

FindingType ==
  [class : Classes, start : Nat, end : Nat, digest : Nat,
   source : {"Deterministic", "Scanner"},
   ruleset : Rulesets \cup {"sof-response-rules-v1", ""},
   confidence : {"none", "valid", "malformed"}, qualified : BOOLEAN, observed : BOOLEAN]

RedactionType ==
  [start : Nat, end : Nat, classes : Seq(Classes), digests : Seq(Nat)]

\* Reasons for which an evaluation ends before the scanner is asked.
TerminalReasons ==
  {"DeterministicBlock", "ResponseLiteral", "UnsupportedBinaryResult", "ProjectionLimit",
   "NestingLimit", "EvaluatorFailure", "BindingMismatch", "LegacyUnsupported",
   "EnvelopeInvalid", "Replay", "Duplicate", "Cancelled", "TimedOut"}

Reasons ==
  TerminalReasons \cup {"None", "ScannerFailure", "ScannerBlock", "Redaction", "ObserveExpired"}

ScannerType ==
  [status : {"NotConfigured", "SkippedTerminal"}]
  \cup [status : {"Failed"}, required : BOOLEAN]
  \cup [status : {"Verified"}, complete : BOOLEAN, ruleset : Rulesets \cup {""}, count : Nat]

HeadType ==
  [header : BOOLEAN, disposition : {"Allow", "Block", "Redact"}, reason : Reasons,
   plan : {"none", "digest", "malformed"}, scanner : ScannerType,
   active : BOOLEAN, until : {"none", "instant", "malformed"},
   observed_classes : Seq(Classes), observed_count : Nat]

ASSUME DecisionAssumption ==
  /\ FindingPool \subseteq FindingType
  /\ RedactionPool \subseteq RedactionType
  /\ HeadPool \subseteq HeadType
  /\ {MaxFindings, MaxRedactions, MaxList, MAX_SAFE_INTEGER} \subseteq Nat

VARIABLES
  head,        \* the fields of the decision that are no lists
  findings,    \* its findings
  redactions,  \* its redaction spans
  accepted     \* whether this very decision has passed validate

vars == <<head, findings, redactions, accepted>>

-----------------------------------------------------------------------------
(* The parts of validate, in the code's order. *)

SortedUnique(classes) ==
  \A i \in 1..Len(classes) - 1 : class_rank[classes[i]] < class_rank[classes[i + 1]]

OffsetsValid(x) == x.start < x.end /\ x.end <= MAX_SAFE_INTEGER

\* A finding that counts: it meets the confidence asked for and is not merely observed.
Enforced(f) == f.qualified /\ ~f.observed

Enforceable == {f \in Range(findings) : Enforced(f)}

Within(f, r) == r.start <= f.start /\ f.end <= r.end

Cites(r, f) == f.class \in Range(r.classes) /\ f.digest \in Range(r.digests)

HeaderValid == head.header

FindingValid(f) ==
  /\ OffsetsValid(f)
  /\ f.digest # malformed
  /\ f.ruleset # ""
  /\ \/ f.source = "Deterministic" /\ f.confidence = "none"
        /\ f.ruleset = "sof-response-rules-v1"
     \/ f.source = "Scanner" /\ f.confidence = "valid"

FindingsValid == Len(findings) <= MaxList /\ \A f \in Range(findings) : FindingValid(f)

\* Every class and every digest a span cites is that of an enforced finding in it.
RedactionValid(r) ==
  /\ OffsetsValid(r)
  /\ r.classes # <<>> /\ SortedUnique(r.classes)
  /\ r.digests # <<>>
  /\ malformed \notin Range(r.digests)
  /\ \A i \in 1..Len(r.digests) - 1 : r.digests[i] < r.digests[i + 1]
  /\ \A g \in Range(r.digests) : \E f \in Enforceable :
       f.digest = g /\ Within(f, r) /\ f.class \in Range(r.classes)
  /\ \A k \in Range(r.classes) : \E f \in Enforceable :
       f.class = k /\ Within(f, r) /\ f.digest \in Range(r.digests)

RedactionsValid == \A r \in Range(redactions) : RedactionValid(r)

\* Seeded fault: neighbours are ordered by their starts alone.
NeighboursApart_by_start ==
  \A i \in 1..Len(redactions) - 1 : redactions[i].start <= redactions[i + 1].start

NeighboursApart ==
  \A i \in 1..Len(redactions) - 1 : redactions[i].end <= redactions[i + 1].start

\* Seeded fault: a span need only begin before the finding it stands for.
FindingsCovered_at_start ==
  \A f \in Enforceable :
    (\E r \in Range(redactions) : f.class \in Range(r.classes)) =>
      \E r \in Range(redactions) : r.start <= f.start /\ f.start < r.end /\ Cites(r, f)

\* Once a class is redacted, each of its enforced findings lies in one span
\* that cites it.
FindingsCovered ==
  \A f \in Enforceable :
    (\E r \in Range(redactions) : f.class \in Range(r.classes)) =>
      \E r \in Range(redactions) : Within(f, r) /\ Cites(r, f)

DispositionValid ==
  \/ /\ head.disposition = "Allow" /\ head.reason = "None"
     /\ redactions = <<>> /\ head.plan = "none" /\ Enforceable = {}
  \/ /\ head.disposition = "Redact" /\ head.reason = "Redaction"
     /\ redactions # <<>> /\ head.plan = "digest"
  \/ /\ head.disposition = "Block" /\ head.reason \notin {"None", "Redaction"}
     /\ redactions = <<>> /\ head.plan = "none"

ScannerFindings == {i \in DOMAIN findings : findings[i].source = "Scanner"}

\* Seeded fault: a failed scanner is accepted whether or not it was required.
ScannerValid_optional ==
  \/ head.scanner.status \in {"NotConfigured", "SkippedTerminal", "Failed"}
     /\ ScannerFindings = {}
  \/ head.scanner.status = "Verified" /\ head.scanner.count = Cardinality(ScannerFindings)

ScannerValid ==
  \/ /\ head.scanner.status = "NotConfigured"
     /\ ScannerFindings = {}
  \/ /\ head.scanner.status = "SkippedTerminal"
     /\ ScannerFindings = {}
     /\ \/ head.disposition = "Redact" /\ head.reason = "Redaction"
        \/ head.disposition = "Block" /\ head.reason \in TerminalReasons
  \/ /\ head.scanner.status = "Failed"
     /\ ScannerFindings = {}
     /\ head.scanner.required =>
          head.disposition = "Block" /\ head.reason = "ScannerFailure"
  \/ /\ head.scanner.status = "Verified"
     /\ head.scanner.complete /\ head.scanner.ruleset # ""
     /\ head.scanner.count <= MaxList
     /\ head.scanner.count = Cardinality(ScannerFindings)
     /\ \A i \in ScannerFindings : findings[i].ruleset = head.scanner.ruleset

ReasonValid ==
  /\ head.reason = "ScannerBlock" =>
       /\ head.scanner.status = "Verified"
       /\ \E f \in Enforceable : f.source = "Scanner"
  /\ head.reason = "ScannerFailure" =>
       head.scanner.status = "Failed" /\ head.scanner.required

Observed == {i \in DOMAIN findings : findings[i].observed}

\* Seeded fault: findings may be observed although the window is not active.
ObserveValid_inactive ==
  /\ head.observed_count = Cardinality(Observed)
  /\ \A i \in Observed : findings[i].class \in Range(head.observed_classes)
  /\ IF head.until # "none" /\ ~head.active
       THEN head.disposition = "Block" /\ head.reason = "ObserveExpired"
       ELSE head.reason # "ObserveExpired"

\* An active window has an end; an ended one blocks.
ObserveValid ==
  /\ SortedUnique(head.observed_classes)
  /\ head.observed_count <= MaxList
  /\ head.observed_count = Cardinality(Observed)
  /\ \A i \in Observed : head.active /\ findings[i].class \in Range(head.observed_classes)
  /\ head.until # "malformed"
  /\ head.until = "none" => ~head.active
  /\ IF head.until # "none" /\ ~head.active
       THEN head.disposition = "Block" /\ head.reason = "ObserveExpired"
       ELSE head.reason # "ObserveExpired"

validate ==
  /\ HeaderValid /\ FindingsValid /\ RedactionsValid /\ NeighboursApart /\ FindingsCovered
  /\ DispositionValid /\ ScannerValid /\ ReasonValid /\ ObserveValid

-----------------------------------------------------------------------------
TypeOK ==
  /\ head \in HeadPool
  /\ findings \in Seq(FindingPool) /\ Len(findings) <= MaxFindings
  /\ redactions \in Seq(RedactionPool) /\ Len(redactions) <= MaxRedactions
  /\ accepted \in BOOLEAN
  /\ accepted => \A x \in Range(findings) \cup Range(redactions) :
                   {x.start, x.end} \subseteq 0..MAX_SAFE_INTEGER

Init ==
  /\ head \in HeadPool
  /\ findings = <<>>
  /\ redactions = <<>>
  /\ accepted = FALSE

\* External: the fields are public, and an edited decision is a new one.
AddFinding(f) ==
  /\ Len(findings) < MaxFindings
  /\ findings' = Append(findings, f)
  /\ accepted' = FALSE
  /\ UNCHANGED <<head, redactions>>

AddRedaction(r) ==
  /\ Len(redactions) < MaxRedactions
  /\ redactions' = Append(redactions, r)
  /\ accepted' = FALSE
  /\ UNCHANGED <<head, findings>>

\* canonical_bytes, or parse_response_decision_v2 of such bytes: without a
\* passing validation there are no bytes and no decision.
Travel ==
  /\ validate
  /\ accepted' = TRUE
  /\ UNCHANGED <<head, findings, redactions>>

Next ==
  \/ \E f \in FindingPool : AddFinding(f)
  \/ \E r \in RedactionPool : AddRedaction(r)
  \/ Travel

Spec == Init /\ [][Next]_vars

-----------------------------------------------------------------------------
(* Properties: what a reader of an accepted decision may rely on, in terms *)
(* of the text it is about.                                                *)

Text(x) == x.start .. (x.end - 1)

Redacted == UNION {Text(r) : r \in Range(redactions)}

\* If any text of a class is redacted, no position of any enforced finding of
\* that class survives: a redaction is never partial, neither by leaving out a
\* finding nor by covering only part of one.
RedactionIsComplete ==
  accepted =>
    \A f \in Enforceable :
      (\E r \in Range(redactions) : f.class \in Range(r.classes)) => Text(f) \subseteq Redacted

\* No position is redacted by two spans, neighbours or not, so that replacing
\* them one after the other is well defined; validate compares neighbours only.
SpansAreDisjoint ==
  accepted =>
    \A i, j \in DOMAIN redactions :
      i # j => Text(redactions[i]) \cap Text(redactions[j]) = {}

\* A result is released (allowed or redacted) only when the scanner had its say:
\* none was configured, it verified, its failure was declared optional, or it was
\* skipped because deterministic findings already had the result redacted.  An
\* enforced scanner finding is never released without being redacted as a class
\* or accompanied by a redaction.
ReleasesHeardTheScanner ==
  accepted /\ head.disposition # "Block" =>
    /\ head.scanner.status = "Failed" => ~head.scanner.required
    /\ head.scanner.status = "SkippedTerminal" => redactions # <<>>
    /\ \A i \in ScannerFindings :
         /\ head.scanner.status = "Verified"
         /\ Enforced(findings[i]) => redactions # <<>>

\* Observation never outlives its window: once the window has ended nothing is
\* released, and no finding, of whatever source, is excused as merely observed.
ExpiredWindowExcusesNothing ==
  accepted /\ head.until # "none" /\ ~head.active =>
    head.disposition = "Block" /\ Observed = {}

=============================================================================
