------------------------ MODULE ResponseDecisionProofs ------------------------
(***************************************************************************)
(* Proofs about ResponseDecision, for lists of any length and any text.    *)
(***************************************************************************)
EXTENDS ResponseDecision, WellFoundedInduction, TLAPS

\* Lists of the right kind, and a verdict that is never out of date.
IInv ==
  /\ head \in HeadPool
  /\ findings \in Seq(FindingPool) /\ Len(findings) <= MaxFindings
  /\ redactions \in Seq(RedactionPool) /\ Len(redactions) <= MaxRedactions
  /\ accepted \in BOOLEAN
  /\ accepted => validate

LEMMA Invariance == Spec => []IInv
<1>0. MaxFindings \in Nat /\ MaxRedactions \in Nat
  BY DecisionAssumption
<1>1. Init => IInv
  <2> SUFFICES ASSUME Init PROVE IInv
    OBVIOUS
  <2>1. findings \in Seq(FindingPool) /\ Len(findings) = 0
    BY DEF Init
  <2>2. redactions \in Seq(RedactionPool) /\ Len(redactions) = 0
    BY DEF Init
  <2>3. accepted \in BOOLEAN /\ ~accepted
    BY DEF Init
  <2> QED
    BY <1>0, <2>1, <2>2, <2>3 DEF Init, IInv
<1>2. IInv /\ [Next]_vars => IInv'
  <2> SUFFICES ASSUME IInv, [Next]_vars PROVE IInv'
    OBVIOUS
  <2>1. ASSUME NEW f \in FindingPool, AddFinding(f) PROVE IInv'
    <3>1. findings' \in Seq(FindingPool) /\ Len(findings') <= MaxFindings
      BY <1>0, <2>1 DEF AddFinding, IInv
    <3>2. accepted' \in BOOLEAN /\ ~accepted'
      BY <2>1 DEF AddFinding
    <3> QED
      BY <2>1, <3>1, <3>2 DEF AddFinding, IInv
  <2>2. ASSUME NEW r \in RedactionPool, AddRedaction(r) PROVE IInv'
    <3>1. redactions' \in Seq(RedactionPool) /\ Len(redactions') <= MaxRedactions
      BY <1>0, <2>2 DEF AddRedaction, IInv
    <3>2. accepted' \in BOOLEAN /\ ~accepted'
      BY <2>2 DEF AddRedaction
    <3> QED
      BY <2>2, <3>1, <3>2 DEF AddRedaction, IInv
  <2>3. ASSUME UNCHANGED <<head, findings, redactions>> PROVE validate' = validate
    BY <2>3 DEF validate, HeaderValid, FindingsValid, FindingValid, RedactionsValid,
      RedactionValid, NeighboursApart, FindingsCovered, DispositionValid, ScannerValid,
      ReasonValid, ObserveValid, Enforceable, ScannerFindings, Observed
  <2>4. CASE Travel
    BY <2>3, <2>4 DEF Travel, IInv
  <2>5. CASE UNCHANGED vars
    BY <2>3, <2>5 DEF vars, IInv
  <2> QED
    BY <2>1, <2>2, <2>4, <2>5 DEF Next
<1> QED
  BY <1>1, <1>2, PTL DEF Spec

\* A list of numbers' least member: the only induction the proofs need.
LEMMA LeastNatural ==
  ASSUME NEW T \in SUBSET Nat, T # {}
  PROVE  \E n \in T : \A m \in T : ~(m < n)
<1>1. \E n \in T : \A m \in T : ~(<<m, n>> \in OpToRel(<, Nat))
  BY NatLessThanWellFounded, WFMin
<1> QED
  BY <1>1 DEF OpToRel

\* The elements of both lists have offsets that are numbers.
LEMMA OffsetsAreNumbers ==
  ASSUME IInv
  PROVE  /\ \A i \in DOMAIN findings : findings[i].start \in Nat /\ findings[i].end \in Nat
         /\ \A i \in DOMAIN redactions : redactions[i].start \in Nat /\ redactions[i].end \in Nat
<1>1. \A i \in DOMAIN findings : findings[i] \in FindingType
  BY DecisionAssumption DEF IInv
<1>2. \A i \in DOMAIN redactions : redactions[i] \in RedactionType
  BY DecisionAssumption DEF IInv
<1> QED
  BY <1>1, <1>2 DEF FindingType, RedactionType

LEMMA TypesHold == IInv => TypeOK
<1> SUFFICES ASSUME IInv PROVE TypeOK
  OBVIOUS
<1>1. ASSUME accepted, NEW x \in Range(findings) \cup Range(redactions)
      PROVE  {x.start, x.end} \subseteq 0..MAX_SAFE_INTEGER
  <2>1. OffsetsValid(x)
    BY <1>1 DEF IInv, validate, FindingsValid, FindingValid, RedactionsValid, RedactionValid
  <2>2. x.start \in Nat /\ x.end \in Nat
    BY <1>1, OffsetsAreNumbers DEF Range
  <2> QED
    BY <2>1, <2>2, DecisionAssumption DEF OffsetsValid
<1> QED
  BY <1>1 DEF IInv, TypeOK

\* Spans that are apart from their neighbours are apart from all others.  A
\* least counterexample would put a span before one that its own predecessor
\* already precedes.
LEMMA NeighboursSuffice ==
  ASSUME IInv, accepted, NEW i \in DOMAIN redactions, NEW j \in DOMAIN redactions, i < j
  PROVE  redactions[i].end <= redactions[j].start
<1> DEFINE T == {n \in Nat : n \in DOMAIN redactions /\
                   \E m \in DOMAIN redactions :
                     m < n /\ ~(redactions[m].end <= redactions[n].start)}
<1>0. /\ DOMAIN redactions = 1..Len(redactions) /\ Len(redactions) \in Nat
      /\ \A n \in 1..Len(redactions) :
           /\ redactions[n].start \in Nat /\ redactions[n].end \in Nat
           /\ redactions[n].start < redactions[n].end
  <2>1. \A n \in DOMAIN redactions : OffsetsValid(redactions[n])
    BY DEF IInv, validate, RedactionsValid, RedactionValid, Range
  <2> QED
    BY <2>1, OffsetsAreNumbers DEF IInv, OffsetsValid
<1>1. NeighboursApart
  BY DEF IInv, validate
<1>2. SUFFICES ASSUME T # {} PROVE FALSE
  BY <1>0
<1>3. PICK n \in T : \A m \in T : ~(m < n)
  BY <1>2, LeastNatural
<1>4. PICK m \in 1..Len(redactions) : m < n /\ ~(redactions[m].end <= redactions[n].start)
  BY <1>0
<1>5. n \in 1..Len(redactions) /\ n - 1 \in 1..Len(redactions) /\ n - 1 < n
  BY <1>0, <1>4
<1>6. redactions[n - 1].end <= redactions[n].start
  <2>1. n - 1 \in 1..Len(redactions) - 1 /\ (n - 1) + 1 = n
    BY <1>0, <1>5
  <2> QED
    BY <1>1, <2>1 DEF NeighboursApart
<1>7. m # n - 1
  BY <1>4, <1>6
<1>8. m < n - 1
  BY <1>0, <1>4, <1>5, <1>7
<1>9. n - 1 \notin T
  BY <1>3, <1>5
<1>10. redactions[m].end <= redactions[n - 1].start
  <2>1. n - 1 \in Nat /\ n - 1 \in DOMAIN redactions /\ m \in DOMAIN redactions
    BY <1>0, <1>4, <1>5
  <2> QED
    BY <1>8, <1>9, <2>1
<1> QED
  BY <1>0, <1>4, <1>5, <1>6, <1>10

LEMMA DisjointFromInv == IInv => SpansAreDisjoint
<1> SUFFICES ASSUME IInv, accepted, NEW i \in DOMAIN redactions,
                    NEW j \in DOMAIN redactions, i # j
             PROVE  Text(redactions[i]) \cap Text(redactions[j]) = {}
  BY DEF SpansAreDisjoint
<1>1. i \in Nat /\ j \in Nat
  BY DEF IInv
<1>2. CASE i < j
  BY <1>2, NeighboursSuffice, OffsetsAreNumbers DEF Text
<1>3. CASE j < i
  BY <1>3, NeighboursSuffice, OffsetsAreNumbers DEF Text
<1> QED
  BY <1>1, <1>2, <1>3

LEMMA CompleteFromInv == IInv => RedactionIsComplete
<1> SUFFICES ASSUME IInv, accepted, NEW f \in Enforceable,
                    \E r \in Range(redactions) : f.class \in Range(r.classes)
             PROVE  Text(f) \subseteq Redacted
  BY DEF RedactionIsComplete
<1>1. PICK r \in Range(redactions) : Within(f, r)
  BY DEF IInv, validate, FindingsCovered
<1>2. /\ f.start \in Nat /\ f.end \in Nat /\ r.start \in Nat /\ r.end \in Nat
  BY OffsetsAreNumbers DEF Enforceable, Range
<1>3. Text(f) \subseteq Text(r)
  BY <1>1, <1>2 DEF Within, Text
<1> QED
  BY <1>3 DEF Redacted

LEMMA ReleaseFromInv == IInv => ReleasesHeardTheScanner
<1> SUFFICES ASSUME IInv, accepted, head.disposition # "Block"
             PROVE  /\ head.scanner.status = "Failed" => ~head.scanner.required
                    /\ head.scanner.status = "SkippedTerminal" => redactions # <<>>
                    /\ \A i \in ScannerFindings :
                         /\ head.scanner.status = "Verified"
                         /\ Enforced(findings[i]) => redactions # <<>>
  BY DEF ReleasesHeardTheScanner
<1>1. ScannerValid /\ DispositionValid
  BY DEF IInv, validate
<1>2. redactions # <<>> \/ (head.disposition = "Allow" /\ Enforceable = {})
  BY <1>1 DEF DispositionValid
<1>3. head.scanner.status = "Failed" => ~head.scanner.required
  BY <1>1 DEF ScannerValid
<1>4. head.scanner.status = "SkippedTerminal" => redactions # <<>>
  BY <1>1, <1>2 DEF ScannerValid
<1>5. ASSUME NEW i \in ScannerFindings
      PROVE  /\ head.scanner.status = "Verified"
             /\ Enforced(findings[i]) => redactions # <<>>
  <2>1. head.scanner.status = "Verified"
    BY <1>1, <1>5 DEF ScannerValid
  <2>2. findings[i] \in Range(findings)
    BY <1>5 DEF ScannerFindings, Range
  <2>3. Enforced(findings[i]) => findings[i] \in Enforceable
    BY <2>2 DEF Enforceable
  <2> QED
    BY <1>2, <2>1, <2>3
<1> QED
  BY <1>3, <1>4, <1>5

LEMMA ExpiryFromInv == IInv => ExpiredWindowExcusesNothing
<1> SUFFICES ASSUME IInv, accepted, head.until # "none", ~head.active
             PROVE  head.disposition = "Block" /\ Observed = {}
  BY DEF ExpiredWindowExcusesNothing
<1>1. ObserveValid
  BY DEF IInv, validate
<1> QED
  BY <1>1 DEF ObserveValid

\* An accepted decision has well-formed lists whose offsets are safe integers.
THEOREM DecisionTypeCorrect == Spec => []TypeOK
BY Invariance, TypesHold, PTL

\* However many spans an accepted decision lists, no two of them share text.
THEOREM AcceptedSpansAreDisjoint == Spec => []SpansAreDisjoint
BY Invariance, DisjointFromInv, PTL

\* However many findings an accepted decision lists, one of a redacted class
\* leaves no text behind.
THEOREM AcceptedRedactionIsComplete == Spec => []RedactionIsComplete
BY Invariance, CompleteFromInv, PTL

\* No scanner finding and no scanner failure is lost on the way to a release.
THEOREM ReleasesHearTheScanner == Spec => []ReleasesHeardTheScanner
BY Invariance, ReleaseFromInv, PTL

\* A window that has ended excuses no finding and releases nothing.
THEOREM ExpiryExcusesNothing == Spec => []ExpiredWindowExcusesNothing
BY Invariance, ExpiryFromInv, PTL
=============================================================================
