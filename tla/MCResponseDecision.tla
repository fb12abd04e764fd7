------------------------- MODULE MCResponseDecision -------------------------
(***************************************************************************)
(* Instances of ResponseDecision: short texts, two classes, few digests.   *)
(***************************************************************************)
EXTENDS ResponseDecision

Finding(k, s, e, g) ==
  [class |-> k, start |-> s, end |-> e, digest |-> g, source |-> "Deterministic",
   ruleset |-> "sof-response-rules-v1", confidence |-> "none", qualified |-> TRUE,
   observed |-> FALSE]

Scanned(f) == [f EXCEPT !.source = "Scanner", !.ruleset = "r1", !.confidence = "valid"]

Span(s, e, ks, gs) == [start |-> s, end |-> e, classes |-> ks, digests |-> gs]

Fields(d, r, p) ==
  [header |-> TRUE, disposition |-> d, reason |-> r, plan |-> p,
   scanner |-> [status |-> "NotConfigured"], active |-> FALSE, until |-> "none",
   observed_classes |-> <<>>, observed_count |-> 0]

\* Findings and spans that overlap, adjoin, straddle and repeat each other.
MCTextFindings ==
  {Finding("pii", 0, 1, 1), Finding("pii", 1, 2, 1), Finding("pii", 2, 3, 1),
   Finding("pii", 0, 2, 2), Finding("pii", 1, 3, 1),
   Finding("secret", 0, 2, 1), Finding("secret", 1, 2, 2)}
MCTextSpans ==
  {Span(0, 1, <<"pii">>, <<1>>), Span(1, 2, <<"pii">>, <<1>>), Span(2, 3, <<"pii">>, <<1>>),
   Span(0, 2, <<"pii">>, <<1>>), Span(1, 3, <<"pii">>, <<1>>),
   Span(0, 2, <<"pii", "secret">>, <<1, 2>>), Span(0, 3, <<"pii">>, <<1, 2>>)}
MCTextHeads == {Fields("Redact", "Redaction", "digest")}

\* Findings of either source, enforced, unqualified, observed or malformed.
MCSourceFindings ==
  LET f == Finding("pii", 0, 1, 1)
  IN {f, Scanned(f), [f EXCEPT !.observed = TRUE], [f EXCEPT !.qualified = FALSE],
      [Scanned(f) EXCEPT !.observed = TRUE], [Scanned(f) EXCEPT !.ruleset = "r2"],
      [f EXCEPT !.digest = malformed], [Scanned(f) EXCEPT !.confidence = "malformed"],
      [f EXCEPT !.end = 9]}
MCSourceSpans == {Span(0, 1, <<"pii">>, <<1>>), Span(0, 1, <<"secret", "pii">>, <<1>>)}

MCScanners ==
  {[status |-> s] : s \in {"NotConfigured", "SkippedTerminal"}}
    \cup {[status |-> "Failed", required |-> q] : q \in BOOLEAN}
    \cup {[status |-> "Verified", complete |-> TRUE, ruleset |-> "r1", count |-> n] : n \in 0..2}
MCDispositions ==
  {Fields("Allow", "None", "none"), Fields("Redact", "Redaction", "digest")}
    \cup {Fields("Block", r, "none") : r \in {"DeterministicBlock", "ScannerFailure",
                                            "ScannerBlock", "ObserveExpired", "None"}}
MCSourceHeads ==
  {[h EXCEPT !.scanner = s, !.active = a, !.until = u,
             !.observed_classes = IF n > 0 THEN <<"pii">> ELSE <<>>, !.observed_count = n] :
     h \in MCDispositions, s \in MCScanners, a \in BOOLEAN,
     u \in {"none", "instant"}, n \in 0..2}
  \cup {Fields("Redact", "Redaction", "malformed"),
        [Fields("Block", "ObserveExpired", "none") EXCEPT !.until = "malformed"]}

MCFindings == MCTextFindings \cup MCSourceFindings
MCSpans == MCTextSpans \cup MCSourceSpans
MCHeads == MCTextHeads \cup MCSourceHeads

\* Long lists are about the text they mark, under the one head that redacts by
\* deterministic findings; the sources are explored with short lists.
MCLists ==
  \/ /\ head \in MCTextHeads
     /\ Range(findings) \subseteq MCTextFindings /\ Range(redactions) \subseteq MCTextSpans
  \/ /\ Len(findings) <= 2 /\ Len(redactions) <= 1
     /\ Range(findings) \subseteq MCSourceFindings /\ Range(redactions) \subseteq MCSourceSpans
=============================================================================
