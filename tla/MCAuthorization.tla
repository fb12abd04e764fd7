--------------------------- MODULE MCAuthorization ---------------------------
(***************************************************************************)
(* Instances of Authorization.  Times are scaled: a token is valid for two *)
(* units, the clocks may differ by one, a key resolution takes at most one.*)
(***************************************************************************)
EXTENDS Authorization, TLC

CONSTANTS c1, c2, m1, m2, p1, p2, k1, k2, h1

Intent(m) == [entry |-> "check_intent", commit |-> m, surface |-> "authorize",
              execution |-> TRUE]
Direct(m, s, x) == [entry |-> "verify", commit |-> m, surface |-> s, execution |-> x]

MCTwoIntents == {Intent(m1), Intent(m2)}
MCOneIntent == {Intent(m1)}
MCNoExecution == {Direct(m1, "authorize", FALSE)}
MCMixed == {Intent(m1), Direct(m1, "hold_resolve", TRUE), Direct(m1, "authorize", FALSE),
            Direct(m1, "test_run", FALSE)}

Config(m, f, p) == [mode |-> m, failMode |-> f, pin |-> p]
MCConfigs == {Config("Enforce", "Closed", p1), Config("Enforce", "Open", p1),
              Config("Warn", "Closed", None), Config("Warn", "Open", p1)}
MCEnforce == {Config("Enforce", "Closed", p1)}
MCWarn == {Config("Warn", "Closed", None)}

\* State constraint of the mixed run.  Clocks matter to the ages of one kind of
\* record; once time counts, or a server's clock differs, only that kind is kept.
MCTimed ==
  now > 0 \/ \E r \in signed : r.iat # 0

MCWhenTimePasses ==
  MCTimed =>
    /\ config \in MCEnforce
    /\ \A c \in Checks : context[c] \in {None, Intent(m1)}
    /\ \A r \in signed :
         r.decision = "ALLOWED" /\ r.intent = m1
    /\ \A c \in Checks : body[c] # None =>
         /\ body[c].status = "ALLOWED"
         /\ body[c].record \in signed
         /\ body[c].attestation \in Attested

MCTwoChecks == {c1, c2}
MCOneCheck == {c1}
MCSymmetry == Permutations(MCTwoChecks)
=============================================================================
