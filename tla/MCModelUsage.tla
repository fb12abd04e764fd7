----------------------------- MODULE MCModelUsage -----------------------------
(***************************************************************************)
(* Two threads; one client has a task id of its own and the other falls    *)
(* back to the process default.  Spends are numbers to base three with two *)
(* places: with and without a fraction, with inner, leading and trailing   *)
(* zeros, a foreign character, a fraction that is too long and wholes that *)
(* are too large.                                                          *)
(***************************************************************************)
EXTENDS ModelUsage, Spend, TLC

CONSTANTS th1, th2, own, shared, ta, dflt

MCThreads == {th1, th2}
MCClients == {own, shared}
MCTaskIds == {ta, dflt}
MCClientTask == (own :> ta) @@ (shared :> None)
MCOneInput == [input |-> 1, output |-> None, total |-> None]
MCUsages == {MCOneInput, [input |-> 1, output |-> 1, total |-> 3]}
MCSymmetry == Permutations(MCThreads)

MCWholes ==
  {<<>>, <<0>>, <<1>>, <<2>>, <<1, 0>>, <<1, 2>>, <<2, 1>>, <<0, 1>>, <<2, 0, 1>>, <<2, 1, 0, 0>>}

MCFractions ==
  UNION {[1..n -> 0..Base - 1] : n \in 0..Places} \cup {<<0, 0, 0>>, <<1, 0, 2>>}

MCOffers ==
  [whole : MCWholes, fraction : MCFractions]
  \cup {[whole |-> <<1, Other>>, fraction |-> <<>>], [whole |-> <<1>>, fraction |-> <<Other>>]}

\* The spends share no variable with the ledger, so the steps of the two need not
\* be interleaved: either moves while the other is at its start.
MCInit == Init /\ SpendInit

MCNext ==
  \/ SpendInit /\ Next /\ UNCHANGED spendVars
  \/ Init /\ SpendNext /\ UNCHANGED vars

MCSpec == MCInit /\ [][MCNext]_<<vars, spendVars>>
=============================================================================
