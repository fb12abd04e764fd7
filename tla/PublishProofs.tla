---------------------------- MODULE PublishProofs ----------------------------
(***************************************************************************)
(* For every number of runs and crates, every limit on attempts and every  *)
(* number of faults: the script keeps the dependency order, and a run that *)
(* succeeds has released everything.                                       *)
(***************************************************************************)
EXTENDS Publish, Integers, TLAPS

Active(r) == pc[r] \in {"check", "publish", "wait"}

\* What makes the order inductive: a run at work on a crate has seen every
\* earlier one in the index, not only the one before it.
ProgressInv ==
  \A r \in Runs : Active(r) => \A n \in Positions : n < crate[r] => n \in visible

Inv == TypeOK /\ ProgressInv /\ SuccessMeansReleased

-----------------------------------------------------------------------------
\* Moving on past a crate that is in the index keeps both facts of the run.
LEMMA ProceedSafe ==
  ASSUME Inv, NEW r \in Runs, Active(r), Proceed(r),
         crate[r] \in visible, visible' = visible
  PROVE  /\ pc' \in [Runs -> {"idle", "check", "publish", "wait", "ended"}]
         /\ crate' \in [Runs -> Positions]
         /\ attempt' \in [Runs -> 0..MaxAttempts]
         /\ exit' \in [Runs -> {"none", "ok", "timeout", "duplicate", "fault"}]
         /\ ProgressInv'
         /\ SuccessMeansReleased'
  <1> USE PublishAssumption DEF Inv, TypeOK, Positions
  <1>1. CASE crate[r] = Len(Crates)
    <2>1. \A n \in Positions : n \in visible
      BY <1>1 DEF ProgressInv
    <2>2. ProgressInv'
      BY <1>1 DEF Proceed, End, ProgressInv, Active
    <2>3. SuccessMeansReleased'
      BY <1>1, <2>1 DEF Proceed, End, SuccessMeansReleased
    <2>4. 0 \in 0..MaxAttempts
      OBVIOUS
    <2>5. /\ pc' = [pc EXCEPT ![r] = "ended"]
          /\ exit' = [exit EXCEPT ![r] = "ok"]
          /\ attempt' = [attempt EXCEPT ![r] = 0]
          /\ UNCHANGED crate
      BY <1>1 DEF Proceed, End
    <2> QED BY <2>2, <2>3, <2>4, <2>5
  <1>2. CASE crate[r] # Len(Crates)
    <2>1. crate[r] + 1 \in Positions
      BY <1>2
    <2>2. ProgressInv'
      BY <1>2 DEF Proceed, ProgressInv, Active
    <2>3. SuccessMeansReleased'
      BY <1>2 DEF Proceed, SuccessMeansReleased
    <2>4. 0 \in 0..MaxAttempts
      OBVIOUS
    <2>5. /\ pc' = [pc EXCEPT ![r] = "check"]
          /\ crate' = [crate EXCEPT ![r] = crate[r] + 1]
          /\ attempt' = [attempt EXCEPT ![r] = 0]
          /\ UNCHANGED exit
      BY <1>2 DEF Proceed
    <2> QED BY <2>1, <2>2, <2>3, <2>4, <2>5
  <1> QED BY <1>1, <1>2

\* Ending without success, or another round of the wait, changes no claim.
LEMMA EndSafe ==
  ASSUME Inv, NEW r \in Runs, Active(r), visible' = visible,
         \/ \E why \in {"timeout", "duplicate", "fault"} : End(r, why)
         \/ Missed(r)
  PROVE  /\ pc' \in [Runs -> {"idle", "check", "publish", "wait", "ended"}]
         /\ crate' \in [Runs -> Positions]
         /\ attempt' \in [Runs -> 0..MaxAttempts]
         /\ exit' \in [Runs -> {"none", "ok", "timeout", "duplicate", "fault"}]
         /\ ProgressInv'
         /\ SuccessMeansReleased'
  <1> USE PublishAssumption DEF Inv, TypeOK, Positions
  <1>1. CASE \E why \in {"timeout", "duplicate", "fault"} : End(r, why)
    <2>1. ProgressInv'
      BY <1>1 DEF End, ProgressInv, Active
    <2>2. SuccessMeansReleased'
      BY <1>1 DEF End, SuccessMeansReleased
    <2> QED BY <1>1, <2>1, <2>2 DEF End
  <1>2. CASE attempt[r] < MaxAttempts /\ Missed(r)
    <2>1. attempt[r] + 1 \in 0..MaxAttempts
      BY <1>2
    <2>2. /\ UNCHANGED <<pc, crate, exit>>
          /\ attempt' = [attempt EXCEPT ![r] = attempt[r] + 1]
      BY <1>2 DEF Missed
    <2> QED BY <2>1, <2>2 DEF ProgressInv, Active, SuccessMeansReleased
  <1> QED BY <1>1, <1>2 DEF Missed

-----------------------------------------------------------------------------
LEMMA InvInit == Init => Inv
  BY PublishAssumption
  DEF Init, Inv, TypeOK, Positions, ProgressInv, Active, SuccessMeansReleased

LEMMA InvStep == Inv /\ [Next]_vars => Inv'
  <1> SUFFICES ASSUME Inv, [Next]_vars PROVE Inv'
    OBVIOUS
  <1> USE PublishAssumption
  <1>1. ASSUME NEW r \in Runs, Begin(r) PROVE Inv'
    <2>1. TypeOK'
      BY <1>1 DEF Begin, Inv, TypeOK, Positions
    <2>2. ProgressInv'
      BY <1>1 DEF Begin, Inv, TypeOK, ProgressInv, Active, Positions
    <2>3. SuccessMeansReleased'
      BY <1>1 DEF Begin, Inv, TypeOK, SuccessMeansReleased, Positions
    <2> QED BY <2>1, <2>2, <2>3 DEF Inv
  <1>2. ASSUME NEW r \in Runs, Check(r) PROVE Inv'
    <2>1. Active(r)
      BY <1>2 DEF Check, Active
    <2>2. CASE crate[r] \in visible
      <3>1. Proceed(r) /\ UNCHANGED <<uploaded, visible, faults>>
        BY <1>2, <2>2 DEF Check
      <3> QED BY <2>1, <2>2, <3>1, ProceedSafe DEF Inv, TypeOK, Positions
    <2>3. CASE crate[r] \notin visible
      <3>1. /\ pc' = [pc EXCEPT ![r] = "publish"]
            /\ UNCHANGED <<uploaded, visible, crate, attempt, exit, faults>>
        BY <1>2, <2>3 DEF Check
      <3> QED BY <2>1, <3>1
          DEF Inv, TypeOK, Positions, ProgressInv, Active, SuccessMeansReleased
    <2> QED BY <2>2, <2>3
  <1>3. ASSUME NEW r \in Runs, PublishCrate(r) PROVE Inv'
    <2>1. Active(r)
      BY <1>3 DEF PublishCrate, Active
    <2>2. CASE /\ End(r, "duplicate")
               /\ UNCHANGED <<uploaded, visible, faults>>
      BY <2>1, <2>2, EndSafe DEF Inv, TypeOK, Positions
    <2>3. CASE /\ uploaded' = uploaded \cup {crate[r]}
               /\ pc' = [pc EXCEPT ![r] = "wait"]
               /\ attempt' = [attempt EXCEPT ![r] = 1]
               /\ UNCHANGED <<crate, exit, visible, faults>>
      <3>1. 1 \in 0..MaxAttempts /\ crate[r] \in Positions
        BY DEF Inv, TypeOK
      <3>2. TypeOK'
        BY <2>3, <3>1 DEF Inv, TypeOK
      <3> QED BY <2>1, <2>3, <3>2
          DEF Inv, TypeOK, Positions, ProgressInv, Active, SuccessMeansReleased
    <2> QED BY <1>3, <2>2, <2>3 DEF PublishCrate
  <1>4. ASSUME NEW r \in Runs, WaitForCrate(r) PROVE Inv'
    <2>1. Active(r) /\ UNCHANGED <<uploaded, visible, faults>>
      BY <1>4 DEF WaitForCrate, Active
    <2>2. CASE crate[r] \in visible /\ Proceed(r)
      BY <2>1, <2>2, ProceedSafe DEF Inv, TypeOK, Positions
    <2>3. CASE Missed(r)
      BY <2>1, <2>3, EndSafe DEF Inv, TypeOK, Positions
    <2> QED BY <1>4, <2>2, <2>3 DEF WaitForCrate
  <1>5. ASSUME NEW r \in Runs, CheckFault(r) PROVE Inv'
    <2>1. /\ Active(r)
          /\ faults' \in 0..MaxFaults
          /\ UNCHANGED <<uploaded, visible>>
      BY <1>5 DEF CheckFault, Active, Inv, TypeOK
    <2>2. CASE /\ pc' = [pc EXCEPT ![r] = "publish"]
               /\ UNCHANGED <<crate, attempt, exit>>
      BY <2>1, <2>2
      DEF Inv, TypeOK, Positions, ProgressInv, Active, SuccessMeansReleased
    <2>3. CASE Missed(r)
      BY <2>1, <2>3, EndSafe DEF Inv, TypeOK, Positions
    <2> QED BY <1>5, <2>2, <2>3 DEF CheckFault
  <1>6. ASSUME NEW r \in Runs, RunFault(r) PROVE Inv'
    <2>1. /\ Active(r) /\ End(r, "fault")
          /\ faults' \in 0..MaxFaults
          /\ UNCHANGED visible
      BY <1>6 DEF RunFault, Active, Inv, TypeOK
    <2>2. uploaded' \subseteq Positions /\ visible' \subseteq uploaded'
      BY <1>6 DEF RunFault, Inv, TypeOK, Positions
    <2> QED BY <2>1, <2>2, EndSafe DEF Inv, TypeOK, Positions
  <1>7. ASSUME NEW n \in Positions, Index(n) PROVE Inv'
    <2>1. TypeOK'
      BY <1>7 DEF Index, Inv, TypeOK, Positions
    <2> QED BY <1>7, <2>1
        DEF Index, Inv, Positions, ProgressInv, Active, SuccessMeansReleased
  <1>8. CASE UNCHANGED vars
    BY <1>8 DEF vars, Inv, TypeOK, Positions, ProgressInv, Active, SuccessMeansReleased
  <1> QED BY <1>1, <1>2, <1>3, <1>4, <1>5, <1>6, <1>7, <1>8 DEF Next, RunStep

\* A crate whose predecessors are all in the index has its dependency there.
LEMMA OrderFollows == Inv => DependenciesFirst
  <1> SUFFICES ASSUME Inv, NEW r \in Runs, pc[r] = "publish", crate[r] # 1
               PROVE  crate[r] - 1 \in visible
    BY DEF DependenciesFirst, Resolves
  <1>1. crate[r] \in 1..Len(Crates)
    BY DEF Inv, TypeOK, Positions
  <1>2. crate[r] - 1 \in Positions /\ crate[r] - 1 < crate[r]
    BY <1>1, PublishAssumption DEF Positions
  <1> QED BY <1>2 DEF Inv, ProgressInv, Active

-----------------------------------------------------------------------------
\* The inductive invariant of the release.
THEOREM ReleaseInvariant == Spec => []Inv
  <1> QED BY InvInit, InvStep, PTL DEF Spec

\* Attempts, positions and faults stay within their bounds, and nothing is
\* resolvable that was not uploaded.
THEOREM PublishTypeCorrect == Spec => []TypeOK
  <1>1. Inv => TypeOK
    BY DEF Inv
  <1> QED BY <1>1, ReleaseInvariant, PTL

\* However runs overlap, are killed or misjudge the index, a run that reports
\* success has left every crate resolvable.
THEOREM SuccessReleases == Spec => []SuccessMeansReleased
  <1>1. Inv => SuccessMeansReleased
    BY DEF Inv
  <1> QED BY <1>1, ReleaseInvariant, PTL

\* cargo publish is asked for a crate only when the one before it is resolvable.
THEOREM PublishesInOrder == Spec => []DependenciesFirst
  <1> QED BY OrderFollows, ReleaseInvariant, PTL

-----------------------------------------------------------------------------
(* Running down. *)

\* The steps a crate takes a run at most.
CrateSteps == MaxAttempts + 2

\* What a run has left: the crates after this one, and the checks of this one.
Remaining(r) ==
  IF ~Active(r) THEN 0
    ELSE (Len(Crates) - crate[r]) * CrateSteps
           + CASE pc[r] = "check" -> CrateSteps
               [] pc[r] = "publish" -> CrateSteps - 1
               [] pc[r] = "wait" -> MaxAttempts + 1 - attempt[r]

\* What is left of a run is a number, and none is left of a run that ended.
LEMMA RemainingType ==
  ASSUME TypeOK, NEW r \in Runs
  PROVE  /\ Remaining(r) \in 0..Len(Crates) * CrateSteps
         /\ Active(r) => Remaining(r) > 0
<1> DEFINE here == CASE pc[r] = "check" -> CrateSteps
                     [] pc[r] = "publish" -> CrateSteps - 1
                     [] pc[r] = "wait" -> MaxAttempts + 1 - attempt[r]
           after == Len(Crates) - crate[r]
<1>1. /\ Len(Crates) \in Nat /\ Len(Crates) > 0 /\ CrateSteps \in Nat /\ CrateSteps > 0
      /\ after \in Nat /\ after <= Len(Crates) - 1
  BY PublishAssumption DEF TypeOK, Positions, CrateSteps
<1>2. Active(r) => here \in 1..CrateSteps
  BY PublishAssumption DEF TypeOK, Active, CrateSteps
<1>3. Remaining(r) = IF ~Active(r) THEN 0 ELSE after * CrateSteps + here
  BY DEF Remaining
<1>4. /\ after * CrateSteps \in Nat /\ Len(Crates) * CrateSteps \in Nat
      /\ after * CrateSteps + CrateSteps <= Len(Crates) * CrateSteps
  <2> HIDE DEF after
  <2>1. Len(Crates) * CrateSteps
          = after * CrateSteps + CrateSteps + (Len(Crates) - 1 - after) * CrateSteps
    BY <1>1
  <2>2. (Len(Crates) - 1 - after) * CrateSteps \in Nat /\ after * CrateSteps \in Nat
    BY <1>1
  <2> QED
    BY <1>1, <2>1, <2>2
<1> HIDE DEF here, after
<1> QED
  BY <1>1, <1>2, <1>3, <1>4

\* Going on to the next crate takes from what a run has left.
LEMMA ProceedRunsDown ==
  ASSUME TypeOK, NEW r \in Runs, Active(r), Proceed(r)
  PROVE  Remaining(r)' < Remaining(r)
<1>1. CASE crate[r] = Len(Crates)
  <2>1. ~Active(r)'
    BY <1>1 DEF TypeOK, Proceed, End, Active
  <2> QED
    BY <2>1, RemainingType DEF Remaining
<1>2. CASE crate[r] # Len(Crates)
  <2> DEFINE after == Len(Crates) - crate[r]
             here == CASE pc[r] = "check" -> CrateSteps
                       [] pc[r] = "publish" -> CrateSteps - 1
                       [] pc[r] = "wait" -> MaxAttempts + 1 - attempt[r]
  <2>1. after \in Nat /\ Len(Crates) - (crate[r] + 1) = after - 1 /\ CrateSteps \in Nat
    BY PublishAssumption DEF TypeOK, Positions, CrateSteps
  <2>2. here \in Nat /\ here > 0
    BY PublishAssumption DEF TypeOK, Active, CrateSteps
  <2>3. pc'[r] = "check" /\ crate'[r] = crate[r] + 1
    BY <1>2 DEF TypeOK, Proceed
  <2>4. Remaining(r)' = (after - 1) * CrateSteps + CrateSteps
    BY <2>1, <2>3 DEF Remaining, Active
  <2>5. Remaining(r) = after * CrateSteps + here
    BY DEF Remaining
  <2> HIDE DEF after, here
  <2>6. (after - 1) * CrateSteps + CrateSteps = after * CrateSteps /\ after * CrateSteps \in Nat
    BY <2>1
  <2> QED
    BY <2>2, <2>4, <2>5, <2>6
<1> QED
  BY <1>1, <1>2

\* So does a step that stays with its crate.
LEMMA StageRunsDown ==
  ASSUME TypeOK, NEW r \in Runs, Active(r), crate' = crate,
         \/ pc[r] = "check" /\ pc'[r] = "publish"
         \/ pc[r] = "publish" /\ pc'[r] = "wait" /\ attempt'[r] = 1
         \/ pc[r] = "wait" /\ pc'[r] = "wait" /\ attempt'[r] = attempt[r] + 1
         \/ pc'[r] = "ended"
  PROVE  Remaining(r)' < Remaining(r)
<1>1. CASE pc'[r] = "ended"
  <2>1. ~Active(r)'
    BY <1>1 DEF Active
  <2> QED
    BY <2>1, RemainingType DEF Remaining
<1>2. CASE pc'[r] # "ended"
  <2> DEFINE before == (Len(Crates) - crate[r]) * CrateSteps
  <2>1. before \in Int /\ MaxAttempts \in Nat /\ CrateSteps = MaxAttempts + 2 /\ attempt[r] \in Nat
    <3>1. Len(Crates) - crate[r] \in Int /\ CrateSteps \in Int
      BY PublishAssumption DEF TypeOK, Positions, CrateSteps
    <3> QED
      BY <3>1, PublishAssumption DEF TypeOK, CrateSteps
  <2>2. /\ pc[r] = "check" => Remaining(r) = before + CrateSteps
        /\ pc[r] = "publish" => Remaining(r) = before + (CrateSteps - 1)
        /\ pc[r] = "wait" => Remaining(r) = before + (MaxAttempts + 1 - attempt[r])
    BY DEF Remaining, Active
  <2>3. /\ pc'[r] = "publish" => Remaining(r)' = before + (CrateSteps - 1)
        /\ pc'[r] = "wait" => Remaining(r)' = before + (MaxAttempts + 1 - attempt'[r])
    BY DEF Remaining, Active
  <2> HIDE DEF before
  <2> QED
    BY <1>2, <2>1, <2>2, <2>3
<1> QED
  BY <1>1, <1>2

\* A check that misses is counted or the last one.
LEMMA MissedRunsDown ==
  ASSUME TypeOK, NEW r \in Runs, pc[r] = "wait", Missed(r)
  PROVE  Remaining(r)' < Remaining(r)
<1>1. crate' = crate /\ (pc'[r] = "ended" \/ (pc'[r] = "wait" /\ attempt'[r] = attempt[r] + 1))
  BY DEF TypeOK, Missed, End
<1> QED
  BY <1>1, StageRunsDown DEF Active

\* Every step of a run, and every fault, takes from what it has left.
LEMMA StepRunsDown ==
  ASSUME TypeOK, NEW r \in Runs, RunStep(r) \/ CheckFault(r) \/ RunFault(r)
  PROVE  Remaining(r)' < Remaining(r)
<1>1. CASE Check(r)
  <2>1. CASE crate[r] \in visible
    BY <1>1, <2>1, ProceedRunsDown DEF Check, Active
  <2>2. CASE crate[r] \notin visible
    <3>1. pc[r] = "check" /\ pc'[r] = "publish" /\ crate' = crate
      BY <1>1, <2>2 DEF TypeOK, Check
    <3> QED
      BY <3>1, StageRunsDown DEF Active
  <2> QED
    BY <2>1, <2>2
<1>2. CASE PublishCrate(r)
  <2>1. pc[r] = "publish" /\ crate' = crate
        /\ (pc'[r] = "ended" \/ (pc'[r] = "wait" /\ attempt'[r] = 1))
    BY <1>2 DEF TypeOK, PublishCrate, End
  <2> QED
    BY <2>1, StageRunsDown DEF Active
<1>3. CASE WaitForCrate(r)
  BY <1>3, ProceedRunsDown, MissedRunsDown DEF WaitForCrate, Active
<1>4. CASE CheckFault(r)
  <2>1. CASE pc[r] = "wait" /\ Missed(r)
    BY <2>1, MissedRunsDown
  <2>2. CASE ~(pc[r] = "wait" /\ Missed(r))
    <3>1. pc[r] = "check" /\ pc'[r] = "publish" /\ crate' = crate
      BY <1>4, <2>2 DEF TypeOK, CheckFault
    <3> QED
      BY <3>1, StageRunsDown DEF Active
  <2> QED
    BY <2>1, <2>2
<1>5. CASE RunFault(r)
  <2>1. Active(r) /\ pc'[r] = "ended" /\ crate' = crate
    BY <1>5 DEF TypeOK, RunFault, End, Active
  <2> QED
    BY <2>1, StageRunsDown
<1> QED
  BY <1>1, <1>2, <1>3, <1>4, <1>5 DEF RunStep

\* The steps of a run are its own.
LEMMA OthersLeaveIt ==
  ASSUME TypeOK, NEW r \in Runs, Active(r),
         \/ \E s \in Runs : Begin(s)
         \/ \E s \in Runs \ {r} : RunStep(s) \/ CheckFault(s) \/ RunFault(s)
         \/ \E n \in Positions : Index(n)
         \/ UNCHANGED vars
  PROVE  Remaining(r)' = Remaining(r)
<1>1. pc'[r] = pc[r] /\ crate'[r] = crate[r] /\ attempt'[r] = attempt[r]
  <2>1. ASSUME NEW s \in Runs, Begin(s)
        PROVE  pc'[r] = pc[r] /\ crate'[r] = crate[r] /\ attempt'[r] = attempt[r]
    BY <2>1 DEF TypeOK, Begin, Active
  <2>2. ASSUME NEW s \in Runs \ {r}, RunStep(s) \/ CheckFault(s) \/ RunFault(s)
        PROVE  pc'[r] = pc[r] /\ crate'[r] = crate[r] /\ attempt'[r] = attempt[r]
    BY <2>2 DEF TypeOK, RunStep, Check, PublishCrate, WaitForCrate, CheckFault, RunFault,
       Proceed, Missed, End
  <2> QED
    BY <2>1, <2>2 DEF Index, vars
<1> QED
  BY <1>1 DEF Remaining, Active

\* A run at work ends after at most MaxAttempts + 2 steps for each crate, faults
\* included, whether or not the index ever catches up and whatever other runs do:
\* each step takes from what it has left and nothing but a rerun gives back.
THEOREM RunsRunDown ==
  Spec => /\ [](\A r \in Runs : Remaining(r) \in 0..Len(Crates) * CrateSteps)
          /\ [][\A r \in Runs : Active(r) =>
                  /\ Remaining(r)' <= Remaining(r)
                  /\ RunStep(r) \/ CheckFault(r) \/ RunFault(r) => Remaining(r)' < Remaining(r)]_vars
<1> DEFINE RunsDown == \A r \in Runs : Active(r) =>
             /\ Remaining(r)' <= Remaining(r)
             /\ RunStep(r) \/ CheckFault(r) \/ RunFault(r) => Remaining(r)' < Remaining(r)
           Bounded == \A r \in Runs : Remaining(r) \in 0..Len(Crates) * CrateSteps
<1>1. TypeOK => Bounded
  BY RemainingType
<1>2. TypeOK /\ TypeOK' /\ [Next]_vars => RunsDown
  <2> SUFFICES ASSUME TypeOK, TypeOK', [Next]_vars, NEW r \in Runs, Active(r)
               PROVE  /\ Remaining(r)' <= Remaining(r)
                      /\ RunStep(r) \/ CheckFault(r) \/ RunFault(r) => Remaining(r)' < Remaining(r)
    OBVIOUS
  <2>1. Remaining(r) \in Int
    BY RemainingType, PublishAssumption DEF CrateSteps
  <2>2. Remaining(r)' \in Int
    <3>1. crate'[r] \in Positions /\ attempt'[r] \in Int
      BY DEF TypeOK
    <3>2. (Len(Crates) - crate'[r]) * CrateSteps \in Int /\ CrateSteps \in Int
      <4>1. Len(Crates) - crate'[r] \in Int /\ CrateSteps \in Int
        BY <3>1, PublishAssumption DEF Positions, CrateSteps
      <4> QED
        BY <4>1
    <3> QED
      BY <3>1, <3>2, PublishAssumption DEF Remaining, Active
  <2>3. RunStep(r) \/ CheckFault(r) \/ RunFault(r) => Remaining(r)' < Remaining(r)
    BY StepRunsDown
  <2>4. RunStep(r) \/ CheckFault(r) \/ RunFault(r) \/ Remaining(r)' = Remaining(r)
    BY OthersLeaveIt DEF Next
  <2> QED
    BY <2>1, <2>2, <2>3, <2>4
<1>3. TypeOK /\ TypeOK' /\ [Next]_vars => [RunsDown]_vars
  BY <1>2
<1> HIDE DEF RunsDown, Bounded
<1>4. Spec => []Bounded /\ [][RunsDown]_vars
  BY <1>1, <1>3, PublishTypeCorrect, PTL DEF Spec
<1> QED
  BY <1>4 DEF RunsDown, Bounded
=============================================================================
