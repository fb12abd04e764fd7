------------------------------- MODULE Publish -------------------------------
(***************************************************************************)
(* scripts/publish-rust-crates.sh releasing one version of the two crates  *)
(* of the workspace, in dependency order, against crates.io.               *)
(*                                                                         *)
(* Every run of the workflow is a process of its own: runs may overlap     *)
(* (the workflow declares no concurrency group), be killed anywhere and be *)
(* started again.  The registry is external: an upload is accepted once    *)
(* per version, becomes visible in the index some time later, and a cargo  *)
(* command may fail for reasons of its own (set -e then ends the run).     *)
(***************************************************************************)
EXTENDS Naturals, Sequences

CONSTANTS
  Runs,         \* workflow runs for this version
  Crates,       \* the crates, in the order the script publishes them
  MaxAttempts,  \* SIGIL_CRATES_IO_MAX_ATTEMPTS
  MaxFaults     \* bound on failures of cargo itself and on killed runs

ASSUME PublishAssumption ==
  /\ Len(Crates) \in Nat \ {0}
  /\ MaxAttempts \in Nat \ {0}
  /\ MaxFaults \in Nat

VARIABLES
  uploaded,  \* external: the crates (by position) the registry has accepted
  visible,   \* external: the crates the index resolves
  pc,        \* where each run stands
  crate,     \* position of the crate a run is working on
  attempt,   \* checks made by wait_for_crate
  exit,      \* why a run ended: "none", "ok", "timeout", "duplicate", "fault"
  faults     \* failures spent

vars == <<uploaded, visible, pc, crate, attempt, exit, faults>>

Positions == 1..Len(Crates)

\* A crate depends on the one released before it.
Resolves(n) == n = 1 \/ n - 1 \in visible

TypeOK ==
  /\ uploaded \subseteq Positions
  /\ visible \subseteq uploaded
  /\ pc \in [Runs -> {"idle", "check", "publish", "wait", "ended"}]
  /\ crate \in [Runs -> Positions]
  /\ attempt \in [Runs -> 0..MaxAttempts]
  /\ exit \in [Runs -> {"none", "ok", "timeout", "duplicate", "fault"}]
  /\ faults \in 0..MaxFaults

Init ==
  /\ uploaded = {}
  /\ visible = {}
  /\ pc = [r \in Runs |-> "idle"]
  /\ crate = [r \in Runs |-> 1]
  /\ attempt = [r \in Runs |-> 0]
  /\ exit = [r \in Runs |-> "none"]
  /\ faults = 0

\* The workflow is triggered, or a run that ended without success is rerun.
Begin(r) ==
  /\ pc[r] \in {"idle", "ended"}
  /\ exit[r] # "ok"
  /\ pc' = [pc EXCEPT ![r] = "check"]
  /\ crate' = [crate EXCEPT ![r] = 1]
  /\ attempt' = [attempt EXCEPT ![r] = 0]
  /\ exit' = [exit EXCEPT ![r] = "none"]
  /\ UNCHANGED <<uploaded, visible, faults>>

End(r, why) ==
  /\ pc' = [pc EXCEPT ![r] = "ended"]
  /\ exit' = [exit EXCEPT ![r] = why]
  /\ attempt' = [attempt EXCEPT ![r] = 0]
  /\ UNCHANGED crate

\* publish_if_missing returns: on to the next crate, or the script is done.
Proceed(r) ==
  IF crate[r] = Len(Crates)
    THEN End(r, "ok")
    ELSE /\ pc' = [pc EXCEPT ![r] = "check"]
         /\ crate' = [crate EXCEPT ![r] = crate[r] + 1]
         /\ attempt' = [attempt EXCEPT ![r] = 0]
         /\ UNCHANGED exit

\* Seeded fault: a crate that is already available is published again.
Check_never_skipping(r) ==
  /\ pc[r] = "check"
  /\ pc' = [pc EXCEPT ![r] = "publish"]
  /\ UNCHANGED <<uploaded, visible, crate, attempt, exit, faults>>

\* crate_is_available decides between skipping the crate and publishing it.
Check(r) ==
  /\ pc[r] = "check"
  /\ IF crate[r] \in visible
       THEN Proceed(r)
       ELSE /\ pc' = [pc EXCEPT ![r] = "publish"]
            /\ UNCHANGED <<crate, attempt, exit>>
  /\ UNCHANGED <<uploaded, visible, faults>>

\* Seeded fault: a successful upload is taken for an available crate.
PublishCrate_no_wait(r) ==
  /\ pc[r] = "publish"
  /\ \/ /\ crate[r] \in uploaded
        /\ End(r, "duplicate")
        /\ UNCHANGED uploaded
     \/ /\ crate[r] \notin uploaded
        /\ uploaded' = uploaded \cup {crate[r]}
        /\ Proceed(r)
  /\ UNCHANGED <<visible, faults>>

\* cargo publish: the registry refuses a version it has and accepts any other.
\* That cargo also refuses a crate whose dependency it cannot resolve never
\* comes up: see DependenciesFirst.
PublishCrate(r) ==
  /\ pc[r] = "publish"
  /\ \/ /\ crate[r] \in uploaded
        /\ End(r, "duplicate")
        /\ UNCHANGED uploaded
     \/ /\ crate[r] \notin uploaded
        /\ uploaded' = uploaded \cup {crate[r]}
        /\ pc' = [pc EXCEPT ![r] = "wait"]
        /\ attempt' = [attempt EXCEPT ![r] = 1]
        /\ UNCHANGED <<crate, exit>>
  /\ UNCHANGED <<visible, faults>>

\* A check that misses the crate, in the wait for it.
Missed(r) ==
  \/ attempt[r] = MaxAttempts /\ End(r, "timeout")
  \/ /\ attempt[r] < MaxAttempts
     /\ attempt' = [attempt EXCEPT ![r] = attempt[r] + 1]
     /\ UNCHANGED <<pc, crate, exit>>

\* Seeded fault: running out of attempts is not an error.
WaitForCrate_giving_in(r) ==
  /\ pc[r] = "wait"
  /\ IF crate[r] \in visible \/ attempt[r] = MaxAttempts
       THEN Proceed(r)
       ELSE /\ attempt' = [attempt EXCEPT ![r] = attempt[r] + 1]
            /\ UNCHANGED <<pc, crate, exit>>
  /\ UNCHANGED <<uploaded, visible, faults>>

\* Seeded fault: the checks are not counted.
WaitForCrate_uncounted(r) ==
  /\ pc[r] = "wait"
  /\ crate[r] \in visible
  /\ Proceed(r)
  /\ UNCHANGED <<uploaded, visible, faults>>

\* One round of wait_for_crate; the last check ends the run with an error.
WaitForCrate(r) ==
  /\ pc[r] = "wait"
  /\ \/ crate[r] \in visible /\ Proceed(r)
     \/ crate[r] \notin visible /\ Missed(r)
  /\ UNCHANGED <<uploaded, visible, faults>>

\* cargo info fails although the crate is there: it counts as unavailable.
CheckFault(r) ==
  /\ faults < MaxFaults
  /\ faults' = faults + 1
  /\ \/ /\ pc[r] = "check"
        /\ pc' = [pc EXCEPT ![r] = "publish"]
        /\ UNCHANGED <<crate, attempt, exit>>
     \/ pc[r] = "wait" /\ Missed(r)
  /\ UNCHANGED <<uploaded, visible>>

\* The run is killed, or cargo publish fails before or after the upload.
RunFault(r) ==
  /\ faults < MaxFaults
  /\ faults' = faults + 1
  /\ pc[r] \in {"check", "publish", "wait"}
  /\ End(r, "fault")
  /\ \/ UNCHANGED uploaded
     \/ /\ pc[r] = "publish"
        /\ uploaded' = uploaded \cup {crate[r]}
  /\ UNCHANGED visible

\* External: the index catches up with an upload.
Index(n) ==
  /\ n \in uploaded \ visible
  /\ visible' = visible \cup {n}
  /\ UNCHANGED <<uploaded, pc, crate, attempt, exit, faults>>

RunStep(r) == Check(r) \/ PublishCrate(r) \/ WaitForCrate(r)

Next ==
  \/ \E r \in Runs : Begin(r) \/ RunStep(r) \/ CheckFault(r) \/ RunFault(r)
  \/ \E n \in Positions : Index(n)

Spec == Init /\ [][Next]_vars

\* The runner executes the script; the registry promises nothing.
RunFairSpec == Spec /\ \A r \in Runs : WF_vars(RunStep(r))

\* What a release needs besides: an unsuccessful run is rerun, and the index
\* catches up with every upload.
Resumed ==
  /\ \A r \in Runs : WF_vars(Begin(r))
  /\ \A n \in Positions : WF_vars(Index(n))

-----------------------------------------------------------------------------
(* Properties. *)

\* A run that reports success has released every crate: both are resolvable,
\* whatever other runs did or failed to do meanwhile.
SuccessMeansReleased ==
  \A r \in Runs : exit[r] = "ok" => Positions \subseteq visible

\* The script never asks cargo to publish a crate before the one it depends on
\* can be resolved, in any interleaving of runs, kills and spurious failures.
DependenciesFirst ==
  \A r \in Runs : pc[r] = "publish" => Resolves(crate[r])

\* Partial releases are completed: as long as unsuccessful runs are repeated and
\* faults do not go on for ever, both crates become resolvable.
ReleaseCompletes == Resumed => <>(Positions \subseteq visible)

\* A run ends by itself even if the index never catches up, because the script
\* counts its checks.
RunsEnd ==
  \A r \in Runs : pc[r] \in {"check", "publish", "wait"} ~> pc[r] = "ended"

\* architecture.md: "A rerun after a partial release therefore resumes instead
\* of failing on the already-published core version."
RerunNeverFailsOnPublished == \A r \in Runs : exit[r] # "duplicate"

=============================================================================
