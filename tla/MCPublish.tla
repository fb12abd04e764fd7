------------------------------ MODULE MCPublish ------------------------------
(* Two overlapping runs; two faults allow a kill and a spurious failure.     *)
EXTENDS Publish

CONSTANTS r1, r2

MCRuns == {r1, r2}
MCOneRun == {r1}
MCCrates == <<"sigil-agent-hooks-core", "sigil-agent-hooks-ironclaw">>
=============================================================================
