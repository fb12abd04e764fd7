\* Two runs of the publisher, two checks per wait, up to two faults.
CONSTANTS
  r1 = r1
  r2 = r2
  Runs <- MCRuns
  Crates <- MCCrates
  MaxAttempts = 2
  MaxFaults = 2
SPECIFICATION RunFairSpec
CHECK_DEADLOCK FALSE
INVARIANTS
  SuccessMeansReleased
  DependenciesFirst
PROPERTIES
  ReleaseCompletes
  RunsEnd
