\* One run that is repeated; no fault, only an index that lags.
CONSTANTS
  r1 = r1
  r2 = r2
  Runs <- MCOneRun
  Crates <- MCCrates
  MaxAttempts = 2
  MaxFaults = 0
SPECIFICATION Spec
CHECK_DEADLOCK FALSE
INVARIANT
  RerunNeverFailsOnPublished
