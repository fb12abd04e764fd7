\* One Enforce check: what a response without a verifiable record leads to.
CONSTANTS
  c1 = c1
  c2 = c2
  m1 = m1
  m2 = m2
  p1 = p1
  p2 = p2
  k1 = k1
  k2 = k2
  h1 = h1
  None = None
  Malhash = Malhash
  Origin = Origin
  Issuer = Issuer
  TokenValidity = 2
  CLOCK_SKEW_SECONDS = 1
  ResolveTimeout = 1
  Checks <- MCOneCheck
  Commits = {m1}
  Policies = {p1}
  Kids = {k1}
  Contexts <- MCOneIntent
  Configs <- MCEnforce
  ServerDecisions = {"ALLOWED", "PENDING"}
  Literals = {"ALLOWED", "DENIED", "PENDING"}
  Holds = {h1}
  TokenFaults = {"signature"}
  ClockDrifts = {0}
  MaxNow = 0
SPECIFICATION Spec
CHECK_DEADLOCK FALSE
INVARIANT
  EnforceDeniesUnverifiable
