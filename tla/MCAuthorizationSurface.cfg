\* One call of either entry, every literal, surface, policy, key and kind of damage.
CONSTANTS
  c1 = c1
  c2 = c2
  m1 = m1
  m2 = m2
  p1 = p1
  p2 = p2
  k1 = k1
  k2 = k2
  h1 = h1
  None = None
  Malhash = Malhash
  Origin = Origin
  Issuer = Issuer
  TokenValidity = 2
  CLOCK_SKEW_SECONDS = 1
  ResolveTimeout = 1
  Checks <- MCOneCheck
  Commits = {m1}
  Policies = {p1, p2}
  Kids = {k1, k2}
  Contexts <- MCMixed
  Configs <- MCConfigs
  ServerDecisions = {"ALLOWED", "APPROVED", "DENIED", "PENDING"}
  Literals = {"ALLOWED", "APPROVED", "DENIED", "PENDING", "OTHER"}
  Holds = {h1}
  TokenFaults = {"malformed", "signature"}
  ClockDrifts = {0}
  MaxNow = 0
SPECIFICATION FairSpec
CHECK_DEADLOCK FALSE
INVARIANTS
  
  OnlyAllowedCarriesAuthority
PROPERTIES
  ChecksEnd
