\* Two checks whose responses may be mixed up: intents, nonces, damaged tokens;
\* and, for one intent, time passing between the steps under two server clocks.
CONSTANTS
  c1 = c1
  c2 = c2
  m1 = m1
  m2 = m2
  p1 = p1
  p2 = p2
  k1 = k1
  k2 = k2
  h1 = h1
  None = None
  Malhash = Malhash
  Origin = Origin
  Issuer = Issuer
  TokenValidity = 2
  CLOCK_SKEW_SECONDS = 1
  ResolveTimeout = 1
  Checks <- MCTwoChecks
  Commits = {m1, m2}
  Policies = {p1}
  Kids = {k1}
  Contexts <- MCTwoIntents
  Configs <- MCConfigs
  ServerDecisions = {"ALLOWED", "DENIED"}
  Literals = {"ALLOWED", "DENIED", "OTHER"}
  Holds = {}
  TokenFaults = {"signature"}
  ClockDrifts = {0, 2}
  MaxNow = 5
SPECIFICATION Spec
CHECK_DEADLOCK FALSE
INVARIANTS
  LegacyIsExplained
PROPERTIES
  ImplementsContract
  GrantsAreFresh
CONSTRAINT MCWhenTimePasses
SYMMETRY MCSymmetry
