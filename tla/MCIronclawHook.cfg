\* The hook built from every client a caller may configure, and two tool calls
\* behind it under every mode, fail mode and pin; no exchange need ever end.
CONSTANTS
  a1 = a1
  a2 = a2
  p1 = p1
  p2 = p2
  j1 = j1
  h1 = h1
  None = None
  Policies = {p1, p2}
  Jwks = {j1}
  Lowercase <- MCLowercase
  Holds = {h1}
  Timeout = 2
  Calls <- MCTwoCalls
  Events <- MCEvents
  Offered <- MCOffered
  ServerCodes = {"budget_exceeded"}
SPECIFICATION FairSpec
CHECK_DEADLOCK FALSE
CONSTRAINT MCCalls
INVARIANTS
  ToolsRunOnAuthority
  
  RebindKeepsConfiguration
PROPERTIES
  ImplementsCallersContract
  CallsEnd
