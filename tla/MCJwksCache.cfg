\* Two concurrent resolutions, one-unit request timeout, two-unit cache lifetime.
CONSTANTS
  t1 = t1
  t2 = t2
  ka1 = ka1
  ka2 = ka2
  kb = kb
  kx = kx
  a = a
  b = b
  Tasks <- MCTasks
  Keys <- MCKeys
  Kids <- MCKids
  KidOf <- MCKidOf
  ValidKeys <- MCValidKeys
  None = None
  PinChoices <- MCPinChoices
  Documents <- MCDocuments
  JWKS_CACHE_TTL = 2
  RequestTimeout = 1
  JWKS_MAX_KEYS = 2
SPECIFICATION FairSpec
INVARIANTS
  ContentAge
  NoFalseUnavailable
PROPERTIES
  AcceptedKeyIsRecent
  ImplementsKeyResolution
  ResolutionEnds
