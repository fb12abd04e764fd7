\* Two threads, two tasks, token limit four, lifetime one, clock up to two, sums
\* of spends up to 61 micros with nine micros to the unit.
CONSTANTS
  th1 = th1
  th2 = th2
  own = own
  shared = shared
  ta = ta
  dflt = dflt
  None = None
  Threads <- MCThreads
  Clients <- MCClients
  TaskIds <- MCTaskIds
  DefaultTaskId = dflt
  ClientTask <- MCClientTask
  Usages <- MCUsages
  TokenMax = 4
  MODEL_USAGE_TTL = 1
  MaxNow = 2
  Base = 3
  Places = 2
  U128_MAX = 61
  Offers <- MCOffers
  NoSpend = NoSpend
SPECIFICATION MCSpec
INVARIANTS
  TypeOK
  TotalCoversParts
  BudgetCountsPriorUsage
  SpendIsExact
  RefusedOnlyWhenFull
PROPERTIES
  UsageIsNeverLost
  ReportsAreAlive
SYMMETRY MCSymmetry
