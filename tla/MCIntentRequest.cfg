\* Two calls of a process with three clients; commitments derived or supplied.
SPECIFICATION Spec
CONSTANTS
  c1 = c1  c2 = c2  own = own  p1 = p1  bot = bot  job = job
  None = None
  TokenValidity = 2
  CLOCK_SKEW_SECONDS = 1
  Malhash = Malhash
  Calls <- MCTwoCalls
  Clients <- MCClients
  Intents <- MCIntents
  OwnCommits = {own}
  Names = {bot, job}
  Policies = {p1}
  MaxSafeInteger = 1
  MaxNow = 1
SYMMETRY MCSymmetry
INVARIANTS TypeOK CommitIsTheOperation AuthorityIsForTheBody OneDefaultTask
