\* Policies issued at every second around the turns of the calendar.
CONSTANTS
  None = None
  Hours = 2
  Minutes = 2
  Seconds = 2
  MaxWindow = 24
  MaxDays = 4
  Anchors <- MCTurns
  Untils <- MCUntils
  Names = {0, 1, 2}
  Drafts <- MCDrafts
  MaxLifetime = 2
  MAX_SAFE_INTEGER = 23463190
SPECIFICATION PolicySpec
CHECK_DEADLOCK FALSE
INVARIANTS
  DateIsCounted
  WindowIsBounded
  WindowEndExists
  NoWindowRefused
  CoverageIsAPartition
