\* Three findings and three spans over a text of three positions; every scanner
\* result, observation window and disposition with two findings.
CONSTANTS
  FindingPool <- MCFindings
  RedactionPool <- MCSpans
  HeadPool <- MCHeads
  MaxFindings = 3
  MaxRedactions = 3
  MaxList = 3
  MAX_SAFE_INTEGER = 3
  Rulesets = {"r1", "r2"}
SPECIFICATION Spec
CHECK_DEADLOCK FALSE
CONSTRAINT MCLists
INVARIANTS
  RedactionIsComplete
  SpansAreDisjoint
  ReleasesHeardTheScanner
  ExpiredWindowExcusesNothing
