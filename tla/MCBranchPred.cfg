SPECIFICATION Spec
CONSTANTS
  NumEntries = 3
  Misses = {"return", "other"}
  MaxInFlight = 4
  MaxSeq = 6
INVARIANTS ReturnsRight
CHECK_DEADLOCK FALSE
