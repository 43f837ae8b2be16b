SPECIFICATION FairSpec
CONSTANTS
  LongestLatency = 3
  MaxInsts = 1
  MaxTCWrites = 1
  DrainHalted = FALSE
INVARIANTS CountExact SleepSafe DrainedAsleep
PROPERTIES DrainEnds InstLeaves
