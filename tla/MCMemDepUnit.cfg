SPECIFICATION FairSpec
CONSTANTS
  Kinds = {"load", "store", "release", "atomic", "rfence"}
  MaxInFlight = 3
  MaxSeq = 4
INVARIANTS DepsExact NoneForgotten BarriersHold
PROPERTIES EveryoneLeaves
CHECK_DEADLOCK FALSE
