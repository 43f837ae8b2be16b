SPECIFICATION Spec
CONSTANTS
  Kinds = {"load", "store", "mfence"}
  MaxInFlight = 3
  MaxSeq = 3
INVARIANTS PredStoreKnown
CHECK_DEADLOCK FALSE
