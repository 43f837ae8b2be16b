SPECIFICATION Spec
CONSTANTS
  Machines <- SafeMachines
  MaxSeq = 7
INVARIANTS TypeOK SkidsBounded StallsAgree CreditsExact SerializeAlone MemInOrder PathInOrder ProgramOrder HistoryOnPath FreedRegsQuiet ROBFits SquashFresh NoneStranded
