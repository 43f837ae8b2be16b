SPECIFICATION Spec
CONSTANTS
  Bytes = {1, 2}
  Programs <- BothPrograms
  LQEntries = 2
  SQEntries = 3
  TSOModes = {TRUE, FALSE}
  CommitWidth = 2
  MaxSeq = 7
INVARIANTS LoadsCorrect ReplayWatched TrainedOnPath StoresLand
