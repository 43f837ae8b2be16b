SPECIFICATION FairSpec
CONSTANTS
  Machines <- LiveMachines
  MaxSeq = 3
PROPERTY Progress
