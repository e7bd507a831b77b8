SPECIFICATION FairSpec
CONSTANTS
  None = None
  Checks = 3
  MaxWorkers = 2
CHECK_DEADLOCK FALSE
INVARIANTS VerdictIsRight ReportIsSequential
PROPERTIES TreeIsSettled CommandEnds
