SPECIFICATION Spec
CONSTANTS
  p1 = p1
  p2 = p2
  p3 = p3
  evidence = evidence
  approval = approval
  rejection = rejection
  Procs = {p1, p2, p3}
  Rebuilders = {}
  ShortWrites = FALSE
  Events <- MCEvents
  Batches <- MCBatches
  Legal <- MCLegal
  Partial = Partial
  None = None
INVARIANTS
  ReadYourWrites
PROPERTIES
  ImplementsEventLog
  CacheOnlyAdvances
CHECK_DEADLOCK FALSE
