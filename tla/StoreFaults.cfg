SPECIFICATION FairSpec
CONSTANTS
  p1 = p1
  p2 = p2
  p3 = p3
  evidence = evidence
  approval = approval
  rejection = rejection
  Procs = {p1, p2, p3}
  Rebuilders = {p3}
  ShortWrites = TRUE
  Events <- MCEvents
  Batches <- MCImports
  Legal <- MCLegal
  Partial = Partial
  None = None
CHECK_DEADLOCK FALSE
PROPERTIES CommandsEnd
