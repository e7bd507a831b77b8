SPECIFICATION AttestationSpec
CONSTANTS
  None = None
  Plans = {p1}
  EvidenceIds = {e1, e2}
  First = e1
  CodeIds = {e2}
  Trees = {t1, t2}
  Paths = {f1}
  Procs = {a}
  LegacyStreams = FALSE
  ChangedPaths <- MCChangedPaths
  Conclusions <- MCConclusions
SYMMETRY Symmetry
CONSTRAINT Explored
INVARIANTS GateTakesReadyCode
PROPERTIES MergesAreVouched
