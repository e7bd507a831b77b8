SPECIFICATION Spec
CONSTANTS
  None = None
  Plans = {p1}
  EvidenceIds = {e1, e2}
  PlanIds = {e1, e2}
  First = e1
  Revision = e2
  CodeIds = {}
  Trees = {t1}
  Paths = {f1}
  Procs = {a, b}
  LegacyStreams = TRUE
  ChangedPaths <- MCChangedPaths
  Conclusions <- MCChain
SYMMETRY Symmetry
INVARIANTS ApprovalIsEvidenced FoldsAgree
PROPERTY ApprovalsAreLinked
