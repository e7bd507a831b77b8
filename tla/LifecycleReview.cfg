SPECIFICATION Spec
CONSTANTS
  None = None
  Plans = {p1}
  EvidenceIds = {e1, e2}
  PlanIds = {e1}
  First = None
  Revision = None
  CodeIds = {e2}
  Trees = {t1, t2}
  Paths = {f1}
  Procs = {a, b}
  LegacyStreams = FALSE
  ChangedPaths <- MCChangedPaths
  Conclusions <- MCConclusions
SYMMETRY Symmetry
CONSTRAINT Explored
INVARIANTS AuthorityBacksWork ReadyCodeIsReviewed
PROPERTIES DeliveryIsUnambiguous EpochStartsClean CompletionIsVerified ReviewsFrozenCode
