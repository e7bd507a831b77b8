SPECIFICATION Spec
CONSTANTS
  d1 = d1
  d2 = d2
  f1 = f1
  f2 = f2
  good = good
  bad = bad
  bites = bites
  hollow = hollow
  bare = bare
  crit = crit
  crit2 = crit2
  note = note
  broken = broken
  ann = ann
  ben = ben
  None = None
  Ids = {d1, d2}
  Files = {f1, f2}
  Contents = {good, bad}
  Texts = {bites, hollow, bare, crit, crit2, note, broken}
  Body <- MCBody
  Procs = {ann, ben}
  Agendas <- MCAgendas
SYMMETRY Symmetry
CHECK_DEADLOCK FALSE
INVARIANTS LockedTextWasTried CleanCheckConforms
