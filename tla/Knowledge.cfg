SPECIFICATION Spec
CONSTANTS
  v1 = v1
  v2 = v2
  feature = feature
  policy = policy
  ann = ann
  ben = ben
  src = src
  docs = docs
  text = text
  prop = prop
  rec = rec
  rej = rej
  ret = ret
  app = app
  excl = excl
  del = del
  chal = chal
  adj = adj
  reap = reap
  fix = fix
  cont = cont
  keep = keep
  again = again
  exe = exe
  None = None
  Versions = {v1, v2}
  Kid <- MCKid
  Previous <- MCPrevious
  Authority <- MCAuthority
  Selector <- MCSelector
  Paths = {src, docs}
  PathSets <- MCPathSets
  Codes = {text}
  Manifest <- MCManifest
  Changes = {feature, policy}
  Callers = {ann, ben}
  Ops = {prop, rec, rej, ret, app, excl, del, chal, adj, reap, fix, cont, keep, again, exe}
  Agendas <- MCAgendas
  Operation <- MCOperation
  InitialChange <- MCInitialChange
SYMMETRY Symmetry
VIEW View
CHECK_DEADLOCK FALSE
INVARIANTS LedgerReplays AnsweredIsRecorded OneVersionInForce GateHonoursKnowledge
PROPERTIES MergeHonoursKnowledge ImpactsStand
