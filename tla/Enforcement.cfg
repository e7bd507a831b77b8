SPECIFICATION FairSpec
CONSTANTS
  h1 = h1
  h2 = h2
  a = a
  b = b
  p = p
  q = q
  src = src
  prop = prop
  tasks = tasks
  plan2 = plan2
  note = note
  None = None
  Absent = Absent
  Hosts = {h1, h2}
  Clients = {a, b}
  Procs = {p, q}
  Changes = {1, 2}
  Files = {src, prop, tasks, plan2, note}
  Product = {src}
  PlanOf <- MCPlanOf
  ScratchOf <- MCScratchOf
  IntentDocs <- MCIntentDocs
  PlanDocs <- MCPlanDocs
  Agendas <- MCAgendas
CHECK_DEADLOCK FALSE
INVARIANTS PidNamesHost AuthorCanMove
PROPERTIES EditsFollowTheGate HostsRecordOnce DocumentsAreRecorded
