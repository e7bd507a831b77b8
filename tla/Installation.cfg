SPECIFICATION FairSpec
CONSTANTS
  claude = claude
  codex = codex
  openspec = openspec
  plain = plain
  team = team
  template = template
  workflow = workflow
  None = None
  Torn = Torn
  old = old
  new = new
  Agents = {claude, codex}
  Frameworks = {openspec}
  Plain = plain
  Pids = {1, 2, 3, 4}
  Binaries = {old, new}
  Saves = 2
  ChecksOf <- MCChecksOf
  Template = template
  Workflow = workflow
  Agendas <- MCAgendas
CHECK_DEADLOCK FALSE
INVARIANTS OneWriterUnlessRaced RegisteredIsHooked AgentSlotAnchored
PROPERTIES InstallKeepsUserSettings SyncConverges CommandsEnd
