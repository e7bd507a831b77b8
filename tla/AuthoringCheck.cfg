SPECIFICATION Spec
CONSTANTS
  None = None
  Decisions = {1, 2, 3}
  Budget = 8
  Margin = 2
  MinSlice = 2
  Latency = 1
  Horizon = 10
CHECK_DEADLOCK FALSE
INVARIANTS NoOrphans
PROPERTIES HookReturns
