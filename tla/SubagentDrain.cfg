SPECIFICATION SubagentSpec
CONSTANTS
  s1 = s1
  t1 = t1
  Subagents = {s1}
  Threads = {t1}
  RefreshDelays = 2
  OpensLate = FALSE
  DeletesRunning = FALSE
  ReadsFail = FALSE
  MaxParentTurns = 1
  MaxItems = 2
  MaxOutputs = 2
PROPERTIES DisconnectedHostEnds
CHECK_DEADLOCK FALSE
