SPECIFICATION SessionsSpec
CONSTANTS
  Desktop = Desktop
  Manager = Manager
  f1 = f1
  f2 = f2
  Frames = {f1, f2}
  MaxGenerations = 2
  Agents = {a1}
  Turns = {t1}
  Interactions = {q1}
  MaxStream = 2
  OtherTasks = FALSE
  Resumes = TRUE
  OwnTurn = OwnTurn
  NoTurn = NoTurn
  Subagents = {g1, g2}
  Threads = {k1, k2}
  RefreshDelays = 2
  OpensLate = FALSE
  DeletesRunning = FALSE
  ReadsFail = FALSE
  MaxParentTurns = 1
  MaxItems = 2
  MaxOutputs = 2
  Pids = {1, 2, 3}
  Root = 1
  MaxStarts = 4
  Foreigners = 1
SYMMETRY SessionsSymmetry
INVARIANTS
  OneProcess
  AnswerEndsAdmission
  ParentIdleIsQuiet
  LinuxSparesForeigners
  ObservedTreeEnds
PROPERTIES
  SucceedsWhenSettled
CHECK_DEADLOCK FALSE
