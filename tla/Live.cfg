SPECIFICATION LiveSpec
CONSTANTS
  Sessions = {s1}
  s1 = s1
  NoSession = NoSession
  Requests = {d1}
  Contexts = {}
  d1 = d1
  MaxWire = 1
  Desktop = Desktop
  Manager = Manager
  f1 = f1
  Frames = {f1}
  MaxGenerations = 2
  a1 = a1
  t1 = t1
  Agents = {a1}
  Turns = {t1}
  Interactions = {}
  MaxStream = 2
  OtherTasks = TRUE
  Resumes = FALSE
  OwnTurn = OwnTurn
  NoTurn = NoTurn
PROPERTIES
  OwnerLossEnds
  RequestsSettle
  FramesSettle
  TurnsEnd
CHECK_DEADLOCK FALSE
