SPECIFICATION ThreadsSpec
CONSTANTS
  Root = Root
  Derived = Derived
  MaxSessions = 3
  MaxTurns = 2
  MaxHosts = 1
  Calls = {r1, r2}
  r1 = r1
  r2 = r2
  RequestKinds = {"use", "rollback", "delete", "borrow"}
  MaxObjects = 3
  MaxNatives = 2
  DeletesShared = FALSE
  NoObject = NoObject
  ToolCalls = {k1}
  Questions = {u1}
  MaxEntries = 2
  MaxSegments = 2
  MaxEvents = 1
  EndsSilent = FALSE
  NoMessage = NoMessage
  NoItem = NoItem
  OwnIds = {1, 2}
  OfficialIds = {2, 3, 4}
  Limit = 2
  MaxTime = 3
  MaxChanges = 1
  ChangesMeanwhile = FALSE
  None = None
  k1 = k1
  u1 = u1
SYMMETRY ThreadsSymmetry
INVARIANTS
  EditLeavesNothing
  OneWriter
  ReleaseSparesRequests
  ProjectionAccepted
  TranscriptAgrees
  ListsEachOnce
PROPERTIES
  EditStands
CHECK_DEADLOCK FALSE
