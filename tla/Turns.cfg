SPECIFICATION WorkSpec
CONSTANTS
  Requests = {r1, r2, r3}
  Subs = {s1, s2}
  Autos = {a1}
  Contexts = {c1}
  Capacity = 1
  NoTurn = NoTurn
  NoRequest = NoRequest
  r1 = r1
  r2 = r2
  r3 = r3
  s1 = s1
  s2 = s2
  a1 = a1
  c1 = c1
  Hosts = {h1, h2}
  Natives = {n1, n2}
  Stored = {n1}
  h1 = h1
  h2 = h2
  n1 = n1
  n2 = n2
  MaxLinks = 2
  MaxRecords = 2
  MaxAdapters = 3
  MaxPending = 1
  Nobody = Nobody
  NoNative = NoNative
SYMMETRY WorkSymmetry
INVARIANTS
  TurnOwnership
  ResponseFirst
  SubmissionConserved
  IdleQueueHasReason
  OneServedWriter
PROPERTIES
  StopWins
CHECK_DEADLOCK FALSE
