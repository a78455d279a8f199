SPECIFICATION DesktopSpec
CONSTANTS
  Sessions = {s1, s2, s3}
  s1 = s1
  s2 = s2
  s3 = s3
  NoSession = NoSession
  Requests = {r1, r2}
  Contexts = {c1}
  r1 = r1
  r2 = r2
  c1 = c1
  MaxWire = 1
SYMMETRY DesktopSymmetry
INVARIANTS
  OneHost
  AnsweredOnce
PROPERTIES
  WorkIsCutOnlyByForce
CHECK_DEADLOCK FALSE
