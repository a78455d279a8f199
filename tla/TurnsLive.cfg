SPECIFICATION FairSpec
CONSTANTS
  Requests = {r1, r2}
  Subs = {s1}
  Autos = {a1}
  Contexts = {}
  Capacity = 1
  NoTurn = NoTurn
  NoRequest = NoRequest
  r1 = r1
  r2 = r2
  r3 = r3
  s1 = s1
  s2 = s2
  a1 = a1
  c1 = c1
PROPERTIES
  SteerSettles
CHECK_DEADLOCK FALSE
