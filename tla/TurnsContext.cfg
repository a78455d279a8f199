SPECIFICATION Spec
CONSTANTS
  Requests = {r1, r2}
  Subs = {}
  Autos = {a1}
  Contexts = {c1}
  Capacity = 1
  NoTurn = NoTurn
  NoRequest = NoRequest
  r1 = r1
  r2 = r2
  r3 = r3
  s1 = s1
  s2 = s2
  a1 = a1
  c1 = c1
SYMMETRY RequestSymmetry
INVARIANTS
  ContextWaitsForATurn
CHECK_DEADLOCK FALSE
