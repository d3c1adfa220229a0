SPECIFICATION Spec
CONSTANTS
  Conns = {c1}
  Calls = {p1, p2}
  Handlers = {h1}
  Arcs = {a1, a2, a3}
  Grants = {k1, k2}
  Rotated = {}
  Life = 3
  Skew = 1
  Timeout = 1
  Ids = {i1, i2}
  MaxTime = 0
  Unborn = Unborn
  Disconnected = Disconnected
  Removed = Removed
  None = None
SYMMETRY
  Symmetry
VIEW
  View
INVARIANTS
  TypeOK
  NoOldGrant
