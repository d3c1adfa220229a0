SPECIFICATION Spec
CONSTANTS
  Conns = {c1}
  Calls = {p1, p2}
  Handlers = {}
  Arcs = {a1, a2, a3}
  Grants = {k1}
  Rotated = {}
  Life = 3
  Skew = 1
  Timeout = 1
  Ids = {i1, i2, i3}
  MaxTime = 6
  Unborn = Unborn
  Disconnected = Disconnected
  Removed = Removed
  None = None
SYMMETRY
  Symmetry
VIEW
  View
INVARIANTS
  HandedOutAlive
  NoWastedRequest
  RetriesWithAnother
