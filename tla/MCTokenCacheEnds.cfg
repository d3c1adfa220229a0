SPECIFICATION FairSpec
CONSTANTS
  Conns = {c1}
  Calls = {p1, p2}
  Handlers = {}
  Arcs = {a1, a2, a3}
  Grants = {k0, k1}
  Rotated = {k0}
  Life = 3
  Skew = 1
  Timeout = 1
  Ids = {i1, i2, i3}
  MaxTime = 0
  Unborn = Unborn
  Disconnected = Disconnected
  Removed = Removed
  None = None
PROPERTIES
  CallsEnd
