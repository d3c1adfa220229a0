SPECIFICATION Spec
CONSTANTS
  Ids = {i1, i2}
  Conns = {c1}
  Calls = {t1}
  Hits = {h1}
  Uses = 2
  Ttl = 2
  MaxTime = 3
  Lost = Lost
  None = None
INVARIANTS
  EveryCallIsLogged
