SPECIFICATION Spec
CONSTANTS
  Ids = {i1}
  Conns = {c1}
  Calls = {t1}
  Hits = {h1, h2}
  Uses = 3
  Ttl = 2
  MaxTime = 3
  Lost = Lost
  None = None
SYMMETRY
  Symmetry
VIEW
  View
INVARIANTS
  TypeOK
  UsesAddUp
  RefusalIsTrue
  NoLinkOutlivesConnection
PROPERTIES
  LinksAreCapabilities
