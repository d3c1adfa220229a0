SPECIFICATION Spec
CONSTANTS
  Users = {anna, ben}
  Conns = {c1, c2}
  Tokens = {t1}
  Labels = {work, home}
  Accounts = {a1, a2}
  Calls = {p1}
  Requests = {r1, r2}
  Gone = Gone
  None = None
SYMMETRY
  Symmetry
INVARIANTS
  TypeOK
  WithinReach
  AllowlistsAreOwn
  ShownTokensAreWhole
  OneNameOneAccount
  GrantOfItsAccount
