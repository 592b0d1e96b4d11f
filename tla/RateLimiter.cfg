\* Two requests in progress, four keys and room for two.
CONSTANTS
  Calls = {c1, c2}
  Sources = {s1}
  Identities = {i1, i2}
  Limit <- MCLimit
  Window <- MCWindow
  MaxWindows = 2
  MaxTime = 4
  Null = Null
SPECIFICATION Spec
SYMMETRY Symmetry
INVARIANTS
  Recovers
PROPERTIES
  QuotaKept
  ReplaysFree
