\* A run closed anew after it was selected as overdue.
SPECIFICATION Spec
CONSTANTS
  RunIds = {r1}
  Participants = {p1}
  Cells = {c1}
  Tokens = {t1}
  Purgers = {k1}
  Caps = {1}
  Recruitments = {"invitation"}
  DaysInUse = {1}
  InviteLifetimes = {1}
  SessionStorage = 1
  EventSize = 1
  MaxRunBytes = 1
  MaxTime = 2
  Null = Null
SYMMETRY Symmetry
PROPERTIES
  OverdueOnly
