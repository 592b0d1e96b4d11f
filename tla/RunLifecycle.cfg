\* One run from creation to purge: recruitment, allocation, closures, overlapping purges.
SPECIFICATION FairSpec
CONSTANTS
  RunIds = {r1}
  Participants = {p1, p2, p3}
  Cells = {c1, c2}
  Tokens = {t1}
  Purgers = {k1, k2}
  Caps = {3}
  Recruitments = {"public", "invitation"}
  DaysInUse = {1, 2}
  InviteLifetimes = {1}
  SessionStorage = 1
  EventSize = 1
  MaxRunBytes = 3
  MaxTime = 1
  Null = Null
INVARIANTS
  SingleUse
  BalancedAllocation
  RetentionAnchored
  PurgedStayEmpty
  PurgedMeansClean
PROPERTIES
  KeptUntilPurged
  PendingCompletes
