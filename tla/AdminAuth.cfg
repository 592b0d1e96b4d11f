\* Three accounts that change while two browsers sign in; room for two failures.
CONSTANTS
  Users = {alice, bob, carol}
  Passwords = {p, q}
  Browsers = {b1, b2}
  Source <- MCSource
  Tokens = {t1}
  Thresholds <- MCThresholds
  Delays <- MCDelays
  MaxFailures = 2
  FailureLife = 1
  SessionLife = 1
  MaxTime = 1
  MaxSets = 2
  Null = Null
SPECIFICATION Spec
SYMMETRY Symmetry
INVARIANTS
  SessionsCurrent
  LimiterConsistent
  NoLockout
