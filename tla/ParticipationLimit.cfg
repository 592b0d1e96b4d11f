\* An attempt whose stream has reached the event limit.
SPECIFICATION ResultsSpec
CONSTANTS
  n1 = n1
  n2 = n2
  n3 = n3
  Root = Root
  Nodes <- MCNodes
  Parent <- MCParent
  Selectable <- MCSelectable
  EventIds <- MCEventIds
  Epochs <- MCEpochs
  MaxElapsed = 2
  MaxEventsPerRequest = 3
  MaxEventsPerAttempt = 3
  Participants = {p1}
  TaskCount = 1
  AttemptIds = {a1, a2, a3}
  Commands = {c1, c2, c3, c4}
  Batches <- MCBatches
  Submissions <- MCSubmissions
  ReceiptLifetime = 2
  MaxReceipts = 4
  EventSize = 1
  SessionStorage = 1
  MaxAttemptBytes = 5
  MaxSessionBytes = 9
  MaxRunBytes = 9
  MaxTime = 4
  Base = 2
  Width = 3
  Places = 2
  LastSecond = 7
  Unfinished = Unfinished
  NoAttempt = NoAttempt
  Null = Null
  Arm <- MCArm
  Accepted <- MCAccepted
SYMMETRY Symmetry
INVARIANTS
  CanAlwaysSkip
