\* A page confirms an answer to a task it could not open again.
SPECIFICATION ClientSpec
CONSTANTS
  n1 = n1
  n2 = n2
  MaxEpoch = 4
  Root = Root
  Nodes <- MCNodes
  Parent <- MCParent
  Selectable <- MCSelectable
  EventIds <- MCEventIds
  Epochs <- MCEpochs
  MaxElapsed = 0
  MaxEventsPerRequest = 2
  MaxEventsPerAttempt = 20
  Participants = {p1}
  TaskCount = 1
  AttemptIds = {a1}
  Commands <- MCCommands
  Batches = {}
  Submissions = {}
  ReceiptLifetime = 1
  MaxReceipts = 4
  EventSize = 1
  SessionStorage = 1
  MaxAttemptBytes = 90
  MaxSessionBytes = 90
  MaxRunBytes = 90
  MaxTime = 0
  Unfinished = Unfinished
  NoAttempt = NoAttempt
  None = None
  Pages = {t1}
  Lossy = {t1}
  MaxLoads = 3
  Clicks <- MCNoClicks
  Answers = {"gave_up"}
CHECK_DEADLOCK FALSE
INVARIANTS
  RetrySafe
