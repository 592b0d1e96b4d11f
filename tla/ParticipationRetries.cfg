\* Two participants share two attempts of two tasks: two pages, retries before and after expiry.
SPECIFICATION ResultsSpec
CONSTANTS
  n1 = n1
  n2 = n2
  n3 = n3
  Root = Root
  Nodes <- MCNodes
  Parent <- MCParent
  Selectable <- MCSelectable
  EventIds <- MCEventIds
  Epochs <- MCEpochs
  MaxElapsed = 2
  MaxEventsPerRequest = 3
  MaxEventsPerAttempt = 5
  Participants = {p1, p2}
  TaskCount = 2
  AttemptIds = {a1, a2}
  Commands = {c1, c2, c3, c4}
  Batches <- MCBatches
  Submissions <- MCReportSubmissions
  ReceiptLifetime = 2
  MaxReceipts = 4
  EventSize = 1
  SessionStorage = 1
  MaxAttemptBytes = 5
  MaxSessionBytes = 8
  MaxRunBytes = 8
  MaxTime = 4
  Base = 2
  Width = 3
  Places = 2
  LastSecond = 7
  Unfinished = Unfinished
  NoAttempt = NoAttempt
  Null = Null
  Arm <- MCArm
  Accepted <- MCAccepted
SYMMETRY Symmetry
INVARIANTS
  FinishedStreams
  RetryWindow
  ReceiptRoom
  NeverStuck
  BytesBalance
  SweptOnTime
  TimingHonest
  DirectIsDirect
  ColumnsHold
  SummariesAddUp
PROPERTIES
  AcknowledgedStays
  OriginalSaved
  AnswersBooked
  AnsweredRowsStay
