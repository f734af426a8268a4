SPECIFICATION FairSpec
CONSTANTS
  Messages = {m1}
  Jobs = {j1, j2}
  Workers = {w1, w2}
  NoMessage = NoMessage
  NoJob = NoJob
  MaxAttempts = 2
  AttemptBound = 3
  Faults = {"claimed_crash"}
INVARIANTS
  QueuedIsInHand
PROPERTIES
  SendingResolves
  QueuedProgresses
CHECK_DEADLOCK FALSE
