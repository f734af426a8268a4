SPECIFICATION FairSpec
CONSTANTS
  Deliveries = {i1, i2}
  DeliveryTries = 1
  Workers = {w1, w2}
  Jobs = {j1}
  MaxAttempts = 2
  RescanBound = 1
  NoWorker = NoWorker
  NoJob = NoJob
  NoFile = NoFile
INVARIANTS
  ServedIsScanned
  StoredFileIsKept
  UndecidedIsInHand
PROPERTIES
  VerdictIsFinal
  ScanDecides
CHECK_DEADLOCK FALSE
