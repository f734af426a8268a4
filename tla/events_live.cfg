SPECIFICATION FairSpec
CONSTANTS
  Messages = {m1}
  Events = {e1, e2}
  Providers = {p1}
  NoMessage = NoMessage
  NoTicket = NoTicket
  NoReport = NoReport
  AttemptBound = 2
  ReconcileLimit = 1
  Failures = {"job_redelivered"}
INVARIANTS
  DeliveredIsReported
  ReportIsPending
PROPERTIES
  ReportsReachTheirMessage
CHECK_DEADLOCK FALSE
