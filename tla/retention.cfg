SPECIFICATION FairSpec
CONSTANTS
  Messages = {m1}
  Passes = {p1, p2}
  NoPass = NoPass
  ReportBound = 1
  FaultBound = 2
PROPERTIES
  HoldKeepsContent
  ReportableIsKept
  HiddenIsDeleted
CHECK_DEADLOCK FALSE
