SPECIFICATION Spec
CONSTANTS
  Messages = {m1}
  Events = {e1}
  Providers = {p1, p2}
  NoMessage = NoMessage
  NoTicket = NoTicket
  NoReport = NoReport
  AttemptBound = 3
  ReconcileLimit = 1
  Failures = {"dispatch_failure", "answer_lost", "job_redelivered", "ageing"}
SYMMETRY Symmetry
INVARIANTS
  RightMessage
  OneEffectPerEvent
CHECK_DEADLOCK FALSE
