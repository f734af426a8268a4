SPECIFICATION Spec
CONSTANTS
  Messages = {m1}
  Jobs = {j1, j2}
  Workers = {w1, w2}
  NoMessage = NoMessage
  NoJob = NoJob
  MaxAttempts = 2
  AttemptBound = 2
  Faults = {"unclaimed_crash", "claimed_crash", "request_crash", "handler_error", "lock_expiry", "emergency_stop", "early_retry", "backlog"}
SYMMETRY Symmetry
INVARIANTS
  TypeOK
  AcceptedIsLast
  ExclusiveDelivery
  StateMatchesProvider
  ChargedOnlyIfAccepted
  RowsAreTrue
PROPERTIES
  AmbiguousIsNotResent
  ImplementsConversation
CHECK_DEADLOCK FALSE
