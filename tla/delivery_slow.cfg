SPECIFICATION Spec
CONSTANTS
  Messages = {m1}
  Jobs = {j1, j2}
  Workers = {w1, w2}
  NoMessage = NoMessage
  NoJob = NoJob
  MaxAttempts = 2
  AttemptBound = 2
  Faults = {"slow_worker", "backlog", "admin_crash"}
SYMMETRY Symmetry
PROPERTIES
  OnlyAllowedTransitions
  TerminalRowsAreFinal
CHECK_DEADLOCK FALSE
