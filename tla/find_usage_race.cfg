SPECIFICATION Spec
CONSTANTS
  m1 = m1
  m2 = m2
  recipients = recipients
  Messages = {m1, m2}
  Dims = {recipients}
  Units <- MCUnits
  MaxUnits = 2
  Unlimited = Unlimited
  Limits = {2}
  Corrections = {}
  PeriodLength = 1
  TimeBound = 2
  RetryBound = 1
  RepeatableRead = TRUE
  NoRow = NoRow
PROPERTIES
  PeriodWithinLimit
CHECK_DEADLOCK FALSE
