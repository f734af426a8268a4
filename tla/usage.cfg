SPECIFICATION Spec
CONSTANTS
  m1 = m1
  m2 = m2
  recipients = recipients
  Messages = {m1, m2}
  Dims = {recipients}
  Units <- MCUnits
  MaxUnits = 2
  Unlimited = Unlimited
  Limits = {2}
  Corrections <- MCCorrections
  PeriodLength = 1
  TimeBound = 2
  RetryBound = 1
  RepeatableRead = TRUE
  NoRow = NoRow
INVARIANTS
  LedgerAddsUp
PROPERTIES
  OnlyOverlapOverbooks
  SettlementIsFinal
CHECK_DEADLOCK FALSE
