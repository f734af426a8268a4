SPECIFICATION FairSpec
CONSTANTS
  Messages = {m1}
  Clients = {c1, c2}
  Passes = {p1, p2}
  NoView = NoView
  VersionBound = 2
  DecisionBound = 3
INVARIANTS
  ReservedIffQueued
  TokenNamesSchedule
PROPERTIES
  NeverEarly
  NoWayBack
  DueIsHandled
CHECK_DEADLOCK FALSE
