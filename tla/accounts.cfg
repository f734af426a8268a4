SPECIFICATION Spec
CONSTANTS
  Users = {1, 2}
  Keys = {k1, k2}
  Inboxes = {i1, i2}
  Requests = {r1, r2, r3}
  KeyLimit = 1
  InboxLimit = 1
  Capacity = 1
  Server = Server
  Nobody = Nobody
  NoUser = NoUser
SYMMETRY Symmetry
INVARIANTS
  AdminRemains
  KeyWithinOwner
  QuotasHold
  CapacityHolds
  UsersNeverCross
PROPERTIES
  RenewedIsKept
CHECK_DEADLOCK FALSE
