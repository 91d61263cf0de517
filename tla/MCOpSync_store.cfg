SPECIFICATION Spec
CONSTANTS
  a = a
  b = b
  m1 = m1
  m2 = m2
  Device = {a, b}
  Msg = {m1}
  CanDial <- OnlyADials
  Users = {a, b}
  UserOps = {"msg", "delete"}
  Faults = {"crash", "torn_apply", "torn_delete", "expire"}
  HasProfile = TRUE
  Relay = TRUE
  MaxOps = 3
  MaxFaults = 1
  MaxQueue = 2
INVARIANT NoMessageLost
INVARIANT NoDeleteLost
INVARIANT DeletedStaysDeleted
INVARIANT Converged
PROPERTY CursorMonotone
PROPERTY ImplementsConversation
CHECK_DEADLOCK FALSE
