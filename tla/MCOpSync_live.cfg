SPECIFICATION FairSpec
CONSTANTS
  a = a
  b = b
  m1 = m1
  m2 = m2
  Device = {a, b}
  Msg = {m1}
  CanDial <- OnlyADials
  Users = {a, b}
  UserOps = {"msg", "delete", "clear"}
  Faults = {"break", "force", "crash", "torn_apply", "torn_send", "torn_delete", "expire"}
  HasProfile = TRUE
  Relay = FALSE
  MaxOps = 2
  MaxFaults = 1
  MaxQueue = 3
PROPERTY EventuallyDelivered

CHECK_DEADLOCK FALSE
