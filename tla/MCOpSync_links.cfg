SPECIFICATION Spec
CONSTANTS
  a = a
  b = b
  m1 = m1
  m2 = m2
  Device = {a, b}
  Msg = {m1, m2}
  CanDial <- BothDial
  Users = {a, b}
  UserOps = {"msg"}
  Faults = {"break", "force"}
  HasProfile = FALSE
  Relay = FALSE
  MaxOps = 2
  MaxFaults = 2
  MaxQueue = 3
INVARIANT TypeOK
INVARIANT SendStateTrue
INVARIANT CursorsHonest
SYMMETRY Devices
CHECK_DEADLOCK FALSE
