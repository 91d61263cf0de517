SPECIFICATION Spec
CONSTANTS
  a = a
  b = b
  q1 = q1
  q2 = q2
  Device = {a, b}
  Request = {q1, q2}
  None = None
  MaxPending = 3
  From <- FromA
  To <- ToB
  Ways <- OnlyPins
  Faults = {"unpair"}
  MaxFaults = 1
PROPERTY NoticeEndsItsPairing
CHECK_DEADLOCK FALSE
