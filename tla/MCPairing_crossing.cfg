SPECIFICATION Spec
CONSTANTS
  a = a
  b = b
  q1 = q1
  q2 = q2
  Device = {a, b}
  Request = {q1, q2}
  None = None
  MaxPending = 3
  From <- FromBoth
  To <- ToBoth
  Ways <- OnlyPins
  Faults = {}
  MaxFaults = 0
INVARIANT TokensAgree
CHECK_DEADLOCK FALSE
