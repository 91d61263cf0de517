SPECIFICATION Spec
CONSTANTS
  a = a
  b = b
  q1 = q1
  q2 = q2
  Device = {a, b}
  Request = {q1, q2}
  None = None
  MaxPending = 3
  From <- FromA
  To <- ToB
  Ways <- AnyWay
  Faults = {"call", "cancel", "unpair", "notice", "restart"}
  MaxFaults = 2
INVARIANT TypeOK
INVARIANT FirstEndFirst
PROPERTY RefusedIsFinal
INVARIANT BothOrNeither
CHECK_DEADLOCK FALSE
INVARIANT CancelledIsGone
