SPECIFICATION Spec
CONSTANTS
  r1 = r1
  r2 = r2
  m1 = m1
  m2 = m2
  m3 = m3
  Box = {r1}
  Mail = {m1, m2}
  Unsure = {m1, m2}
  To <- ToOne
  Bytes <- BytesOne
  Overhead = 1
  BoxCap = 2
  BoxBytesCap = 6
  TotalCap = 4
  PageSize = 1
  SendBuffer = 2
  MaxFrames = 2
  MaxFaults = 0
INVARIANT NothingLost
CHECK_DEADLOCK FALSE
