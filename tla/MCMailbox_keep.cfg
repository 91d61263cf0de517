SPECIFICATION FairSpec
CONSTANTS
  r1 = r1
  r2 = r2
  m1 = m1
  m2 = m2
  m3 = m3
  Box = {r1}
  Mail = {m1, m2, m3}
  Unsure = {m1}
  To <- ToOne
  Bytes <- BytesTwo
  Overhead = 1
  BoxCap = 2
  BoxBytesCap = 4
  TotalCap = 4
  PageSize = 1
  SendBuffer = 1
  MaxFrames = 1
  MaxFaults = 1
INVARIANT TypeOK
INVARIANT KeptUntilHanded
INVARIANT TotalRight
PROPERTY EventuallyHanded
CHECK_DEADLOCK FALSE
