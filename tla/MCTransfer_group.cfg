SPECIFICATION FairSpec
CONSTANTS
  a = a
  b = b
  c = c
  g = g
  Device <- ThreeDevices
  Sender = a
  Members <- Order
  GroupId = g
  Address <- Nobody
  Learnable <- Nobody
  Answers <- Nobody
  Faults <- Nobody
  Chunks = 2
  Window = 1
  MaxCalls = 2
  MaxLinks = 0
  MaxFaults = 0
CHECK_DEADLOCK FALSE
PROPERTY EveryMemberGetsIt
