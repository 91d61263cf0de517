SPECIFICATION FairSpec
CONSTANTS
  a = a
  b = b
  c = c
  g = g
  Device <- ThreeDevices
  Sender = a
  Members <- Order
  GroupId = g
  Address <- OneKnows
  Learnable <- Stale
  Answers <- OneKnows
  Faults <- AllFaults
  Chunks = 2
  Window = 1
  MaxCalls = 2
  MaxLinks = 1
  MaxFaults = 1
CHECK_DEADLOCK FALSE
INVARIANT TypeOK
INVARIANT PartIsBeginning
INVARIANT DoneIsAnnounced
INVARIANT OneStream
PROPERTY DoneIsFinal
PROPERTY ReceiveEnds
PROPERTY Delivered
