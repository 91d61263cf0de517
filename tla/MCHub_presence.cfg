SPECIFICATION Spec
CONSTANTS
  a = a
  b = b
  Device <- Two
  Wanted <- Pairing
  MaxConns <- Conns
  SendBuffer = 2
  MaxSignals = 1
  MaxFaults = 1
CHECK_DEADLOCK FALSE
INVARIANT TypeOK
INVARIANT ServedIsRegistered
INVARIANT RegisteredIsServed
INVARIANT IndexExact
INVARIANT ViewTrue
