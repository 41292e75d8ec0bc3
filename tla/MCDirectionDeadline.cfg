SPECIFICATION FairSpec
CONSTANTS
  h = h
  a = a
  b = b
  NoOp = NoOp
  NoDeadline = NoDeadline
  Past = Past
  HandshakeOps <- MCHandshakeOps
  ReadOps <- MCReadOps
  WriteOps = {}
CHECK_DEADLOCK FALSE
INVARIANTS
  TimeoutIsOwn
  RestoredBetweenOps
PROPERTIES
  CancelInterrupts
