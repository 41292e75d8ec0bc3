SPECIFICATION Spec
CONSTANTS
  r1 = r1
  w1 = w1
  c1 = c1
  NoProc = NoProc
  Readers = {r1}
  Writers = {w1}
  Closers = {c1}
  MaxTPDU = 4
  MaxTSDU = 2
  TsduLens = {2}
  Deadlines = {"none"}
  NetFailures = {"eof", "etimedout", "fault"}
INVARIANTS
  TypeOK
  StreamAtBoundary
  ReturnsRecordedCause
  DisconnectedMeansPeer
  RefOutlivesStream
PROPERTIES
  FinishedOnReturn
  FirstCauseWins
