SPECIFICATION Spec
CONSTANTS
  AWriters = {w1}
  AClosers = {ac}
  AMaxTSDU = 3
  BReaders = {r1}
  BMaxTSDU = 2
  MaxTPDU = 4
  TsduLens = {2, 3}
  MaxTsdus = 2
  ANetFailures = {"reset"}
  BNetFailures = {"eof", "reset"}
  NoProc = NoProc
INVARIANT CleanEndMeansAllDelivered
INVARIANT IncompleteMeansAbandoned
PROPERTY ImplementsService
CHECK_DEADLOCK FALSE
