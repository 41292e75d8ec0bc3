SPECIFICATION FairSpec
CONSTANTS
  AWriters = {w1}
  AClosers = {ac}
  AMaxTSDU = 3
  BReaders = {r1}
  BMaxTSDU = 2
  MaxTPDU = 4
  TsduLens = {2, 3}
  MaxTsdus = 2
  ANetFailures = {}
  BNetFailures = {"eof"}
  NoProc = NoProc
PROPERTY AcceptedArrives
CHECK_DEADLOCK FALSE
