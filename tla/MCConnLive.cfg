SPECIFICATION FairSpec
CONSTANTS
  r1 = r1
  r2 = r2
  c1 = c1
  NoProc = NoProc
  Readers = {r1, r2}
  Writers = {}
  Closers = {c1}
  MaxTPDU = 4
  MaxTSDU = 1
  TsduLens = {}
  Deadlines = {"none"}
  NetFailures = {}
PROPERTIES
  TerminalUnblocks
  CtxUnblocks
