SPECIFICATION Spec
CONSTANTS
  w1 = w1
  w2 = w2
  c1 = c1
  NoProc = NoProc
  Readers = {}
  Writers = {w1, w2}
  Closers = {c1}
  MaxTPDU = 5
  MaxTSDU = 3
  TsduLens = {0, 3, 4}
  Deadlines = {"none", "pending"}
  NetFailures = {"reset", "etimedout"}
SYMMETRY Symmetry
INVARIANTS
  StreamAtBoundary
  HalfTsduIsTerminal
  CtxErrorMeansNothingMoved
