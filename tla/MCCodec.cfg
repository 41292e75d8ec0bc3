SPECIFICATION Spec
CONSTANTS
  Tpdus <- MCTpdus
  Arrivals <- MCArrivals
CHECK_DEADLOCK FALSE
INVARIANTS
  MarshalDecodes
  RelayKeepsTPDU
  PlainHeaderKept
  LastValueWins
  WireParametersJudged
  OpenDTIsMinimal
  DetectionAgrees
