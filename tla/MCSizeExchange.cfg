SPECIFICATION Spec
CONSTANTS
  Ceilings <- MCCeilings
  Codes <- MCCodes
  Units <- MCUnits
CHECK_DEADLOCK FALSE
INVARIANTS
  SizesAgree
  WithinOwnCeiling
  SelectsLargest
  EchoKeepsSelection
