SPECIFICATION BatchSpec
CONSTANTS
  Bytes <- MCBytes
  NoByte = "none"
  MaxRefusals = 2
  Targets = 2
INVARIANTS
  TypeOK
  NoCommandLost
  LogOfTarget
  Identified
PROPERTIES
  BatchEnds
CHECK_DEADLOCK FALSE
