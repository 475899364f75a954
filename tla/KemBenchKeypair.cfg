SPECIFICATION Spec
CONSTANTS
  Bytes <- MCBytes
  NoByte = "none"
  Faults = {"keypair"}
  MaxBytes = 2
  MaxPass = 2
INVARIANTS
  KeypairBeforeUse
CHECK_DEADLOCK FALSE
