SPECIFICATION Spec
CONSTANTS
  Bytes <- MCBytes
  NoByte = "none"
  Faults = {"mismatch"}
  MaxBytes = 2
  MaxPass = 2
PROPERTIES
  MismatchShown
CHECK_DEADLOCK FALSE
