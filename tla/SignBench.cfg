SPECIFICATION Spec
CONSTANTS
  Bytes <- MCBytes
  NoByte = "none"
  Faults = {"sign", "long", "open", "forge"}
  MaxBytes = 3
  MaxPass = 2
INVARIANTS
  TypeOK
  VerdictRight
  KeypairBeforeUse
  VerifyMatched
  MessageFresh
PROPERTIES
  ImplementsConsole
CHECK_DEADLOCK FALSE
