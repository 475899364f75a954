SPECIFICATION Spec
CONSTANTS
  Bytes <- MCBytes
  NoByte = "none"
  Faults = {"enc", "dec", "mismatch"}
  MaxBytes = 3
  MaxPass = 2
INVARIANTS
  TypeOK
  KeypairBeforeUse
  WindowClean
  VerdictRight
  TestReproducible
  DecapsMatched
PROPERTIES
  CommandReturns
  ImplementsConsole
CHECK_DEADLOCK FALSE
