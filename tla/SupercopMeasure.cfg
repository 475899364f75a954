SPECIFICATION Spec
CONSTANTS
  Primitives <- AllPrimitives
  LOOPS = 2
  TIMINGS = 1
  MaxPass = 2
  MAXTEST_BYTES = 6
  FixedLen = 4
  crypto_aead_ABYTES = 0
  LabelBase = 7
INVARIANTS
  TypeOK
  BlocksMatched
  LabelsRight
PROPERTY
  MeasureEnds
CHECK_DEADLOCK FALSE
