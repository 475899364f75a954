SPECIFICATION ParseSpec
CONSTANTS
  Kems = {"kem"}
  Signatures = {"sign"}
  Clocks = {84, 96}
  DefaultClock = 96
  Cycles = {1, 2}
  MaxFiles = 3
INVARIANTS
  BestTaken
  PowersMatchCycles
  ClockRight
CHECK_DEADLOCK FALSE
