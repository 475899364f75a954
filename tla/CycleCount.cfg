SPECIFICATION Spec
CONSTANTS
  CounterMod = 64
  CyclesPerTick = 2
  TicksPerMs = 2
  IntMod = 640
  AccMod = 1024
  OpCycles = {21, 63, 128}
  MaxGap = 2
  MsTimes = {0, 20}
  FlagSets <- MCFlagSets
  Phases = {0, 1, 62, 63}
INVARIANTS
  TypeOK
  ClockInv
  CyclesExact
  ReportFaithful
PROPERTIES
  MeasureOnTime
