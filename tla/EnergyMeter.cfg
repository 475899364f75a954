SPECIFICATION Spec
CONSTANTS
  TIMINGS = 3
  MinCycles = 20
  RaplMod = 40
  Lag = 2
  OpCycles = {2, 5, 9}
  OpEnergy = {1, 3}
  Phases = {0, 30}
  Leftover = {0, 7}
INVARIANTS
  TypeOK
  EnergyFaithful
  CyclesFaithful
  MedianRight
