SPECIFICATION ReadSpec
CONSTANTS
  Measurements <- MCMeasurements
  NJoules <- MCNJoules
  AvgCycs = {3, 5}
  MaxFigures = 4
  None = None
INVARIANTS
  GetsThrough
  RowsRight
CHECK_DEADLOCK FALSE
