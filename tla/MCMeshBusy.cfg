\* Steady traffic on a lattice of two by two: what the doc says of waiting.
CONSTANTS
  Cols = 2
  Rows = 2
  Flows <- MCFlows
  MaxSent <- MCMaxSent
SPECIFICATION BusySpec
INVARIANT WaitsOnFour
CHECK_DEADLOCK FALSE
