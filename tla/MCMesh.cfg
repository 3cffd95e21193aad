\* Three flows over a corner of a lattice of two by two.
CONSTANTS
  Cols = 2
  Rows = 2
  Flows <- MCFlows
  MaxSent <- MCMaxSent
SPECIFICATION FairSpec
INVARIANTS TypeOK OnCourse InOrder
PROPERTIES TurnComes Drains
