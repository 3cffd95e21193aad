CONSTANTS
  N = 2
  I = 0
  J = 1
  FIXED = FALSE
  HOLD = TRUE
  PRIO = 8
  HoldMax = 1
  Ids = {0}
  Lens = {1, 2}
  RLocks = {TRUE}
  WLocks = {FALSE, TRUE}
  MaxReads = 1
  MaxWrites = 2
  Track = FALSE
  NoReq = NoReq
  Lines = {0, 1}
  Watched = {0, 1}
  Writers = {1}
  NoLine = 9
SPECIFICATION MonSpec
INVARIANTS MonTypeOK BurstsWhole HoldWhole
PROPERTIES PairAtomic AnswersTrue EveryAccessEnds
