\* Three hosts, host 0 named by PRIO.
CONSTANTS
  N = 3
  I = 1
  J = 3
  FIXED = FALSE
  HOLD = FALSE
  PRIO = 0
  HoldMax = 2
  Ids = {0}
  Lens = {1}
  RLocks = {FALSE}
  WLocks = {FALSE}
  MaxReads = 1
  MaxWrites = 1
  Track = TRUE
  NoReq = NoReq
SPECIFICATION Spec
INVARIANT OthersTakeTurns
