\* Three hosts that offer reads and writes of one beat as they like: the round
\* robins and the way home of the answers.
CONSTANTS
  N = 3
  I = 1
  J = 3
  FIXED = FALSE
  HOLD = FALSE
  PRIO = 8
  HoldMax = 0
  Ids = {0}
  Lens = {1}
  RLocks = {FALSE}
  WLocks = {FALSE}
  MaxReads = 1
  MaxWrites = 1
  Track = TRUE
  NoReq = NoReq
SPECIFICATION Spec
INVARIANTS TypeOK AnswersHome TakeTurns
