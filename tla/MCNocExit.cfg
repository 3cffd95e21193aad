\* A host with two writes of two or three beats open at a time, or with one of
\* any kind, a reader of two beats, and two local identifiers.
CONSTANTS
  Ids = {0, 1}
  LenBits = 3
  Lens = {0, 1, 2}
  Wraps = {FALSE, TRUE}
  MaxOpen = 2
  Careful = TRUE
  IDS = 2
  Reads = {2}
SPECIFICATION ExitSpec
INVARIANTS ExitTypeOK AnswersRight PacketsKept
PROPERTY EveryoneAnswered
