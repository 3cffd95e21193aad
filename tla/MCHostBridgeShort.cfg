\* A host that issues a write of one beat while a longer one is merged.
CONSTANTS
  Ids = {0, 1}
  LenBits = 3
  Lens = {0, 1}
  Wraps = {FALSE}
  MaxOpen = 2
  Careful = FALSE
SPECIFICATION Spec
INVARIANT AnswersRight
