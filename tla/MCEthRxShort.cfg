\* Frames of two bursts, the second of one beat.
CONSTANTS
  Beats = 2
  Words = {3}
  MaxFrames = 3
SPECIFICATION Spec
INVARIANT StoredWhenTold
