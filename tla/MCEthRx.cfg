CONSTANTS
  Beats = 2
  Words = {2, 4}
  MaxFrames = 3
SPECIFICATION FairSpec
INVARIANTS TypeOK StoredWhenTold
PROPERTIES AcksWhatItRead FramesAreQueue DropsOnlyWhenFull AllServed
