\* A memory of four across two clocks, samples caught mid-change included,
\* with enough transactions for the pointers to go once round.
CONSTANTS
  AW = 2
  MaxSent = 9
SPECIFICATION FairSpec
INVARIANTS TypeOK Conservative
PROPERTIES CdcIsQueue Through
