\* A FIFO of four, with enough transactions for the pointers to wrap twice.
CONSTANTS
  D = 4
  MaxSent = 12
SPECIFICATION FairSpec
INVARIANT TypeOK
PROPERTIES FifoIsQueue Through
