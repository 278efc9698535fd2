\* Four rounds, two spurious wake-ups of the consumer.
SPECIFICATION FairSpec
CONSTANTS
  NLOOPS = 4
  MaxSpurious = 2
INVARIANTS IInv SectionsExclusive
PROPERTY Terminates
