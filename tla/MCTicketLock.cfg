\* As many threads as numbers, the tightest instance the assumption allows; the
\* numbers wrap after three calls.
SPECIFICATION FairSpec
CONSTANTS
  Threads = {t1, t2, t3}
  TicketMod = 3
INVARIANTS IInv MutualExclusion LockableExact
PROPERTIES RefinesLock StarvationFree
