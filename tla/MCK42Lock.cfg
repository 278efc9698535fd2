\* Three threads: a holder, a waiter that it has granted or will grant the lock,
\* and one that arrives meanwhile or tries.
SPECIFICATION FairSpec
CONSTANTS
  Threads = {t1, t2, t3}
  L = L
  NULL = NULL
INVARIANTS Consistent MutualExclusion NoLateWrite
PROPERTIES RefinesLock StarvationFree
