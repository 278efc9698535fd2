\* All four programs; up to four messages of four bytes; any left-overs; any
\* order of the two processes.  A server may be left waiting: no deadlock check.
SPECIFICATION FairSpec
CONSTANTS
  Sizes = {4}
  MaxMessages = 4
INVARIANTS Consistent NoBrokenPipe
PROPERTIES ClientFinishes ServerFinishes
CHECK_DEADLOCK FALSE
