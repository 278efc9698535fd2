\* The smallest sizes of run.sh; up to four messages; a segment left over or
\* not; a server that is ready or late.
SPECIFICATION FairShmSpec
CONSTANTS
  Sizes = {4, 16}
  MaxMessages = 4
INVARIANTS TurnTaking ClientReadsAck OneLostAtMost
PROPERTY Finishes
