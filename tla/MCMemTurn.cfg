\* Element 0 of four ends up behind the block after the first turn.
SPECIFICATION Spec
CONSTANTS
  nthreads = 2
  Blocks = {b1, b2}
  Nobody = Nobody
  blocksize = 4
  batchsize = 1
  Words = 16
  FloatSteps = 4
  RAND_MAX = 3
  MaxTurns = 2
  MaxBatches = 0
INVARIANT FirstTurnReverses
