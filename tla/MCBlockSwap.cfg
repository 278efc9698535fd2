\* Two workers on one block or on two; six elements, more than FloatSteps, so that
\* blocksize rounds as a float; one batch of one swap for each worker.  Words,
\* FloatSteps and RAND_MAX are 2^32, 2^24 and 2^31 - 1 scaled down.
SPECIFICATION FairSpec
CONSTANTS
  nthreads = 2
  Blocks = {b1, b2}
  Nobody = Nobody
  blocksize = 6
  batchsize = 1
  Words = 16
  FloatSteps = 2
  RAND_MAX = 3
  MaxTurns = 2
  MaxBatches = 1
INVARIANTS Consistent BatchesConserved EachOnce
PROPERTY AllLaunched
