\* Three cores (three pairs, an inactive core in each), two runs of a pair.
SPECIFICATION FairSpec
CONSTANTS
  NCORES = 3
  NLOOPS = 2
  NRUNS = 2
INVARIANTS Consistent QuietBetweenRuns EveryPairMeasured
PROPERTY Terminates
