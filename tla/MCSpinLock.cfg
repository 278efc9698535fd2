\* Four threads and all three builds: safety, refinement and progress.
SPECIFICATION FairSpinSpec
CONSTANT Threads = {t1, t2, t3, t4}
INVARIANT IInv
PROPERTIES RefinesLock Progress
