SPECIFICATION FairSpec
CONSTANTS
  Worker = {w1, w2}
  Job = {j1, j2, j3}
INVARIANTS TypeOK CountIsExact JobInOnePlace NoLostWakeup
PROPERTIES PoolSpec PoolFairSpec
