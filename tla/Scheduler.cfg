SPECIFICATION FairSpec
CONSTANTS
  c1 = c1
  c2 = c2
  t1 = t1
  t2 = t2
  Callers <- MCCallers
  Tasks <- MCTasks
  MaxGen = 3
INVARIANTS NoOverlap RunningHasLoop
PROPERTIES SpawnOnlyWhileRunning StopReturns TaskRecurs
CHECK_DEADLOCK FALSE
