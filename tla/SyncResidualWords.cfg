CONSTANTS
  numTasks = 3
  startMaxIter = 2
  convergedAt = 2
  wordBits = 64
  NDEBUG = TRUE
SPECIFICATION Spec
INVARIANT NoIterationMissed
