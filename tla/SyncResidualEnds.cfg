CONSTANTS
  numTasks = 3
  startMaxIter = 1
  convergedAt = 0
  wordBits = 64
  NDEBUG = FALSE
SPECIFICATION FairSpec
PROPERTY ComputationEnds
