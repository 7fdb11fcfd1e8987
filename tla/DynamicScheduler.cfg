CONSTANTS
  numThreads = 3
  numTasks = 3
  maxIter = 2
  num_cores = 4
  NDEBUG = FALSE
SPECIFICATION FairSpec
INVARIANTS TypeOK PreCondsSane PreCondsStillHold StopMeansSolved
PROPERTIES ImplementsStencilOrder ImplementsTaskCalls ComputationEnds
