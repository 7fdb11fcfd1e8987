CONSTANTS
  numThreads = 3
  numTasks = 3
  num_cores = 4
  NDEBUG = TRUE
SPECIFICATION FairSpec
INVARIANTS CallsUseLiveObjects JoinIsAwaited OnlyTasksLeak
PROPERTIES ImplementsThreadPool ProcessEnds
