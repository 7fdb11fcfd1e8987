CONSTANTS
  numThreads = 2
  numTasks = 3
  num_cores = 4
  NDEBUG = TRUE
SPECIFICATION Spec
INVARIANT FlagsOutliveCalls
