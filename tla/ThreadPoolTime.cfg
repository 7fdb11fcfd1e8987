CONSTANTS
  numThreads = 3
  numTasks = 3
  num_cores = 4
  NDEBUG = FALSE
SPECIFICATION Spec
INVARIANT ReportsMeasuredTime
