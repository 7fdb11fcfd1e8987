CONSTANTS
  niters = 3
  nthreads = 3
  ntasks = 4
  num_cores = 4
SPECIFICATION FairSpec
INVARIANTS BulkSynchronous NoSharedTask AllTasksExecuted
PROPERTIES ImplementsStencilOrder AllThreadsJoined
