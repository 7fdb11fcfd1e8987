CONSTANTS
  numTasks = 3
  startMaxIter = 4
  convergedAt = 0
  wordBits = 64
  NDEBUG = FALSE
SPECIFICATION FairSpec
INVARIANTS
  TypeOK
  SafeCondition
  OnlyOneChangesMaxIter
  SumsRecent
  OnlyLossMissesIteration
  GridHoldsLatest
  AbortsOnlyLate
  StopsTogether
PROPERTY EndsUnlessRaised
