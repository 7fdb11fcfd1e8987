CONSTANTS
  numRows = 8
  numCols = 3
  numTasks = 4
  startMaxIter = 5
  Relax <- MCRelax
  rhs <- MCrhs
  topRow <- MCtopRow
  Serial <- MCSerial
SPECIFICATION TestSpec
INVARIANTS
  TypeOK
  RaceFree
  ReadsSerialIterate
  FinalIsSerial
  NoDifference
