CONSTANTS
  maxPoints = 6
  numiter = 1
SPECIFICATION Spec
INVARIANTS ColoursPartition LoopsRaceFree
PROPERTY GaussSeidelOrder
