SPECIFICATION FairSpec
CONSTANTS
  Depth = 3
  SubTrees = 2
  Contracts = {0, 1, 2, 5, 7, 12}
INVARIANTS
  TypeOK
  BiasWithinHint
  SelectsSetSignal
PROPERTIES
  NoSignalStarves
