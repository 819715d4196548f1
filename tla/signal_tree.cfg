SPECIFICATION FairSpec
CONSTANTS
  Capacity = 2048
  Indices = {0, 1, 64, 2047}
  Setters = {s1, s2}
  Selectors = {w1, w2}
  MaxSets = 5
INVARIANTS
  TypeOK
  CountersFit
  LevelsAgree
  DescentFindsSignal
  IndexNamesNode
PROPERTIES
  TreeDrains
