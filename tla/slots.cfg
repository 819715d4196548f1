CONSTANTS
  Capacity = 3
  TreeSize = 2
  RotorSize = 4
  Creators = {c1, c2}
SPECIFICATION FairSpec
INVARIANT FreeOrTaken
INVARIANT FailureIsExplained
PROPERTY CreateReturns
