SPECIFICATION Spec
CONSTANTS
  Capacity = 2048
  Indices = {0, 1}
  Setters = {s1, s2}
  Selectors = {w1}
  MaxSets = 3
INVARIANTS
  EmptyMeansNoLeafIsSet
