SPECIFICATION Spec
CONSTANTS
  c1 = c1
  c2 = c2
  c3 = c3
  tr1 = tr1
  tr2 = tr2
  Trees = {tr1, tr2}
  Contracts = {c1, c2, c3}
  TreeOf <- MCTreeOf
  Schedulers = {s1, s2}
  Workers = {w1, w2}
  Timed = {w2}
  Stoppers = {p1}
SYMMETRY Symmetry
INVARIANTS
  TypeOK
  CounterAccountsForTrees
  NoLostWakeup
  NoSleepAfterStop
