SPECIFICATION LoopSpec
CONSTANTS
  c1 = c1
  c2 = c2
  c3 = c3
  tr1 = tr1
  tr2 = tr2
  Trees = {tr1}
  Contracts = {c1, c2}
  TreeOf <- MCTreeOf
  Schedulers = {s1}
  Workers = {w1, w2}
  Timed = {w2}
  Stoppers = {p1}
PROPERTIES
  SignalsAreServed
  CallsReturnAfterStop
