SPECIFICATION FairSpec
CONSTANTS
  Contracts = {c1, c2}
  Workers = {w1, w2}
  Clients = {k1}
  Stoppers = {}
  MaxGen = 2
  ScheduleAfterReuse = FALSE
  CreateDuringStop = FALSE
  None = None
PROPERTIES
  ImplementsLifecycle
  ImplementsFairLifecycle
  ReleaseFreesSlot
CHECK_DEADLOCK FALSE
