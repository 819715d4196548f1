SPECIFICATION Spec
CONSTANTS
  Contracts = {c1}
  Workers = {w1}
  Clients = {k1}
  Stoppers = {s1}
  MaxGen = 1
  ScheduleAfterReuse = FALSE
  CreateDuringStop = FALSE
  None = None
INVARIANTS
  StopToleratesWorkers
CHECK_DEADLOCK FALSE
