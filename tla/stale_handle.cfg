SPECIFICATION Spec
CONSTANTS
  Contracts = {c1}
  Workers = {w1}
  Clients = {k1}
  Stoppers = {}
  MaxGen = 2
  ScheduleAfterReuse = TRUE
  CreateDuringStop = FALSE
  None = None
INVARIANTS
  ScheduleAfterReleaseIsIdempotent
CHECK_DEADLOCK FALSE
