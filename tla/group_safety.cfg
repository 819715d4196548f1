SPECIFICATION Spec
CONSTANTS
  Contracts = {c1, c2}
  Workers = {w1, w2}
  Clients = {k1, k2}
  Stoppers = {s1}
  MaxGen = 2
  ScheduleAfterReuse = FALSE
  CreateDuringStop = FALSE
  None = None
SYMMETRY Symmetry
INVARIANTS
  TypeOK
  MutualExclusion
  OneTicketPerSchedule
  FreeSlotIsQuiet
  InvokesOwnCallbacks
  TokenNamesLiveContract
  InvalidOnlyAfterErase
  VisitsOnlyWhenAsked
  StopCutsOffReleases
CHECK_DEADLOCK FALSE
