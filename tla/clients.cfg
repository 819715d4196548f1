SPECIFICATION FairSpec
CONSTANTS
  Contracts = {c1, c2, c3}
  Callers = {t1, t2}
  numFiles = 2
  numThreads = 2
  MaxBlocks = 1
  LastValue = 5
  Contract = c1
  Capacity = 2048
  num_threads = 2
  opsPerThread = 3
INVARIANTS
  NamesInnermostRun
  NamedContractIsOurs
  NoneStrandedByExceptions
  JoinedMeansReported
  PassesHaveTheTask
  NothingStranded
  ProcessedInOrder
  EveryoneGetsTheirShare
PROPERTIES
  ProgramsEnd
CHECK_DEADLOCK FALSE
