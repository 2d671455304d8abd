SPECIFICATION FairSpec
CONSTANTS
  a = a
  b = b
  c = c
  d = d
  e = e
  Tasks    <- MCTasks
  Needs    <- MCNeeds
  Executed <- MCSomeOf
  corePoolSize0   = 1
  maximumPoolSize = 3
  QueueCapacity   = 3
  None = None
INVARIANTS
  Bounded
  Watched
PROPERTIES
  AcceptedRuns
CHECK_DEADLOCK FALSE
