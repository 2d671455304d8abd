SPECIFICATION FairSpec
CONSTANTS
  a = a
  b = b
  c = c
  d = d
  e = e
  Tasks    <- MCTasks
  Needs    <- MCNeeds
  Executed <- MCNoneOf
  corePoolSize0   = 1
  maximumPoolSize = 3
  QueueCapacity   = 3
  None = None
PROPERTY GrowsWhenStuck
CHECK_DEADLOCK FALSE
