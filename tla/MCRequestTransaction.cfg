SPECIFICATION FairSpec
CONSTANTS
  entity = entity
  channel = channel
  Closers <- MCClosers
INVARIANTS
  ConnectionOwned
  FirstAnswerCounts
PROPERTIES
  DecidedOnce
  ConnectionEnds
  RequestAnswered
CHECK_DEADLOCK FALSE
