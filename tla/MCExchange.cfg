SPECIFICATION FairSpec
CONSTANTS
  ok = ok
  error = error
  refused = refused
  null = null
  Responses  <- MCResponses
  WithEntity <- MCWithEntity
  None       = null
INVARIANTS
  SubmittedOnce
  NeverWaits
  NothingLeft
  HandedOver
  BodyOf
  PendingIffUnanswered
PROPERTIES
  ResponseIsFinal
  Answered
CHECK_DEADLOCK FALSE
