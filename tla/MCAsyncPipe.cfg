SPECIFICATION FairSpec
CONSTANTS
  Capacity <- MCCapacity
  Length   <- MCLength
INVARIANTS
  ResumePending
  NoStandoff
PROPERTIES
  BodyDelivered
  SuspensionEnds
  BodyEnds
CHECK_DEADLOCK FALSE
