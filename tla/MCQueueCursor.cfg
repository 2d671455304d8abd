SPECIFICATION FairSpec
CONSTANTS
  r1 = r1
  r2 = r2
  Readers <- MCBoth
  Length   = 3
  Capacity = 2
INVARIANTS
  NoStandoff
PROPERTIES
  DocumentDelivered
  CloseEndsParser
  ReadEnds
CHECK_DEADLOCK FALSE
