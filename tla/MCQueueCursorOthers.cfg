SPECIFICATION FairSpec
CONSTANTS
  r1 = r1
  r2 = r2
  Readers <- MCBoth
  Length   = 3
  Capacity = 2
PROPERTY BackForOthers
CHECK_DEADLOCK FALSE
