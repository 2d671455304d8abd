SPECIFICATION FairSpec
CONSTANTS
  x = x
  Last = 2
  Items <- MCItems
  DataKinds <- MCDataKinds
  MinRecent = 1
  MaxRecent = 2
  MaxOpen = 2
  MaxTxns = 3
  MaxUnended = 1
  MaxStarts = 1
  Stalls = {"waits", "ended"}
INVARIANTS
  FlaggedIsTracked
  RecentBounded
  Generated
PROPERTIES
  OnlyRemovedLeaves
  MinimumKept
  ObsoletePurged
CHECK_DEADLOCK FALSE
