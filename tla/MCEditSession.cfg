SPECIFICATION Spec
CONSTANTS
  Texts = {0, 1}
  Others = {1}
  Editors = {"text", "document"}
  TypesEarly = TRUE
  MaxVersions = 3
  MaxTyped = 1
  MaxSaves = 3
INVARIANTS
  RepliesAwaited
  NothingLost
  BusyOnlyWhileSaving
PROPERTIES
  AcceptedWhenCurrent
  OrderOfSaves
CHECK_DEADLOCK FALSE
