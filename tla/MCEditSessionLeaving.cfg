SPECIFICATION Spec
CONSTANTS
  Texts = {0, 1, 2}
  Others = {1}
  Editors = {"document"}
  TypesEarly = FALSE
  MaxVersions = 3
  MaxTyped = 1
  MaxSaves = 2
INVARIANT
  WarnsOfUnsaved
CHECK_DEADLOCK FALSE
