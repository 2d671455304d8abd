SPECIFICATION Spec
CONSTANTS
  Capacity = 2
  Length   = 3
PROPERTY NothingAfterClose
CHECK_DEADLOCK FALSE
