SPECIFICATION FairSpec
CONSTANTS
  jmx = jmx
  console = console
  Clients <- MCClients
  MaxCommands = 4
INVARIANTS
  Settled
  WaitsForThread
PROPERTIES
  OneReactor
  TaskEnds
CHECK_DEADLOCK FALSE
