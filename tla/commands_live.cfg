SPECIFICATION FairSpec
CONSTANTS
  c1 = c1
  c2 = c2
  Conns = {c1}
  NoConn = NoConn
  MaxQueued = 2
  MaxCommands = 2
  MaxTurns = 0
  MaxGen = 2
  MaxEvals = 2
PROPERTIES
  QueueDrains
CHECK_DEADLOCK FALSE
