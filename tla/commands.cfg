SPECIFICATION Spec
CONSTANTS
  c1 = c1
  c2 = c2
  Conns = {c1, c2}
  NoConn = NoConn
  MaxQueued = 2
  MaxCommands = 3
  MaxTurns = 2
  MaxGen = 2
  MaxEvals = 2
SYMMETRY Interchangeable
CONSTRAINT OneWithTurns
INVARIANTS
  CommandsTypeOK
  RunsOnce
  HandedInOrder
  NoPollIdlesBesideACommand
  StopsNoLaterTurn
CHECK_DEADLOCK FALSE
