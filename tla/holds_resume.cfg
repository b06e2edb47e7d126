SPECIFICATION Spec
CONSTANTS
  e1 = e1
  e2 = e2
  p1 = p1
  p2 = p2
  c1 = c1
  c2 = c2
  c3 = c3
  NoEval = NoEval
  Evals = {e1, e2}
  Pids = {p1, p2}
  PidOf <- TwoProcesses
  Born <- Ages
  Ids = {1}
  IsQuestion <- Permissions
  Gates <- Watched
  Conns = {c1, c2}
  MaxGen = 2
  MaxHolds = 2
SYMMETRY Interchangeable
INVARIANTS
  OneFate
  NothingParkedInVain
PROPERTIES
  EveryCallEndsOnce
CHECK_DEADLOCK FALSE
