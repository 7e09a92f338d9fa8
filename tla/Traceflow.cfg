SPECIFICATION Spec
CONSTANTS
  Pids = {root, a, b}
  Root = root
  MaxTraced = 2
  Stops = 4
  None = None
INVARIANTS
  PhaseAgrees
  RootStatus
  NoneEscapes
PROPERTIES
  StopsAnswered
  Returns
CHECK_DEADLOCK FALSE
