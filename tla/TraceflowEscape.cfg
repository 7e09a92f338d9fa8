SPECIFICATION Spec
CONSTANTS
  Pids = {root, a, b}
  Root = root
  MaxTraced = 3
  Stops = 4
  None = None
INVARIANT FollowsAll
CHECK_DEADLOCK FALSE
