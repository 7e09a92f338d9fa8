SPECIFICATION Spec
CONSTANTS
  Pids = {1, 2}
  MaxProcesses = 2
  RowLimit = 1
  Births = 2
  MaxTicks = 1
  Changes = 4
INVARIANT
  RowOfOneProcess
CHECK_DEADLOCK FALSE
