SPECIFICATION Spec
CONSTANTS
  Pids = {1, 2, 3}
  MaxProcesses = 2
  RowLimit = 1
  Births = 2
  MaxTicks = 1
  Changes = 5
INVARIANTS
  RateOfOneProcess
  NothingLost
  SurvivorsReported
CHECK_DEADLOCK FALSE
