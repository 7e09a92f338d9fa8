SPECIFICATION SessionSpec
CONSTANTS
  MaxPid = 5
  Self = 3
  Parent = 2
  Users = {"root", "ann", "bob"}
  Root = "root"
  MaxSeen = 4
  MaxTargets = 2
  MaxChanges = 3
INVARIANTS
  SignalsOnlyOwned
  StatusTruthful
CHECK_DEADLOCK FALSE
