SPECIFICATION Spec
CONSTANTS
  Devices = {"lo", "disk", "raid"}
  CSees = {"disk", "raid"}
  Interfaces = {"lo"}
  Leaves = {"disk"}
  Stacked = {"raid"}
  Present = {"disk", "raid"}
  Counts = {0, 2}
  Samples = 2
  Events = 4
INVARIANTS
  NeverOverstates
  ShortfallExplained
  StatusTruthful
  LogFaithful
CHECK_DEADLOCK FALSE
