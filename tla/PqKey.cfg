SPECIFICATION KeySpec
CONSTANTS
  Runners = {"c", "python"}
  Budget = 2
  MaxOutput = 4
  PipeCap = 2
  Changes = 1
INVARIANTS
  NeverSignalsStranger
  SuccessIsComplete
  FailureHasCause
  NothingLeftBehind
  NeverOverwrites
  KeyPairWhole
PROPERTY
  ProgramEnds
CHECK_DEADLOCK FALSE
