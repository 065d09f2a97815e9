SPECIFICATION Spec
CONSTANTS
  Files = {f1, f2}
  Contents = {"a", "b"}
  Permissions = {"unreadable", "rw"}
  InitialStates <- MCInitialStates
  Jobs = {j1, j2}
  MaxRuns = 3
  MaxChanges = 1
  MaxCrashes = 1
  MaxFailures = 1
SYMMETRY Symmetric
INVARIANTS
  BaselineTypeOK
  NoFalseAlarm
PROPERTY
  CheckIsRight
CHECK_DEADLOCK FALSE
