SPECIFICATION Spec
CONSTANTS
  Files = {f1}
  Contents = {"a", "b"}
  Permissions = {"unreadable", "rw"}
  InitialStates <- MCInitialStates
  Jobs = {j1, j2}
  MaxRuns = 2
  MaxChanges = 1
  MaxCrashes = 0
  MaxFailures = 0
SYMMETRY Symmetric
INVARIANT
  DocBaselineIsSnapshot
CHECK_DEADLOCK FALSE
