SPECIFICATION Spec
CONSTANTS
  PIDs = {p1, p2}
  MaxStarts = 4
SYMMETRY PIDSymmetry
INVARIANTS
  ProcessTypeOK
  SurvivorsAreAnnounced
  NothingOldIsAnnounced
PROPERTIES
  AnnouncedOnce
  ProcImplementsLoop
CHECK_DEADLOCK FALSE
