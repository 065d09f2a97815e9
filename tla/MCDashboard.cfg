SPECIFICATION DashFairSpec
CONSTANTS
  Clients <- MCClients
  MaxOpenCalls = 2
  MaxConnections = 2
  EventNo <- MCEventNo
  Level <- MCLevel
  EventLimit = 1
  ThreatLimit = 1
INVARIANTS
  DashTypeOK
  RestingPageIsCurrent
PROPERTY
  DroppedPageComesBack
CHECK_DEADLOCK FALSE
