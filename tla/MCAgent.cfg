SPECIFICATION AgentFairSpec
CONSTANTS
  tmpHidden = tmpHidden
  passwd = passwd
  plainFile = plainFile
  Paths <- MCPaths
  Traits <- MCTraits
  LstatAnswers <- MCLstatAnswers
  Observations <- MCObservations
  DetectionEnabled = TRUE
  InsertMayFail = FALSE
  ProcessMonitorEnabled = TRUE
  MaxEvents = 3
  MaxHandlers = 1
INVARIANTS
  AgentTypeOK
  EveryEventReachesEveryListener
  NothingLostBeforeStopEnds
  MonitorsEndBeforeDatabase
PROPERTIES
  PipelineSpec
  SignalEndsTheAgent
CHECK_DEADLOCK FALSE
