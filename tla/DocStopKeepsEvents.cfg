SPECIFICATION AgentSpec
CONSTANTS
  tmpHidden = tmpHidden
  passwd = passwd
  plainFile = plainFile
  Paths <- MCPaths
  Traits <- MCTraits
  LstatAnswers <- MCLstatAnswers
  Observations <- MCObservations
  DetectionEnabled = TRUE
  InsertMayFail = FALSE
  ProcessMonitorEnabled = TRUE
  MaxEvents = 2
  MaxHandlers = 1
INVARIANT
  DocStopKeepsEvents
CHECK_DEADLOCK FALSE
