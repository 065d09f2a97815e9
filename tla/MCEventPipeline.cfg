SPECIFICATION PipelineFairSpec
CONSTANTS
  tmpHidden = tmpHidden
  passwd = passwd
  Paths <- MCPaths
  Traits <- MCTraits
  LstatAnswers <- MCLstatAnswers
  Observations <- MCObservations
  DetectionEnabled = TRUE
  MaxEvents = 3
  InsertMayFail = TRUE
INVARIANTS
  PipelineTypeOK
  EveryHeardEventAccounted
  AlertsAreBacked
  QuietMeansAlerted
  EchoesDropTheChange
PROPERTIES
  EveryHeardEventEndsRecorded
  EveryThreatIsReported
CHECK_DEADLOCK FALSE
