SPECIFICATION FsFairSpec
CONSTANTS
  MonitoredPaths <- MCMonitoredPaths
  ExcludedPaths <- MCExcludedPaths
  WorkingDir <- MCWorkingDir
  Paths <- MCPaths
  InitialTrees <- MCInitialTrees
  MaxChanges = 3
  MaxFailures = 1
  QueueCapacity = 2
  WatchLimit = 2
INVARIANTS
  FsTypeOK
  BlindSpotsAreKnown
  WatchesAreKept
  EachEventIsPublishedOnce
  ScanFindsEachFile
PROPERTIES
  FsImplementsLoop
  MonitorComesToRest
CHECK_DEADLOCK FALSE
