SPECIFICATION FsSpec
CONSTANTS
  MonitoredPaths <- MCMonitoredPaths
  ExcludedPaths <- MCExcludedPaths
  WorkingDir <- MCWorkingDir
  Paths <- MCPaths
  InitialTrees <- MCInitialTrees
  MaxChanges = 3
  MaxFailures = 0
  QueueCapacity = 2
  WatchLimit = 3
INVARIANT
  DocNewDirectoriesAreWatched
CHECK_DEADLOCK FALSE
