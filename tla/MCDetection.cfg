SPECIFICATION JudgeSpec
CONSTANTS
  noPath = noPath
  tmpScript = tmpScript
  tmpData = tmpData
  tmpHidden = tmpHidden
  passwd = passwd
  homeFile = homeFile
  plainFile = plainFile
  Paths <- MCPaths
  Traits <- MCTraits
  LstatAnswers <- MCLstatAnswers
INVARIANTS
  ThreatTestsAgree
  AlertNeverScoresHigher
PROPERTY
  SeverityMonotone
