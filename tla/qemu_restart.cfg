CONSTANTS
  MaxExec = 3
  EpochReads = 2
  DryRuns = 0
  MaxLogs = 1
  MaxCrashes = 1
  Modes = {"file"}
SPECIFICATION FairSpec
PROPERTY RestartResumes
