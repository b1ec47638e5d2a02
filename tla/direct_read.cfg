CONSTANTS
  MaxExec = 2
  EpochReads = 2
  DryRuns = 0
  MaxLogs = 1
  MaxCrashes = 0
  Modes = {"direct"}
SPECIFICATION FairSpec
PROPERTY DirectReadReturns
CHECK_DEADLOCK FALSE
