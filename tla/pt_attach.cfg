CONSTANTS
  MaxExec = 2
  EpochReads = 2
  DryRuns = 1
  MaxLogs = 1
  MaxCrashes = 0
  Modes = {"file"}
SPECIFICATION FairSpec
INVARIANT AttachEnablesPT
