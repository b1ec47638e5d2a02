CONSTANTS
  MaxExec = 3
  EpochReads = 3
  DryRuns = 1
  MaxLogs = 2
  MaxCrashes = 1
  Modes = {"file", "direct"}
SPECIFICATION Spec
INVARIANT AttachedToLive
INVARIANT FedFromOwnInput
PROPERTY ImplementsFuzzEpochs
CHECK_DEADLOCK FALSE
