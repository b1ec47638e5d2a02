CONSTANTS
  MaxExec = 3
  EpochReads = 3
  DryRuns = 1
  MaxLogs = 2
  MaxCrashes = 0
  Modes = {"file"}
SPECIFICATION FairSpec
INVARIANT TypeOK
INVARIANT AttachedToLive
INVARIANT FedFromOwnInput
INVARIANT OneRequestAtATime
INVARIANT CoverageExact
INVARIANT TracedByOwnAp
PROPERTY ImplementsFuzzEpochs
PROPERTY ExecutionsEnd
PROPERTY ExecutionsFed
