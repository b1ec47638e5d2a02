SPECIFICATION FairSpec
CONSTANTS
  Regs = {0, 1, 2, 3}
  Order <- MCOrder
  Recorded <- MCRecorded
  ProbeLen = 2
  Styles <- MCStyles
  Values = {0, 1}
  Inputs <- MCInputs
  Writes <- MCWrites
  MaxRestarts = 1
INVARIANTS
  Replays
  RecordedNotLost
PROPERTY FedAfterProbe
CHECK_DEADLOCK FALSE
