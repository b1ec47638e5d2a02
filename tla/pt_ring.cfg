SPECIFICATION Spec
CONSTANTS
    AuxSize = 3
    DataSlots = 3
    MaxRetry = 2
    MaxBytes = 6
    MaxRecords = 4
INVARIANTS
    DecodesWhatWasTraced
    AbortsOnlyOnOverrun
    RecordsHandledOnce
    SpaceReturned
    OnWhenIdle
PROPERTIES
    RecordsConsumed
    StopsWhenTold
CHECK_DEADLOCK FALSE
