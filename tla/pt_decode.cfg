SPECIFICATION Spec
CONSTANTS
    MaxPackets = 3
    MaxCutPackets = 1
    Inputs <- MCInputs
    Bytes <- TraceBytes
    Kinds <- TraceKinds
    Ends <- TraceEnds
INVARIANTS
    TypeOK
    InBuffer
    DecodesStream
PROPERTIES
    ResyncAdvances
    Terminates
CHECK_DEADLOCK FALSE
