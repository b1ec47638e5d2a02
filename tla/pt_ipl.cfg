SPECIFICATION Spec
CONSTANTS
    MaxPackets = 2
    MaxCutPackets = 0
    Inputs <- MCInputs
    Bytes <- TraceBytes
    Kinds <- TraceKinds
    Ends <- TraceEnds
PROPERTIES
    NoUpdateOnIPLZero
CHECK_DEADLOCK FALSE
