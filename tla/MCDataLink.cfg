SPECIFICATION Spec
CONSTANTS
    Sizes <- MCSizes
    Block = 2
    MaxBytes = 4
    MaxCalls = 3
    MaxFaults = 2
    MaxStarts = 3
INVARIANTS FrameHasItsType
PROPERTIES ImplementsByteStream CallsEnd
CHECK_DEADLOCK FALSE
