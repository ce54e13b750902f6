SPECIFICATION Spec
CONSTANTS
    TickMod = 12
    Timeout = 3
    Interval = 2
    MaxSilence = 11
CHECK_DEADLOCK FALSE
INVARIANTS
    TypeOK
    DetectedInTime
PROPERTIES
    StallOnlyIfSilent
    StaysStalled
