SPECIFICATION FairSpec
CONSTANTS
    Configured = {c1, c2}
    UnknownKind = {c2}
    Added = {a1}
    Removable = {c1, c2, a1, 1}
    SyncFailures = TRUE
    MaxAccepted = 2
    MaxRpcs = 3
    MayStop = TRUE
CHECK_DEADLOCK FALSE
INVARIANTS
    TypeOK
    ClosedIsHandled
    WantedIsServed
    ReapsOnlyDead
PROPERTIES
    SelfHealing
