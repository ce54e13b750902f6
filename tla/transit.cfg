SPECIFICATION Spec
CONSTANTS
    Inports = {i1, i2}
    Outports = {o1}
    Addrs = {1, 2, 3, 4, 5}
    MaxTimers = 2
    None = None
CHECK_DEADLOCK FALSE
INVARIANTS
    TableSound
    RightWay
    OneAttempt
PROPERTIES
    RouteHeals
