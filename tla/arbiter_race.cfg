SPECIFICATION Spec
CONSTANTS
    Links = {1, 2, 3}
    RotMod = 6
    Fast = 2
    Prompt = TRUE
    NewProcess = TRUE
    MaxSegs = 2
    MaxTicks = 2
    MaxDowns = 1
    MaxStalls = 1
    MaxRestarts = 0
CHECK_DEADLOCK FALSE
INVARIANTS
    TypeOK
    FollowsLastDecision
PROPERTIES
    BeatenNowNotChosen
