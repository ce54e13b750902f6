SPECIFICATION Spec
CONSTANTS
    Links = {1}
    RotMod = 1
    Fast = 0
    Prompt = FALSE
    NewProcess = TRUE
    MaxSegs = 3
    MaxTicks = 3
    MaxDowns = 1
    MaxStalls = 1
    MaxRestarts = 2
CHECK_DEADLOCK FALSE
INVARIANTS
    EpochSound
