SPECIFICATION Spec
CONSTANTS
    Sids = {1}
    Scripts <- MCScripts
    Answers <- MCAnswers
CHECK_DEADLOCK FALSE
INVARIANTS
    TargetStream
    ClientStream
    NoHalfOpen
PROPERTIES
    Answered
    EndReachesOther
