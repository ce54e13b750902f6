SPECIFICATION Spec
CONSTANTS
    Links = {l1, l2}
    Keys = {k1}
    Payloads = {p1, p2}
    RecvWindow = 2
    DedupRing = 2
    SeqMod = 8
    Fanout = 2
    MaxInport = 3
    MaxOutport = 0
    MaxDowns = 1
    FairLinks = {}
    MaxSegs <- MCMaxSegs
    NoPayload = NoPayload
    NoSession = NoSession
CHECK_DEADLOCK FALSE
SYMMETRY Symmetry
INVARIANTS
    TypeOK
    WindowBounded
    NothingHeldBack
    InOrderForward
    NotPoisoned
PROPERTIES
    ImplementsPipe
