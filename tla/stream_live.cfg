SPECIFICATION FairSpec
CONSTANTS
    Links = {l1, l2}
    Keys = {k1}
    Payloads = {p1}
    RecvWindow = 3
    DedupRing = 20
    SeqMod = 8
    Fanout = 2
    MaxInport = 3
    MaxOutport = 2
    MaxDowns = 0
    FairLinks = {l1}
    MaxSegs <- MCMaxSegs
    NoPayload = NoPayload
    NoSession = NoSession
CHECK_DEADLOCK FALSE
INVARIANTS
    AtMostOnce
    NoLeak
PROPERTIES
    CloseAfterData
    Delivery
