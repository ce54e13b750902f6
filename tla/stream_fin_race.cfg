SPECIFICATION Spec
CONSTANTS
    Links = {l1, l2, l3}
    Keys = {k1}
    Payloads = {p1}
    RecvWindow = 3
    DedupRing = 20
    SeqMod = 8
    Fanout = 2
    MaxInport = 3
    MaxOutport = 1
    MaxDowns = 0
    FairLinks = {}
    MaxSegs <- MCMaxSegs
    NoPayload = NoPayload
    NoSession = NoSession
CHECK_DEADLOCK FALSE
PROPERTIES
    CloseAfterData
