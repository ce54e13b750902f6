SPECIFICATION FairSpec
CONSTANTS
    Links = {1, 2, 3, 4}
    RotMod = 12
PROPERTIES
    CopiesOnDistinctLinks
    EveryLinkProbed
