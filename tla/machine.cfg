SPECIFICATION Spec
CONSTANTS
    Configs <- MCConfigs
    Chans <- MCChans
    Default <- MCDefault
    None = None
    Short = Short
    Foreign = Foreign
INVARIANTS
    AllOrNothing
    NeverOlder
    
