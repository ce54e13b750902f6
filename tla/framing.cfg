SPECIFICATION Spec
CONSTANTS
    verify_crc = TRUE
    Payloads <- MCPayloads
    MaxSegs = 2
    MaxConns = 2
CHECK_DEADLOCK FALSE
INVARIANTS
    CleanFraming
    NothingInvented
