SPECIFICATION FairSpec
CONSTANTS
    None = None
    Conns <- MCConns
    Creds <- MCCreds
    Versions = {4, 5}
    VERSION = 5
    MaxLines = 3
INVARIANTS
    SameKeys
    NothingRevealed
    LinesOpen
PROPERTIES
    BothWays
    EverythingEnds
CHECK_DEADLOCK FALSE
