SPECIFICATION Spec
CONSTANTS
    Clients = {alice, bob}
    NoClient = NoClient
    Strangers = {bob}
    Servers <- MCServers
    Home = "relay"
    Creds <- MCCreds
    Expected = "chatserver.local"
    Names = {A, B}
    NoName = NoName
    None = None
    WhoMax = 1
    KeygenFails = TRUE
    MaxLines = 1
    MaxJunk = 1
    MaxStarts = 2
    MaxTime = 1
CONSTRAINT MCFew
INVARIANTS
    NothingBeforeProof
PROPERTIES
    ServiceSpec
    NobodyJoinsExpired
CHECK_DEADLOCK FALSE
