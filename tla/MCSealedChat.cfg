SPECIFICATION Spec
CONSTANTS
    Clients = {alice, bob}
    NoClient = NoClient
    Victims = {alice}
    Strangers = {alice, bob}
    Names = {A, B}
    NoName = NoName
    NoKeys = NoKeys
    NoPub = NoPub
    Tamper = TRUE
    KeygenFails = TRUE
    WhoMax = 1
    MaxLines = 1
    MaxJunk = 2
INVARIANTS
    FingerprintsTell
    LinesInStep
PROPERTIES
    ServiceSpec
CHECK_DEADLOCK FALSE
