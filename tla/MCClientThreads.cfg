SPECIFICATION FairThreads
CONSTANTS
    Users <- MCUsers
    EpochNumbers <- MCEpochNumbers
    RepeatStart = FALSE
    LongMessages <- MCAnyLength
    MaxKeyPairs = 2
    MaxMessages = 1
INVARIANTS
    RecordsInOrder
PROPERTIES
    KeySpec
    HandshakeCompletes
    RotationEnds
    PreviousKeyRetires
