SPECIFICATION ThreadsSpec
CONSTANTS
    Users <- MCUsers
    EpochNumbers <- MCEpochNumbers
    RepeatStart = FALSE
    LongMessages <- MCShort
    MaxKeyPairs = 2
    MaxMessages = 0
INVARIANTS
    NeverDiverge
