SPECIFICATION Spec
CONSTANTS
    Users <- MCUsers
    EpochNumbers <- MCEpochNumbers
    KeygenMayFail = TRUE
    MaxKeyPairs = 3
    MaxMessages = 2
    MaxBreaks = 1
    MaxRebuilt = 3
    MaxSentAgain = 2
CONSTRAINT MCFew
INVARIANTS
    NonceFresh
    SessionAgrees
    SessionLockstep
    SessionDecrypts
PROPERTIES
    SessionInOrder
