SPECIFICATION Spec
CONSTANTS
    f1 = f1
    f2 = f2
    alice = alice
    bob = bob
    NoFd = NoFd
    NoName = NoName
    Fds <- MCTwo
    Names <- MCNames
    MaxOut = 1
    WhoMax = 1
    MaySlow = FALSE
    Requests <- MCTalkQuit
    LastRequests <- MCOthers
    MaxRequests = 4
    MaxConnects = 2
    MaxUnread = 2
SYMMETRY MCSymmetry
INVARIANTS
    NamesInverse
    VerdictFirst
    Delivery
    DriftIsOwn
CHECK_DEADLOCK FALSE
