SPECIFICATION FairSpec
CONSTANTS
    f1 = f1
    f2 = f2
    alice = alice
    bob = bob
    NoFd = NoFd
    NoName = NoName
    Fds <- MCTwo
    Names <- MCAlice
    MaxOut = 1
    WhoMax = 2
    MaySlow = TRUE
    Requests <- MCComeAndGo
    LastRequests = {}
    MaxRequests = 2
    MaxConnects = 1
    MaxUnread = 1
PROPERTIES
    WantCloseCloses
    DepartedIsDropped
CHECK_DEADLOCK FALSE
