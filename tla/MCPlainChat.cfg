SPECIFICATION FairSpec
CONSTANTS
    f1 = f1
    f2 = f2
    alice = alice
    bob = bob
    NoFd = NoFd
    NoName = NoName
    Fds <- MCTwo
    Names <- MCNames
    Strangers <- MCStranger
    StrangeVerbs <- MCVerbs
    Rooms = {1, 2}
    SocketRoom = 1
    MaxOut = 2
    MaxMessages = 1
    MaxAsks = 2
    MaxRuns = 1
INVARIANTS
    AdmittedIsRegistered
    NewsAgree
PROPERTIES
    ServiceSpec
    EveryoneIsServed
CHECK_DEADLOCK FALSE
