SPECIFICATION PartsSpec
CONSTANTS
    Users = {1, 2}
    NoPair = NoPair
    Starters = {1, 2}
    Repeats = TRUE
    Leavers = {2}
    KeygenFails = TRUE
    MaxPairs = 2
    MaxMessages = 2
    MaxLogins = 2
    MaxGenerated = 4
    None = None
    MaxDrawn = 6
    MaxEpoch = 3
    P = 23
    G = 2
    PrivBits = 3
    Bytes = 32
    Sides = {alice, bob}
    Hex = Hex
    MaxHex = 9
    Q = 2
    VERSION = 2
    RandomLen = 2
    ModulusLen = 2
    SeqBytes = 3
    MaxUsername = 3
    BodyBytes <- MCBodyBytes
    TextChars <- MCTextChars
    MaxBytes = 4
    MaxText = 8
    MaxBody = 9
    MaxLine = 7
    MaxLong = 259
CONSTRAINT MCFew
INVARIANTS
    NonceFresh
    OpenedInOrder
    ExponentsMatch
    GroupIsSound
    ConversionsExact
CHECK_DEADLOCK FALSE
