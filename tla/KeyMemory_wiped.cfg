CONSTANTS
    None = None
    MaxDrawn = 6
    MaxEpoch = 3

SPECIFICATION Spec

INVARIANTS
    OldKeyIsWiped

CHECK_DEADLOCK FALSE
