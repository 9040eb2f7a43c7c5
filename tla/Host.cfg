SPECIFICATION Spec
CONSTANTS
    Keys = {k1, k2}
    NoKey = NoKey
    Torn = Torn
    Items = {i1, i2}
    Nothing = Nothing
    Attempts = 2
    MaxInstalls = 2
    MaxKills = 2
    MaxCommands = 2
    k1 = k1
    k2 = k2
    i1 = i1
    i2 = i2
SYMMETRY Symmetry
INVARIANTS
    TypeOK
    OriginalKept
    NoPlaintextLeft
    NothingLost
PROPERTIES
    PreviousRestored
CHECK_DEADLOCK FALSE
