SPECIFICATION Spec
CONSTANTS
    MaxTasks = 1
    Stored = 1
    Devices = {d1}
    Selections <- Single
    Users = {u1}
    Idents = {i1}
    Books = {b1, b2}
    Reviews = {r1, r2}
    Keys = {k1}
    Instants <- Covered
    Zones <- ClockNames
    Offset <- Clocks
    DayLength = 2
    Week = 2
    LookAhead = 5
    Rules <- Late
    Grace = 1
    ReviewLife = 1
    Capacity = 2
    Batch = 2
    MaxTickFailures = 2
    MaxTime = 0
    NoUser = NoUser
    NoIdent = NoIdent
    NoBook = NoBook
    NoKey = NoKey
    d1 = d1
    d2 = d2
    Bounds <- AccessBounds
SYMMETRY Symmetry
INVARIANTS
    BarredRunsAreRefused
PROPERTIES
    NoLostEdit
