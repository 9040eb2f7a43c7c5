SPECIFICATION FairSpec
CONSTANTS
    MaxTasks = 2
    Stored = 2
    Devices = {d1, d2}
    Selections <- Pair
    Users = {u1}
    Idents = {i1}
    Books = {}
    Reviews = {}
    Keys = {k1}
    Instants <- Covered
    Zones <- ClockNames
    Offset <- Clocks
    DayLength = 2
    Week = 2
    LookAhead = 5
    Rules <- Steady
    Grace = 1
    ReviewLife = 1
    Capacity = 3
    Batch = 1
    MaxTickFailures = 2
    MaxTime = 1
    NoUser = NoUser
    NoIdent = NoIdent
    NoBook = NoBook
    NoKey = NoKey
    d1 = d1
    d2 = d2
    Bounds <- QuarantineBounds
INVARIANTS
    TypeOK
    AllOrNone
PROPERTIES
    DueSettles
