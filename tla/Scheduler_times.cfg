SPECIFICATION Spec
CONSTANTS
    MaxTasks = 1
    Stored = 1
    Devices = {d1}
    Selections <- Single
    Users = {u1}
    Idents = {i1}
    Books = {}
    Reviews = {}
    Keys = {k1}
    Instants <- Covered
    Zones <- ClockNames
    Offset <- Clocks
    DayLength = 2
    Week = 2
    LookAhead = 5
    Rules <- AnyRule
    Grace = 0
    ReviewLife = 1
    Capacity = 2
    Batch = 2
    MaxTickFailures = 2
    MaxTime = 3
    NoUser = NoUser
    NoIdent = NoIdent
    NoBook = NoBook
    NoKey = NoKey
    d1 = d1
    d2 = d2
    Bounds <- TimesBounds
INVARIANTS
    NoOverlap
    OncePerOccurrence
    NoBurst
    EnabledIsScheduled
PROPERTIES
    PauseHolds
