SPECIFICATION FairSpec
CONSTANTS
    MaxRuns = 2
    Devices = {d1}
    NoDevice = NoDevice
    Users = {u1}
    NoUser = NoUser
    Idents = {i1}
    NoIdent = NoIdent
    Kinds = {"vlan", "discovery"}
    Workers = 1
    Slots = 1
    QueueCapacity = 3
    MaxCancels = 1
    MaxEdits = 0
    MaxReads = 1
    MaxStops = 1
    MaxFaults = 0
    d1 = d1
    i1 = i1
    u1 = u1
INVARIANTS
    DeviceExclusive
    NeverReplayed
    RowsMatchExecutions
    BarredSendsNothing
PROPERTIES
    EveryRunSettles
    CancelledPendingSettles
    ImplementsLifecycle
