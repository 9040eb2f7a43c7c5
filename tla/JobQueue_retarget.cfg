SPECIFICATION Spec
CONSTANTS
    MaxRuns = 1
    Devices = {d1}
    NoDevice = NoDevice
    Users = {u1}
    NoUser = NoUser
    Idents = {i1, i2}
    NoIdent = NoIdent
    Kinds = {"vlan"}
    Workers = 2
    Slots = 2
    QueueCapacity = 3
    MaxCancels = 0
    MaxEdits = 1
    MaxReads = 0
    MaxStops = 0
    MaxFaults = 0
    d1 = d1
    u1 = u1
    i1 = i1
    i2 = i2
INVARIANTS
    EveryContactHonoured
