SPECIFICATION Spec
CONSTANTS
    MaxRuns = 2
    Devices = {d1, d2}
    NoDevice = NoDevice
    Users = {u1}
    NoUser = NoUser
    Idents = {i1, i2}
    NoIdent = NoIdent
    Kinds = {"playbook"}
    Workers = 2
    Slots = 1
    QueueCapacity = 3
    MaxCancels = 0
    MaxEdits = 1
    MaxReads = 1
    MaxStops = 0
    MaxFaults = 1
    d1 = d1
    d2 = d2
    i1 = i1
    i2 = i2
    u1 = u1
SYMMETRY Symmetry
INVARIANTS
    TypeOK
    OneRunPerDevice
    DeviceFifo
    LocksBalanced
    QueuedTargetHonoured
