SPECIFICATION Spec
CONSTANTS
    Traffic = {"lan", "dmz", "mgmt"}
    MgmtPath = {"mgmt"}
    AnySource = {}
    OddPort = {}
    OtherAcls = {"std"}
    MaxItems = 2
    Reviews = {r1, r2}
    Users = {u1}
    Idents = {i1, i2}
    Platforms = {"mikrotik", "cisco"}
    Requests <- MCRequests
    Initial <- MCInitial
    Edits <- MCEdits
    MaxClaims = 2
    MaxEvents = 4
    r1 = r1
    r2 = r2
    i1 = i1
    i2 = i2
    u1 = u1
SYMMETRY Symmetric
INVARIANTS
    TypeOK
    AppliedOnce
    ShownAsHappened
    RecoveryRestores
PROPERTIES
    SentAsReviewed
CHECK_DEADLOCK FALSE
