SPECIFICATION Spec
CONSTANTS
    Users = {u1, u2}
    Sources = {a1}
    Threads = {t1, t2}
    SourceLimit = 1
    UserLimit = 2
    Free = Free
    Budgets <- MCBudgets
    MaxWindows = 1
    Devices = {d1, d2}
    Addresses = {ip1, ip2}
    Groups = {g1}
    Stored <- MCStored
    Idents = {i1, i2}
    CacheSize = 1
SYMMETRY Symmetric
INVARIANTS
    AdminRemains
CHECK_DEADLOCK FALSE
