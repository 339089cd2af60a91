\* Two executors, with the tool or without, and clients, that may change roles.
SPECIFICATION Spec
CONSTANTS
    a = a
    b = b
    x = x
    y = y
    k1 = k1
    k2 = k2
    k3 = k3
    Conns = {a, b}
    Tools = {x}
    Keys = {k1, k2}
    UniqueKeys = TRUE
    RoleChanges = TRUE
    MaxCalls = 2
    Scopes <- MCScopes
    MaxAnswers = 2
    MaxRegister = 2
    None = None
SYMMETRY SameTwo
INVARIANTS TypeOK OfferedByExecutor ResultToSender EvenShare
CHECK_DEADLOCK FALSE
