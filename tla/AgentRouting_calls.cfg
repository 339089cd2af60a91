\* Two connections that may change roles; two calls, or one that anyone answers; results twice.
SPECIFICATION Spec
CONSTANTS
    a = a
    b = b
    c = c
    x = x
    y = y
    d1 = d1
    d2 = d2
    Conns = {a, b}
    Caps = {x}
    CallIds = {d1, d2}
    UniqueIds = TRUE
    RoleChanges = TRUE
    MaxCalls = 2
    Scopes <- MCScopes
    MaxAnswers = 2
    None = None
SYMMETRY SameTwo
INVARIANTS TypeOK RegistryExact AnswerToCaller NoCallForgotten
CHECK_DEADLOCK FALSE
