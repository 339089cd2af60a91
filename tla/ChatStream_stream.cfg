\* Any server, two requests of one client, ids not used again.
SPECIFICATION Spec
CONSTANTS
    Conns = {c1}
    Http = {}
    i1 = i1
    i2 = i2
    Ids = {i1, i2}
    Streams <- AnyStreams
    ReuseIds = FALSE
    Word = 16
    MaxRequests = 2
    None = None
SYMMETRY SameIds
INVARIANTS TypeOK CancelQuiets InFlightCancellable
CHECK_DEADLOCK FALSE
