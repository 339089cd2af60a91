\* Streams with one [DONE] or a failure, two clients that use their ids again.
SPECIFICATION Spec
CONSTANTS
    Conns = {c1, c2}
    Http = {c2}
    i1 = i1
    i2 = i2
    Ids = {i1}
    Streams <- CleanStreams
    ReuseIds = TRUE
    Word = 16
    MaxRequests = 2
    None = None
INVARIANT GaugeSettles
PROPERTY ImplementsReply
CHECK_DEADLOCK FALSE
