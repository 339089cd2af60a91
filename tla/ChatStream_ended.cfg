\* The shortest of each kind of stream that ends, two clients that use their ids again.
SPECIFICATION Spec
CONSTANTS
    Conns = {c1, c2}
    Http = {c2}
    i1 = i1
    i2 = i2
    Ids = {i1}
    Streams <- ShortStreams
    ReuseIds = TRUE
    Word = 16
    MaxRequests = 2
    None = None
PROPERTY EndedIsAnswered
CHECK_DEADLOCK FALSE
