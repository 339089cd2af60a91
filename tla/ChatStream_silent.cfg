\* A stream that ends without [DONE].
SPECIFICATION Spec
CONSTANTS
    Conns = {c1}
    Http = {}
    i1 = i1
    i2 = i2
    Ids = {i1}
    Streams <- SilentStreams
    ReuseIds = FALSE
    Word = 16
    MaxRequests = 1
    None = None
PROPERTIES EndedIsAnswered
CHECK_DEADLOCK FALSE
