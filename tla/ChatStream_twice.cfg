\* A tool call followed by [DONE], as OpenAI-style servers send it.
SPECIFICATION Spec
CONSTANTS
    Conns = {c1}
    Http = {}
    i1 = i1
    i2 = i2
    Ids = {i1}
    Streams <- ToolStreams
    ReuseIds = FALSE
    Word = 16
    MaxRequests = 1
    None = None
INVARIANTS AnsweredOnce
CHECK_DEADLOCK FALSE
