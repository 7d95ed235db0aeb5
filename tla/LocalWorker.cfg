SPECIFICATION FaultlessSpec
CONSTANTS
    Work = {w1}
    NoOne = NoOne
    NumSlots = 1
    Lease = 1
    Timeout = 0
    RateLimit = 1
    Window = 1
    Doc = {d1}
    NoDoc = NoDoc
    OneTransaction = TRUE
    VectorStore = "pgvector"
    Content = {"good"}
    MaxUploads = 1
INVARIANT
    FailureIsRecorded
CHECK_DEADLOCK FALSE
