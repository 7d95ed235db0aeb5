SPECIFICATION IngestionFairSpec
CONSTANTS
    Work = {w1, w2}
    NoOne = NoOne
    NumSlots = 2
    Lease = 1
    Timeout = 0
    RateLimit = 2
    Window = 1
    Doc = {d1}
    NoDoc = NoDoc
    OneTransaction = FALSE
    VectorStore = "s3_vectors"
    Content = {"good", "encrypted"}
    MaxUploads = 2
INVARIANTS
    TypeOK
    OneRunPerDocument
    EventsAreTrue
    AbandonedIsReported
PROPERTIES
    ImplementsLifecycle
    UploadsAreSettled
