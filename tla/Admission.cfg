SPECIFICATION FairSpec
CONSTANTS
    Work = {w1, w2, w3}
    NoOne = NoOne
    NumSlots = 2
    Lease = 3
    Timeout = 2
    RateLimit = 2
    Window = 2
INVARIANTS
    AdmissionTypeOK
    SlotIsKept
PROPERTIES
    ImplementsSemaphore
    CapacityReturns
