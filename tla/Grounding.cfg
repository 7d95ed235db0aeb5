SPECIFICATION Spec
CONSTANTS
    Callers <- MCCallers
    Chunks <- MCChunks
    ChunkOrg <- MCOrg
    ChunkLevel <- MCLevel
    ChunkLength <- MCLength
    Controls = {c1, c2, c3}
    Invented = c0
    Header = 3
    Separator = 2
    MaxContext = 20
    TopK = 3
    MaxIndex = 4
    MaxTrusted = 3
    MaxControls = 2
    MaxEvidence = 1
    MaxFindings = 2
    MaxReply = 2
INVARIANTS
    GroundingTypeOK
    ContextFits
    EvidenceIsVisible
    CitationsAreShown
    PassIsGrounded
    EstimatesReachReview
