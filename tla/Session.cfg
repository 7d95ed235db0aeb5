SPECIFICATION Spec
\* A tab that was left may stay away.
CHECK_DEADLOCK FALSE
CONSTANTS
    Keys = {"k1", "k2"}
    OldKeys = {"k1"}
    Tokens <- MCTokens
    TokenKey <- MCTokenKey
    NoToken = NoToken
    Requests <- MCRequests
    CacheTime = 2
    Cooldown = 2
    TokenUser <- MCTokenUser
    Users = {"u1", "u2"}
    Nobody = Nobody
    NoState = NoState
    MaxSignIns = 2
    MaxLoads = 3
    MaxEpoch = 2
INVARIANTS
    SessionTypeOK
    ProfileIsTheTokens
    SignedOutStaysOut
PROPERTIES
    RejectionsAreJustified
    CodeIsSentOnce
    LoadingEnds
