\* Two racing handlers during a rollout, with pings and late or duplicated pongs.
CONSTANTS
    t1 = t1
    t2 = t2
    l1 = l1
    l2 = l2
    h1 = h1
    h2 = h2
    NoToken = NoToken
    Tokens <- MCTokens
    Leases <- MCLeases
    Handlers <- MCHandlers
    Providers <- Rollout
    Operations = {"register", "drain", "release", "retire", "ping", "pong"}
    LeaseDuration = 1
    DrainDuration = 1
    StalenessThreshold = 2
    MaxTime = 2
    MaxEpoch = 2
SYMMETRY HandlerSymmetry
SPECIFICATION Spec
INVARIANTS
    TypeOK
    DecoderAccepts
    IdentityNeverReused
    PongOfThisMembership
PROPERTIES
    ReplacementIsFenced
    RetirementIsPermanent
    ImplementsAuthority
