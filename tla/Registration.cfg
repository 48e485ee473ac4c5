\* Two tokens, a lease inside the safety budget and one outside it, one registration applied late.
CONSTANTS
    Tokens = {t1, t2}
    Durations = {5, 7}
    AttemptTimeout = 2
    RetryInitial = 1
    RetryMax = 2
    ShutdownMargin = 1
    IntakeTime = 1
    ReleaseTimeout = 1
    DrainDuration = 3
    NoToken = NoToken
    MaxStray = 1
    MaxTime = 7
SPECIFICATION Spec
INVARIANTS
    LeaseIsConservative
    StopsByCutoff
    DrainedIsNotRoutable
