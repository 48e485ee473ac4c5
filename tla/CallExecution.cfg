\* One identity and two callers that race, time out and retry, during a rollout.
CONSTANTS
    t1 = t1
    t2 = t2
    l1 = l1
    l2 = l2
    c1 = c1
    c2 = c2
    k1 = k1
    k2 = k2
    s1 = s1
    s2 = s2
    r1 = r1
    d1 = d1
    d2 = d2
    NoToken = NoToken
    NoLease = NoLease
    Tokens = {t1, t2}
    Leases = {l1}
    Calls = {c1}
    Callers = {k1, k2}
    Scanners = {}
    Releasers = {}
    Digests = {d1, d2}
    LeaseDuration = 1
    DrainDuration = 1
    ExecutionTimeout = 1
    RecordTTL = 9
    QueueBound = 2
    MaxDeltas = 0
    LastAdmission = 2
    MaxRequests = 3
    MaxEvents = 0
    MaxTime = 2
SYMMETRY CallSymmetry
SPECIFICATION Spec
INVARIANTS
    AttachAccepts
    QueueIsBounded
