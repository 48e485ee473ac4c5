\* Records expire and the identity is used again.
CONSTANTS
    t1 = t1
    t2 = t2
    l1 = l1
    l2 = l2
    c1 = c1
    c2 = c2
    k1 = k1
    k2 = k2
    s1 = s1
    s2 = s2
    r1 = r1
    d1 = d1
    d2 = d2
    NoToken = NoToken
    NoLease = NoLease
    Tokens = {t1, t2}
    Leases = {l1}
    Calls = {c1}
    Callers = {k1}
    Scanners = {s1}
    Releasers = {}
    Digests = {d1, d2}
    LeaseDuration = 1
    DrainDuration = 1
    ExecutionTimeout = 1
    RecordTTL = 2
    QueueBound = 2
    MaxDeltas = 0
    LastAdmission = 4
    MaxRequests = 2
    MaxEvents = 0
    MaxTime = 4
SYMMETRY CallSymmetry
SPECIFICATION Spec
PROPERTIES
    ImplementsToolCall
