\* Two providers that may vanish, a release and a tracker around one dispatched call.
CONSTANTS
    t1 = t1
    t2 = t2
    l1 = l1
    l2 = l2
    c1 = c1
    c2 = c2
    k1 = k1
    k2 = k2
    s1 = s1
    s2 = s2
    r1 = r1
    d1 = d1
    d2 = d2
    NoToken = NoToken
    NoLease = NoLease
    Tokens = {t1}
    Leases = {l1, l2}
    Calls = {c1}
    Callers = {k1}
    Scanners = {s1}
    Releasers = {r1}
    Digests = {d1}
    LeaseDuration = 1
    DrainDuration = 2
    ExecutionTimeout = 2
    RecordTTL = 9
    QueueBound = 2
    MaxDeltas = 0
    LastAdmission = 1
    MaxRequests = 1
    MaxEvents = 0
    MaxTime = 3
SPECIFICATION FairSpec
PROPERTIES
    EveryDispatchEnds
INVARIANTS
    AtMostOneExecution
