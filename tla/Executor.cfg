\* Two overlapping attempts of one call, and one of an unknown tool.
CONSTANTS
    a1 = a1
    a2 = a2
    a3 = a3
    c1 = c1
    c2 = c2
    Calls = {c1, c2}
    Routable = {c1}
    Leases = {l1}
    NoLease = NoLease
    Unknown = Unknown
    Stale = Stale
    Attempts = {a1, a2, a3}
    CallOf <- TwoOfOne
    MaxEvents = 3
SPECIFICATION FairSpec
INVARIANTS
    InvitationIsSettled
    ResultIsOfThisCall
PROPERTY
    AttemptsEnd
