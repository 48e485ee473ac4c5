\* Three policies, eight kinds of plans, two clients, a budget of one tick, and a
\* pause request or an answer that is given twice.
SPECIFICATION FairSpec
CONSTANTS
    Plans <- MCPlans
    Policies <- MCPolicies
    Results = {"ok", "noted", "missing", "unknown"}
    Clients = {c1, c2}
    MaxToolCalls = 2
    MaxRecoveryTurns = 1
    TimeBudget = 1
    None = None
    MaxTurns = 3
    MaxTime = 1
    MaxSignals = 1
INVARIANTS
    ToolCapHolds
    UnknownIsFinal
    GatedIsApproved
    PreflightedIsAccepted
    PlannerSeesRunning
    NoWorkInGrace
    AwaitsAreFree
PROPERTIES
    RunEnds
CHECK_DEADLOCK FALSE
