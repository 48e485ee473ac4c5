\* Two calls and a ping for one worker and a queue of one, with every goroutine fair.
CONSTANTS
    Calls = {c1, c2}
    Pings = {p1}
    Workers = {w1}
    MaxQueued = 1
    MaxDeliveries = 1
    NoEvent = NoEvent
SPECIFICATION FairSpec
INVARIANTS
    ReleasedIsSettled
    NoSendOnClosed
    AckedIsDecided
    ReturnsQuiet
PROPERTIES
    PingsAreAnswered
    StopIsCompleted
