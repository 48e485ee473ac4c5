\* Two schedulers of any phase, one stop, one lost lease, three failed ticks.
SPECIFICATION Spec
CONSTANTS
  Nodes = {n1, n2}
  Period = 2
  Missed = 2
  MaxDelay = 1
  MaxTime = 26
  MaxStops = 1
  MaxLosses = 1
  MaxFailures = 3
SYMMETRY Symmetry
INVARIANTS PingsGoOn UnhealthyIsEarned
PROPERTY OnePingPerInterval
