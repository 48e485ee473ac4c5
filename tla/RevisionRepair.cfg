\* Two trackers whose clocks are off by 1, two losses, one restart.
SPECIFICATION Spec
CONSTANTS
  Nodes = {n1, n2}
  Slack = 2
  Epoch = 50
  MaxTicks = 3
  Drift = 1
  MaxLosses = 2
  MaxRestarts = 1
SYMMETRY Symmetry
INVARIANT RepairedIsFollowed
