SPECIFICATION Spec
CONSTANTS
  Nodes = {n}
  Layers = 2
  MaxAttempts = 2
  MaxFaults = 0
  MaxCrashes = 0
INVARIANT NeverHalfBuilt
