SPECIFICATION FairSpec
CONSTANTS
  Nodes = {n}
  Layers = 2
  MaxAttempts = 2
  MaxFaults = 2
  MaxCrashes = 2
INVARIANTS InstalledWhole ReadyIsInstalled
PROPERTIES FailedStays Settles
