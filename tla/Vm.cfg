SPECIFICATION Spec
CONSTANTS
  Vms = {a, b}
  Tags = {t}
  Pages = {1, 2}
  MaxChain = 2
  Warm = warm
  Nil = nil
  MaxWrites = 2
  MaxFaults = 2
  MaxCrashes = 1
  MaxSeeds = 1
  MaxOps = 4
SYMMETRY VmSymmetry
INVARIANTS ImageExact ForkExact BaseCurrent NotLeftPaused StateKept NotOfItTwice
