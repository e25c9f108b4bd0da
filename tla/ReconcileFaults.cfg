CONSTANTS
  Sandboxes = {s1, s2}
  MaxFailures = 2
  Limits <- LimitsFaults
SPECIFICATION Spec
INVARIANTS TypeOK NoLostWake NeverOfferedEarly CreatesUnlessRaced DestroysUnlessReused QuarantineEarned
SYMMETRY SandboxSymmetry
