SPECIFICATION Spec
CONSTANTS
  Sandboxes = {s1, s2}
  Execs = {e1}
  Modes = {"poll", "drive"}
  MaxFailures = 2
  Limits <- LimitsMC
INVARIANTS NeverDropped FailuresCounted TrafficKept
PROPERTIES ExecPromise
