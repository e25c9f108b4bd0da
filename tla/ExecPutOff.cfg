SPECIFICATION Spec
CONSTANTS
  Sandboxes = {s1}
  Execs = {e1}
  Modes = {"poll", "drive"}
  MaxFailures = 2
  Limits <- LimitsPutOff
INVARIANT NeverPutOff
