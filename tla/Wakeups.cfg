CONSTANTS
  Sandboxes = {s1, s2}
  Requests = {r1, r2}
  Loop = loop
  Parallel = 1
  Waitings = {0, 1}
  MaxTasks = 1
  MaxRoom = 2
SPECIFICATION FairSpec
INVARIANTS ExclusiveWhileKnown NeverPutAwayInFlight RestoresBounded
PROPERTY ComesToRest
