CONSTANTS
  Nodes = {a, b}
  Tokens = {k1, k2}
  Sandboxes = {s1, s2, s3}
  Tags = {t}
  Pool = pool
  Engines = {runsc, fc}
  Builds = {1, 2}
  Cap = 1
  MaxIndex = 1
  Ports = 1
  Nil = nil
  Limits <- LimitsFleet
SPECIFICATION Spec
INVARIANTS PoolsPure SlotsDistinct BackendHonoured NothingStranded
SYMMETRY Interchangeable
