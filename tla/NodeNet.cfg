SPECIFICATION Spec
CONSTANTS
  Ids = {a, b}
  Slots = {1}
  Namespaces = {1, 2, 3, 4}
  Targets = {0, 2}
  Rules = {open}
  Nil = Nil
  Limits <- LimitsNet
SYMMETRY IdSymmetry
INVARIANTS  EgressOwned PoolBlank NothingLeft
