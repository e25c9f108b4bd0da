CONSTANTS
  Nodes = {a, b}
  Listening = {a, b}
  Tags = {t}
  Calls = {c1, c2}
  Children = {s1}
  Pieces = {p1, p2}
  Nil = nil
  MaxFaults = 2
SPECIFICATION FairSpec
INVARIANTS TagKept ForkWhole
PROPERTY OrphansGo
