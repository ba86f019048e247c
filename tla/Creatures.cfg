SPECIFICATION Spec
CONSTANTS
  Players = {p}
  Monsters = {m, n}
  None = None
  Places = {x, y}
  MaxSummons = 1
  MaxDying = 1
SYMMETRY Symmetry
INVARIANT CreaturesInv
PROPERTY RemovedStayRemoved
CHECK_DEADLOCK FALSE
