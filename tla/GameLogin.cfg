SPECIFICATION FairSpec
CONSTANTS
  Conns = {c1, c2, c3}
  MaxTasks = 3
  None = None
INVARIANTS LoginInv
PROPERTIES ReplacementEnds UsesLife
CHECK_DEADLOCK FALSE
