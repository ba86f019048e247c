SPECIFICATION FairSpec
CONSTANTS
  Workers = {w1, w2, w3}
  Creatures = {x, y}
  None = None
  MaxSkips = 1
  Prompt = TRUE
INVARIANT FollowInv
PROPERTY NoWaitForEver
CHECK_DEADLOCK FALSE
