SPECIFICATION FairSpec
CONSTANTS
  Workers = {w1, w2, w3}
  Creatures = {x, y}
  None = None
  MaxSkips = 1
  Prompt = FALSE
PROPERTY SkippedAreHandled
CHECK_DEADLOCK FALSE
