SPECIFICATION PossessionsSpec
CONSTANTS
  Players = {p1, p2}
  Items = {i1, i2}
  None = None
  Packet = 1
  MaxMoves = 2
  MaxFailures = 1
  Initial <- InitialPlaces
  MaxCrashes = 1
  MaxSessions = 3
  Somebody = Somebody
  Ground = Ground
  Tiles = {x1, x2}
  Boxes = {b1, b2}
  MaxItemCount = 2
  Capacity = 2
  MaxLoad = 5
  MaxWorth = 3
SYMMETRY Symmetry
INVARIANTS StoreInv ItemsInv
PROPERTIES SavesAreWhole OffersAreAsShown
CHECK_DEADLOCK FALSE
