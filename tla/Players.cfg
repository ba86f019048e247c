CONSTANTS
  Players = {p1, p2, p3}
  Parties = {P1, P2}
  Levels = {8, 13}
  Places = {0, 31}
  None = None
  Items = {box, bag, coin}
  Containers = {box, bag}
  Stackable = {coin}
  Squares <- LineSquares
  NoPlayer = NoPlayer
  NoItem = NoItem
  Gone = Gone
SPECIFICATION PlayersSpec
INVARIANTS PartyInv TradeInv
PROPERTIES PartySurvives ExchangeIsMutual
SYMMETRY Sym
CHECK_DEADLOCK FALSE
