SPECIFICATION OnlineSpec
CONSTANTS
  Players = {a, b, c, d}
  Premium = {a}
  Always = {d}
  MaxPlayers = 2
  NoPlayer = NoPlayer
  MaxEntries = 3
  Protocols = {p1, p2}
  Capacity = 2
  MaxMessages = 3
  MaxLogins = 3
  Tasks = {t1, t2}
  NoTask = NoTask
INVARIANTS PoolInv QueueInv
PROPERTIES LineIsKept ChainServes QueriesEnd
CHECK_DEADLOCK FALSE
