SPECIFICATION Spec
CONSTANTS
  Players = {a, b, c, d}
  Premium = {a}
  Always = {d}
  MaxPlayers = 2
  NoPlayer = NoPlayer
  MaxEntries = 3
INVARIANT WaitersKeepTheirEntry
