SPECIFICATION Spec
CONSTANTS
  Players = {a, b}
  Buyers = {a}
  Npcs = {m, n}
  NoNpc = NoNpc
  Premium = {a}
  Guilds = {g, h}
  Ranked = {g}
  Addresses = {x}
  Numbers <- Channel12
  NoGuild = NoGuild
  NoParty = NoParty
  NoChannel = NoChannel
  Owners = {a}
  Halves <- FourHalves
  Partner <- Pairs
  Nobody = Nobody
  NoBed = NoBed
  TargetDistance = 2
  Reach = 2
  Kinds <- ItemKinds
  DecayTime <- BurnTimes
  DecayTo <- Becomes
  StopTime = {"rested"}
  Durations = {1, 7, 12}
  MaxEntries = 2
  Vanish = "vanish"
  NoDecay = "never"
  Gifts <- GivenConditions
  PzTicks = 1
  MaxStep = 2
  MaxDelay = 2
  MaxList = 2
  MaxEvents = 1
  Dealers = {p, w}
  Hunters = {p}
  NoDealer = NoDealer
  MaxHealth = 2
  MaxHit = 1
  Experience = 3
  Poisons <- TwoPoisons
  TickInterval = 2
  RegenTicks = 1
  RegenGain = 1
  Width = 3
  MaxTotal = 2
  MaxTasks = 2
INVARIANTS TalkInv BedsInv FlightInv DecayInv HarmInv
CHECK_DEADLOCK FALSE
