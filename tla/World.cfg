SPECIFICATION WorldSpec
CONSTANTS
  Blocks <- TwoBlocks
  Delay <- Delays
  RateSpawn = 1
  Monsters <- SixMonsters
  MaxLosses = 2
  MaxRefusals = 1
  Names = {once, often}
  Repeats = {often}
  Length <- Lengths
  NoRaid = NoRaid
  MaxReloads = 1
INVARIANTS WorldInv
PROPERTIES WorldGoesOn
CHECK_DEADLOCK FALSE
