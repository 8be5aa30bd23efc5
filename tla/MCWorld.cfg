CONSTANTS
  None = None
  Home = Home
  Guids = {g1, g2, g3}
  Adventures = {Away}
  HomeWorlds = {Home}
  Seeded = {sheep}
  Things = {e1}
  MaxHealth = 3
  Strengths = {2}
  Players = {p1, p2}
  CHUNK_SIZE = 2
  WORD = 64
  soil = soil
  anvil = anvil
  air = air
  Ground <- MCGround
  Soil = {soil}
  Bare = {}
  AIR = air
  Fixings = {anvil}
  LootChest = 99
  Nothing = 0
  DIG_TICKS_TO_BREAK = 2
  Loads <- MCLoads
  MaxChanges = 2
  MaxRestarts = 1
SPECIFICATION WorldSpec
INVARIANTS
  PlayersSeeEachOther
  WorldIsSeen
  IslandIsWrittenDown
  NoBlockIsHadTwice
PROPERTIES
  DeathIsSeen
  OneKeyOpens
SYMMETRY MCSymmetry
CHECK_DEADLOCK FALSE
