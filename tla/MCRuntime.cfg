CONSTANTS
  alice = alice
  bob = bob
  rucksack = rucksack
  block = block
  photo = photo
  WebThreads = {web}
  GameThreads = {game}
  Accounts = {alice}
  Characters = {c1}
  Documents = {rucksack, photo}
  Photos = {photo}
  Values = {v1, v2}
  OwnerOf <- MCOwnerOf
  World = World
  None = None
  MaxChanges = 4
  MaxFailures = 1
  Conns = {"a", "b", "c", "d"}
  Settled = {"b", "c", "d"}
  Talkers = {"a", "b"}
  Leavers = {"c"}
  Channels = {"global"}
  Items = {"Dirt"}
  Typos = {}
  MaxLines = 1
  Nobody = "nobody"
  log = log
  plank = plank
  torch = torch
  table = table
  hands = hands
  anvil = anvil
  Hand = Hand
  Anvil = Anvil
  Goods = {log, plank}
  Recipes = {torch, table}
  Needs <- MCNeeds
  Makes <- MCMakes
  StationOf <- MCStationOf
  Stations = {hands, anvil}
  KindOf <- MCKindOf
  HAND_CRAFTING = Hand
  MaxSlots <- MCMaxSlots
  Duration <- MCDuration
  COLLECT_GRACE = 1
  Pockets = 2
  Bundles = {1, 2}
  MaxClock = 5
  MaxFinds = 6
SPECIFICATION RuntimeSpec
INVARIANTS
  DocumentsSettle
  OneOrderForAll
  CraftingBooksBalance
PROPERTIES
  Drains
  SaidIsHeard
  FinishedCraftsAreAnnounced
CHECK_DEADLOCK FALSE
