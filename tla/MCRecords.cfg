CONSTANTS
  alice = alice
  bob = bob
  rucksack = rucksack
  block = block
  photo = photo
  WebThreads = {main}
  GameThreads = {main}
  Accounts = {alice, bob}
  Characters = {c1, c2}
  Documents = {rucksack, block}
  Photos = {}
  Values = {v1, v2}
  OwnerOf <- MCOwnerOf
  World = World
  None = None
  MaxChanges = 5
  MaxFailures = 0
  Clients = {"ann", "bob"}
  CharacterNames = {"neo"}
  Biomes = {"Desert"}
  Looks = {"tall"}
  Rifts = {"Rift"}
  HomeWorld = "Home"
  DefaultLook = "plain"
  Absent = Absent
  Fixed = FALSE
  MAX_RESERVATIONS = 8
  Orderly = TRUE
  ResetsWhilePlaying = FALSE
  MaxArrivals = 5
  Durables = {pick}
  Stones = {stone}
  Scrolls = {scroll}
  Deeds = {deed}
  Lore = {l1, l2}
  RackSize = 2
  DurabilityMax = 1
  LIFETIME = 2
  HEAD_START = 1
  MaxTime = 1
  MaxSessions = 2
  Kits = {{pick, stone}, {pick, scroll}, {deed}}
  Nobody = Nobody
  Unset = Unset
SPECIFICATION RecordsSpec
INVARIANTS
  ArriveAsThemselves
  ArriveWhereSent
  DetailsFollowTheirStack
PROPERTIES
  FollowsMemory
  StonesExpire
CHECK_DEADLOCK FALSE
