CONSTANTS
  MaxOutbox = 1
  player = player
  chest = chest
  dirt = dirt
  sword = sword
  Owners = {player, chest}
  Names = {dirt}
  StackSizes = {2}
  Counts = {0, 1}
  SizeOf <- MCSizeOf
  FirstRucksackSlot = 1
  HandSlots = {0}
  DefaultStackLimit = 3
  TableLimits <- MCTableLimits
  FirstEntityId = 1
  MaxEntityId = 2
  Goods = {"Pick"}
  Unbound = "unbound"
  Squares = {0, 1}
  Hands = {0}
  PLAYER_HEALTH = 3
  FALL_DAMAGE = 2
  TASK_LIST_DEFAULT = 2
  StoredBars <- MCBars
  MaxAsks = 3
  MaxJoins = 2
  MAX_SHORT_STRING = 3
  TaskListDefault = 2
  MaxCut = 6
  None = None
  alice = alice
  bob = bob
  Guids = {g1, g2}
  Accounts = {alice, bob}
  FirstFreeId = 1
  MaxReservations = 1
  MaxRucksack = 2
  MaxMints = 2
  MaxReserves = 2
  Early = FALSE
  Overlap = FALSE
SPECIFICATION ClientSpec
INVARIANTS
  ClientNeverDangles
  ClientCatchesUp
  ScreenIsRight
  ShownOnce
  BarErasesNothing
  ReadsAsWritten
  NothingIsMadeUp
  MintedOnce
  RecordIsCurrent
  PlayersAreServed
PROPERTIES
  RecordErasesNothing
CHECK_DEADLOCK FALSE
