CONSTANTS
  player = player
  chest = chest
  dirt = dirt
  Owners = {player, chest}
  Names = {dirt}
  StackSizes = {2}
  Counts = {0, 1}
  SizeOf <- MCSizeOf
  FirstRucksackSlot = 1
  HandSlots = {}
  DefaultStackLimit = 3
  TableLimits <- MCTableLimits
  FirstEntityId = 1
  MaxEntityId = 3
SPECIFICATION Spec
INVARIANTS
  TypeOK
  NoDanglingSlot
  NoSharedStack
PROPERTIES
  MovesConserve
  TakeAllIsThorough
