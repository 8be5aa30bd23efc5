CONSTANTS
  player = player
  plank = plank
  tool = tool
  Player = player
  Owners = {player}
  Names = {plank, tool}
  StackSizes = {2}
  Counts = {0}
  SizeOf <- MCSizeOf
  FirstRucksackSlot = 1
  HandSlots = {0}
  DefaultStackLimit = 3
  TableLimits <- MCLimits
  FirstEntityId = 1
  MaxEntityId = 4
  RepairSlot = 0
  DismantleSlot = 1
  Made <- MCMade
  Returns <- MCReturns
  RepairCosts <- MCRepairCosts
SPECIFICATION BSpec
PROPERTIES
  PartialFitsLoseNothing
CHECK_DEADLOCK FALSE
