CONSTANTS
  player = player
  plank = plank
  tool = tool
  Player = player
  Owners = {player}
  Names = {plank, tool}
  StackSizes = {2}
  Counts = {0}
  SizeOf <- MCSizeOf
  FirstRucksackSlot = 1
  HandSlots = {0}
  DefaultStackLimit = 3
  TableLimits <- MCLimits
  FirstEntityId = 1
  MaxEntityId = 4
  RepairSlot = 0
  DismantleSlot = 1
  Made <- MCMade
  Returns <- MCReturns
  RepairCosts <- MCRepairCosts
  Attachments = {plate, sword}
  Tools = {sword}
  BagSize = 1
  MAIL_ATTACHMENT_SLOTS = 5
  FirstMailId = 1
  MaxMailId = 6
  MailFlags = {"read"}
  Hasty = FALSE
  MaxMessages = 2
  MaxUnwritten = 0
SPECIFICATION PlayerSpec
INVARIANTS
  FloorIsAsAnnounced
  NothingIsForgotten
  RepairsArePaid
  InboxNeverDangles
  UuidsAreUnique
PROPERTIES
  NothingIsDoubled
  StoredMailIsKept
CHECK_DEADLOCK FALSE
