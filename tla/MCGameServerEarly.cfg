CONSTANTS
  None = None
  alice = alice
  bob = bob
  Guids = {g1, g2}
  Accounts = {alice}
  FirstFreeId = 1
  MaxReservations = 1
  MaxRucksack = 2
  MaxMints = 3
  MaxReserves = 2
  Early = TRUE
  Overlap = FALSE
SPECIFICATION ServerSpec
PROPERTIES
  RecordErasesNothing
