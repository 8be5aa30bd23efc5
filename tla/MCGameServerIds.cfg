CONSTANTS
  None = None
  alice = alice
  bob = bob
  Guids = {g1, g2, g3}
  Accounts = {alice}
  FirstFreeId = 1
  MaxReservations = 1
  MaxRucksack = 2
  MaxMints = 1
  MaxReserves = 2
  Early = FALSE
  Overlap = FALSE
SPECIFICATION ServerSpec
INVARIANTS
  IdsAreUnique
