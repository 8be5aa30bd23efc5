CONSTANTS
  alice = alice
  bob = bob
  rucksack = rucksack
  block = block
  photo = photo
  WebThreads = {web}
  GameThreads = {game}
  Accounts = {alice, bob}
  Characters = {c1, c2}
  Documents = {rucksack, block}
  Photos = {}
  Values = {v1, v2}
  OwnerOf <- MCOwnerOf
  World = World
  None = None
  MaxChanges = 4
  MaxFailures = 0
SPECIFICATION Spec
INVARIANTS
  CharactersSettle
