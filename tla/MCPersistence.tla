--------------------------- MODULE MCPersistence ---------------------------
(* Two accounts, two characters to choose from, a rucksack of the first    *)
(* account, a block of the world and a photo.                              *)
EXTENDS Persistence

CONSTANTS alice, bob, rucksack, block, photo

MCOwnerOf == [d \in Documents |-> IF d = rucksack THEN alice ELSE World]
=============================================================================
