------------------------------ MODULE MCWorld -------------------------------
(* What players share, in two parts that share no state; one of them runs. *)
(* "entities": three connections, a world portals lead to, a creature the  *)
(* worlds are built with and one thing made later. "island": MCIsland.     *)
(* Connections, and players, differ in nothing but their names.            *)
EXTENDS SharedWorld, MCIsland, TLC

VARIABLE part

WorldInit ==
  /\ part \in {"entities", "island"}
  /\ Init /\ IslandInit
  /\ part # "island" => load = CHOOSE l \in Loads : TRUE

WorldNext ==
  /\ UNCHANGED part
  /\ \/ part = "entities" /\ Next /\ UNCHANGED island_vars
     \/ part = "island" /\ IslandNext /\ UNCHANGED vars

WorldSpec == WorldInit /\ [][WorldNext]_<<part, vars, island_vars>>

MCSymmetry == Permutations(Guids) \cup Permutations(Players)
=============================================================================
