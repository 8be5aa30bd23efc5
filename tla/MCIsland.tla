------------------------------ MODULE MCIsland ------------------------------
(* Two players on an island of one column of two voxels, solid and air,    *)
(* who set out with one block or with one device.                          *)
EXTENDS Island

CONSTANTS soil, anvil, air

MCGround == [v \in 0..1 |-> IF v = 0 THEN soil ELSE air]
MCLoads == {[i \in {soil, anvil} |-> IF i = soil THEN 1 ELSE 0],
            [i \in {soil, anvil} |-> IF i = soil THEN 0 ELSE 1]}
=============================================================================
