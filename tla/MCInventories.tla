--------------------------- MODULE MCInventories ---------------------------
(* The inventory model on a player and a chest of two squares each, the    *)
(* first of which is worn.  The table lowers the limit from three to one.  *)
EXTENDS Inventories, TLC

CONSTANTS player, chest, dirt

MCSizeOf == player :> 2 @@ chest :> 2
MCTableLimits == dirt :> 1
=============================================================================
