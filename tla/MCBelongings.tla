---------------------------- MODULE MCBelongings ----------------------------
(* One player with a hand and one rucksack square.  A tool is made of two *)
(* planks: taking one apart may return one, and repairing one may cost one.*)
EXTENDS Belongings, TLC

CONSTANTS player, plank, tool

MCSizeOf == player :> 2
MCLimits == plank :> 3 @@ tool :> 1
MCMade == tool :> 1
MCReturns == tool :> {<<>>, <<[name |-> plank, count |-> 1]>>}
MCRepairCosts == plank :> {<<>>} @@ tool :> {<<>>, <<[name |-> plank, count |-> 2]>>}
=============================================================================
