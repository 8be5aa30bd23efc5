------------------------------ MODULE MCClient ------------------------------
(* Sessions and what a client is told, in four parts that share no state;  *)
(* one of them runs. "sync": the inventories, a player with a hand and two *)
(* rucksack squares and a chest with one of each. "hud": hotbar, hearts,   *)
(* tasks and toasts. "wire": one packet of either side at a time. "loop":  *)
(* the game loop with two connections of two accounts.                     *)
EXTENDS InventorySync, Hud, Wire, GameServer

CONSTANTS player, chest, dirt, sword, alice, bob

VARIABLE part

MCSizeOf == player :> 3 @@ chest :> 2
MCTableLimits == dirt :> 3
MCBars == {EmptyBar, [EmptyBar EXCEPT ![<<0, 0>>] = "Pick"]}

ClientInit ==
  /\ part \in {"sync", "hud", "wire", "loop"}
  /\ SyncInit /\ HudInit /\ WireInit /\ ServerInit
  /\ part # "hud" => carries /\ stored_bar = EmptyBar

ClientNext ==
  /\ UNCHANGED part
  /\ \/ part = "sync" /\ SyncNext /\ UNCHANGED <<hud_vars, wire_vars, server_vars>>
     \/ part = "hud" /\ HudNext /\ UNCHANGED <<syncVars, wire_vars, server_vars>>
     \/ part = "wire" /\ WireNext /\ UNCHANGED <<syncVars, hud_vars, server_vars>>
     \/ part = "loop" /\ ServerNext /\ UNCHANGED <<syncVars, hud_vars, wire_vars>>

ClientSpec ==
  ClientInit /\ [][ClientNext]_<<part, syncVars, hud_vars, wire_vars, server_vars>>
=============================================================================
