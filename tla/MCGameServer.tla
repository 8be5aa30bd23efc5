---------------------------- MODULE MCGameServer ----------------------------
(* Two or three connections of one or two accounts.  Connections, and      *)
(* accounts, differ in nothing but their names.                            *)
EXTENDS GameServer, TLC

CONSTANTS alice, bob

MCSymmetry == Permutations(Guids) \cup Permutations(Accounts)
=============================================================================
