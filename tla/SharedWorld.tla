---------------------------- MODULE SharedWorld ----------------------------
(***************************************************************************)
(* The worlds players share (crates/skysaga-game/src/world.rs), and what   *)
(* each client has been told of the one it is in: the entity burst of its  *)
(* handshake, what others' packets announce, and what the server announces *)
(* of comings and goings.                                                  *)
(*                                                                         *)
(* A session that has something to say to the others puts it in a queue;   *)
(* the queue is emptied after the session's next packet, and only then: a  *)
(* creature that a command spawns waits in it until the player does        *)
(* something.                                                              *)
(*                                                                         *)
(* A player's body is named by the connection.  A drop stands for two      *)
(* entities, the pickup and the stack announced just before it.  Blocks    *)
(* are left out: they are answered to the player who changed them and to   *)
(* nobody else.                                                            *)
(***************************************************************************)
EXTENDS Naturals, FiniteSets

CONSTANTS
  Guids,      \* connections; each is made once
  Home,       \* the home island
  Adventures, \* the worlds portals lead to
  HomeWorlds, \* the worlds that can be given a title
  Seeded,     \* creatures every world is built with
  Things,     \* entities that may be made while the server runs
  MaxHealth,  \* of a creature
  Strengths,  \* what a swing may take off
  None        \* no title

ASSUME SharedWorldAssumption ==
  /\ Home \notin Adventures
  /\ HomeWorlds \subseteq {Home} \cup Adventures
  /\ Guids \cap Seeded = {} /\ Guids \cap Things = {} /\ Seeded \cap Things = {}
  /\ MaxHealth \in Nat \ {0}
  /\ Strengths \subseteq Nat \ {0}
  /\ None \notin Things

Worlds    == {Home} \cup Adventures
Creatures == Seeded \cup Things

VARIABLES
  stage,    \* how far each connection is
  place,    \* the world it was put in
  known,    \* the entities its client holds
  queue,    \* what its session has yet to tell the others of
  devices,  \* per world: what players have put down,
  spawned,  \* the creatures commands have made,
  drops,    \* what lies on the floor,
  damage,   \* what has been taken off each creature,
  dead,     \* the creatures somebody has killed,
  title,    \* and the entity that carries its title
  made      \* the things that have been made: an id is given once

worlds  == <<devices, spawned, drops, damage, dead, title, made>>
vars    == <<stage, place, known, queue, devices, spawned, drops, damage, dead, title,
             made>>

-----------------------------------------------------------------------------
Stages  == {"Connected", "SentWorldInfo", "SentChunks", "SentEntities", "Playing"}
Arrived == {"SentEntities", "Playing"}   \* past the entity burst

Live == {g \in Guids : stage[g] \in Stages}

(* Mutant: whoever is connected, in whatever world. *)
Everybody(g) == Live \ {g}

(* Everyone in the same world as g, without g.                             *)
Neighbours(g) == {h \in Live \ {g} : place[h] = place[g]}

Unused == Things \ made

(* A packet of g has been handled: g's client is sent `mine' and loses     *)
(* `lost'; the others are sent what was queued and `theirs', and lose      *)
(* `gone'.                                                                 *)
Handled(g, mine, lost, theirs, gone) ==
  /\ known' = [h \in Guids |->
       IF h = g THEN (known[h] \cup mine) \ lost
       ELSE IF h \in Neighbours(g) THEN (known[h] \cup queue[g] \cup theirs) \ gone
       ELSE known[h]]
  /\ queue' = [queue EXCEPT ![g] = {}]

-----------------------------------------------------------------------------
(* Connections. *)

(* The server puts a connection in the world its account set off for, or   *)
(* home, and tells everyone there.                                         *)
Connect(g, w) ==
  /\ stage[g] = "none"
  /\ stage' = [stage EXCEPT ![g] = "Connected"]
  /\ place' = [place EXCEPT ![g] = w]
  /\ known' = [h \in Guids |->
       IF h \in Live /\ place[h] = w THEN known[h] \cup {g} ELSE known[h]]
  /\ UNCHANGED queue /\ UNCHANGED worlds

Disconnect(g) ==
  /\ g \in Live
  /\ stage' = [stage EXCEPT ![g] = "gone"]
  /\ known' = [h \in Guids |->
       IF h = g THEN {} ELSE IF h \in Neighbours(g) THEN known[h] \ {g} ELSE known[h]]
  /\ queue' = [queue EXCEPT ![g] = {}]
  /\ UNCHANGED place /\ UNCHANGED worlds

ClientConnected(g) ==
  /\ stage[g] = "Connected" /\ stage' = [stage EXCEPT ![g] = "SentWorldInfo"]
  /\ Handled(g, {}, {}, {}, {})
  /\ UNCHANGED place /\ UNCHANGED worlds

ClientReadyToSync(g) ==
  /\ stage[g] = "SentWorldInfo" /\ stage' = [stage EXCEPT ![g] = "SentChunks"]
  /\ Handled(g, {}, {}, {}, {})
  /\ UNCHANGED place /\ UNCHANGED worlds

(* Mutant: the burst has what the island was built with and who is there.  *)
FrozenBurst(g) == {g} \cup Neighbours(g) \cup Seeded

(* The island as it was built, the players in it, and what there has been  *)
(* since: of the dead, only the creatures commands made are left out.      *)
Burst(g) ==
  LET w == place[g]
  IN  {g} \cup Neighbours(g) \cup Seeded
        \cup ((devices[w] \cup spawned[w]) \ dead[w])
        \cup drops[w] \cup ({title[w]} \ {None})

ClientInitialSyncFinished(g) ==
  /\ stage[g] = "SentChunks" /\ stage' = [stage EXCEPT ![g] = "SentEntities"]
  /\ Handled(g, Burst(g), {}, {}, {})
  /\ UNCHANGED place /\ UNCHANGED worlds

ClientReadyToPlay(g) ==
  /\ stage[g] = "SentEntities" /\ stage' = [stage EXCEPT ![g] = "Playing"]
  /\ Handled(g, {}, {}, {}, {})
  /\ UNCHANGED place /\ UNCHANGED worlds

(* A packet that makes and removes nothing in the world. *)
OtherPacket(g) ==
  /\ g \in Live
  /\ Handled(g, {}, {}, {}, {})
  /\ UNCHANGED <<stage, place>> /\ UNCHANGED worlds

-----------------------------------------------------------------------------
(* What players do to the world. *)

(* A device or a decoration is put down. *)
PlaceEntity(g, e) ==
  /\ g \in Live /\ e \in Unused
  /\ made' = made \cup {e}
  /\ devices' = [devices EXCEPT ![place[g]] = @ \cup {e}]
  /\ Handled(g, {e}, {}, {e}, {})
  /\ UNCHANGED <<stage, place, spawned, drops, damage, dead, title>>

(* A block gives way and leaves something behind. *)
Dig(g, e) ==
  /\ g \in Live /\ e \in Unused
  /\ made' = made \cup {e}
  /\ drops' = [drops EXCEPT ![place[g]] = @ \cup {e}]
  /\ Handled(g, {e}, {}, {e}, {})
  /\ UNCHANGED <<stage, place, devices, spawned, damage, dead, title>>

(* The first to ask has it; the others are not told that it is gone.       *)
CollectPickup(g, e) ==
  /\ g \in Live /\ e \in drops[place[g]]
  /\ drops' = [drops EXCEPT ![place[g]] = @ \ {e}]
  /\ Handled(g, {}, {e}, {}, {})
  /\ UNCHANGED <<stage, place, devices, spawned, damage, dead, title, made>>

(* A title deed is used; the entity that carries the title is made once.   *)
LearnHomeTitle(g) ==
  LET w == place[g]
  IN  /\ g \in Live /\ w \in HomeWorlds
      /\ \/ /\ title[w] = None
            /\ \E e \in Unused :
                 /\ title' = [title EXCEPT ![w] = e]
                 /\ made' = made \cup {e}
                 /\ Handled(g, {e}, {}, {e}, {})
         \/ /\ title[w] # None
            /\ Handled(g, {}, {}, {}, {})
            /\ UNCHANGED <<title, made>>
      /\ UNCHANGED <<stage, place, devices, spawned, drops, damage, dead>>

(* Mutant: a kill is the killer's own business.                            *)
ToldToKiller(g, c) == {}

(* Health saturates at nothing left. *)
Taken(was, strength) == IF was + strength > MaxHealth THEN MaxHealth ELSE was + strength

(* Which of them the neighbours are told is gone. *)
Removed(g, c) == {c}

(* A swing lands on a living creature; it may give something up, and the   *)
(* one that kills it is told apart by the set of the dead.                 *)
Hit(g, c) ==
  LET w == place[g]
  IN  /\ g \in Live /\ c \in Seeded \cup spawned[w]
      /\ c \notin dead[w] /\ damage[w][c] < MaxHealth
      /\ \E strength \in Strengths, loot \in {{}} \cup {{e} : e \in Unused} :
           LET now   == Taken(damage[w][c], strength)
               kills == now = MaxHealth
           IN  /\ damage' = [damage EXCEPT ![w][c] = now]
               /\ dead' = IF kills THEN [dead EXCEPT ![w] = @ \cup {c}] ELSE dead
               /\ drops' = [drops EXCEPT ![w] = @ \cup loot]
               /\ made' = made \cup loot
               /\ IF kills THEN Handled(g, loot, {c}, loot, Removed(g, c))
                           ELSE Handled(g, loot, {}, loot, {})
      /\ UNCHANGED <<stage, place, devices, spawned, title>>

(* The admin command: on the home island wherever the player is, told to   *)
(* the player now and to the others after the player's next packet.        *)
Mob(g, e) ==
  /\ g \in Live /\ e \in Unused
  /\ made' = made \cup {e}
  /\ spawned' = [spawned EXCEPT ![Home] = @ \cup {e}]
  /\ known' = [known EXCEPT ![g] = @ \cup {e}]
  /\ queue' = [queue EXCEPT ![g] = @ \cup {e}]
  /\ UNCHANGED <<stage, place, devices, drops, damage, dead, title>>

-----------------------------------------------------------------------------
Init ==
  /\ stage = [g \in Guids |-> "none"]
  /\ place = [g \in Guids |-> Home]
  /\ known = [g \in Guids |-> {}]
  /\ queue = [g \in Guids |-> {}]
  /\ devices = [w \in Worlds |-> {}]
  /\ spawned = [w \in Worlds |-> {}]
  /\ drops = [w \in Worlds |-> {}]
  /\ damage = [w \in Worlds |-> [c \in Creatures |-> 0]]
  /\ dead = [w \in Worlds |-> {}]
  /\ title = [w \in Worlds |-> None]
  /\ made = {}

Handshake(g) ==
  \/ ClientConnected(g) \/ ClientReadyToSync(g)
  \/ ClientInitialSyncFinished(g) \/ ClientReadyToPlay(g)

Act(g) ==
  \/ OtherPacket(g)
  \/ \E e \in Unused : PlaceEntity(g, e) \/ Dig(g, e) \/ Mob(g, e)
  \/ \E e \in drops[place[g]] : CollectPickup(g, e)
  \/ \E c \in Creatures : Hit(g, c)
  \/ LearnHomeTitle(g)

Next ==
  \E g \in Guids :
    \/ \E w \in Worlds : Connect(g, w)
    \/ Disconnect(g)
    \/ Handshake(g)
    \/ Act(g)

Spec == Init /\ [][Next]_vars

-----------------------------------------------------------------------------
(* Properties. *)

TypeOK ==
  /\ stage \in [Guids -> Stages \cup {"none", "gone"}]
  /\ place \in [Guids -> Worlds]
  /\ known \in [Guids -> SUBSET (Guids \cup Creatures)]
  /\ queue \in [Guids -> SUBSET Things]
  /\ devices \in [Worlds -> SUBSET Things] /\ spawned \in [Worlds -> SUBSET Things]
  /\ drops \in [Worlds -> SUBSET Things]
  /\ damage \in [Worlds -> [Creatures -> 0 .. MaxHealth]]
  /\ dead \in [Worlds -> SUBSET Creatures]
  /\ title \in [Worlds -> Things \cup {None}]
  /\ made \subseteq Things

(* "The entity burst is the only chance a joining client gets to learn     *)
(* about them": past it a client holds the bodies of exactly the players   *)
(* in its world, however arrivals, departures and handshakes interleave,   *)
(* and before it of nobody who is not there.                               *)
PlayersSeeEachOther ==
  \A g \in Live :
    /\ known[g] \cap Guids \subseteq {g} \cup Neighbours(g)
    /\ stage[g] \in Arrived => {g} \cup Neighbours(g) \subseteq known[g]

(* "A joiner is told about them here or never told at all": past the burst *)
(* a client holds every device, every drop and the title of its world, and *)
(* of the creatures it was built with the living ones, whoever made or     *)
(* killed them and whenever it joined.                                     *)
WorldIsSeen ==
  \A g \in Live :
    LET w == place[g]
    IN  stage[g] \in Arrived =>
          devices[w] \cup drops[w] \cup ({title[w]} \ {None}) \cup (Seeded \ dead[w])
            \subseteq known[g]

(* "The other players watch it die too": when a creature dies no client in *)
(* its world goes on holding it.                                           *)
DeathIsSeen ==
  [][\A w \in Worlds : \A g \in Live :
       place[g] = w => known'[g] \cap (dead'[w] \ dead[w]) = {}]_vars
=============================================================================
