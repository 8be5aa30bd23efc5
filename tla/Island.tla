------------------------------ MODULE Island -------------------------------
(***************************************************************************)
(* What players do to the island itself: blocks they dig and place,        *)
(* devices they put down, the lids and windows they open, and how all of   *)
(* it reaches the store and comes back when the server starts again        *)
(* (crates/skysaga-game/src/{lib,world,server}.rs, skysaga-state,          *)
(* skysaga-store, skysaga-server/src/main.rs).                             *)
(*                                                                         *)
(* The edits of the home island are queued in the world, drained into the  *)
(* shared state every tick and written by the store's task.  The answer to *)
(* an edit is for the client that made it.  The worlds behind portals are  *)
(* left out: theirs are edited the same way and never drained.             *)
(*                                                                         *)
(* One axis of one chunk stands for the terrain: a voxel is a number, and  *)
(* the voxel beside one is a sum in a machine word.  What an item weighs,  *)
(* where it lies and how a tool wears are left out, and so are failed      *)
(* writes (Persistence).                                                   *)
(***************************************************************************)
EXTENDS Integers, FiniteSets, SequencesExt

CONSTANTS
  Players,
  CHUNK_SIZE, WORD,              \* voxels on an axis; one more than the largest u32
  Ground,                        \* what the generator makes of each voxel
  Soil, Bare, AIR,               \* blocks with an item, without one, and none
  Fixings,                       \* items that place a device
  LootChest, Nothing,            \* the seeded chest; no entity
  DIG_TICKS_TO_BREAK,
  Loads,                         \* bound: what players may set out with
  MaxChanges, MaxRestarts        \* bounds: of changes to the island, of restarts

ASSUME IslandAssumption ==
  /\ CHUNK_SIZE \in Nat \ {0} /\ WORD \in Nat /\ WORD > CHUNK_SIZE + 1
  /\ DIG_TICKS_TO_BREAK \in Nat \ {0}
  /\ AIR \notin Soil \cup Bare /\ Soil \cap Bare = {} /\ Soil \cap Fixings = {}
  /\ Ground \in [0 .. CHUNK_SIZE - 1 -> Soil \cup Bare \cup {AIR}]
  /\ -1 \notin Soil \cup Bare \cup {AIR} /\ 0 \notin Fixings
  /\ LootChest \notin 0 .. MaxChanges /\ Nothing = 0
  /\ IsFiniteSet(Players) /\ Loads \subseteq [Soil \cup Fixings -> Nat]
  /\ MaxChanges \in Nat

VARIABLES
  playing,   \* the players on the island
  blocks,    \* the blocks changed, and the changes not drained
  unsaved,
  fixtures,  \* the devices put down, and those not drained
  unsaved_devices,
  floor,     \* what has dropped out of blocks
  bag,       \* what each player carries
  cracks,    \* the ticks each session has counted on each voxel
  terrain,   \* the blocks each client holds
  using,     \* what each session has open, and the lids it has shut
  closed_lids,
  told,      \* the last usingentityid each client was sent,
  window,    \* and the panel it shows
  stored,    \* the shared state: blocks and devices by place
  pipeline,  \* changes on their way to the disk
  disk,
  restarts,
  load       \* what every player set out with

land_vars   == <<blocks, unsaved, fixtures, unsaved_devices, floor>>
panel_vars  == <<using, closed_lids, told, window>>
store_vars  == <<stored, pipeline, disk, restarts, load>>
island_vars == <<playing, bag, cracks, terrain, land_vars, panel_vars, store_vars>>

-----------------------------------------------------------------------------
Voxels  == 0 .. CHUNK_SIZE - 1
Towards == {1, WORD - 1}                      \* up the axis and down it

(* wrapping_add_signed: the neighbour may lie outside the chunk.           *)
placement_voxel(v, d) == (v + d) % WORD

Places  == Voxels \cup {placement_voxel(v, d) : v \in Voxels, d \in Towards}
Kept    == -1                                 \* nobody has changed the voxel

(* What the generator made; air outside the chunk.                         *)
material_at(v) == IF v \in Voxels THEN Ground[v] ELSE AIR

(* Mutant: the terrain as it was generated. *)
block_as_generated(v) == material_at(v)

block_at(v) == IF blocks[v] # Kept THEN blocks[v] ELSE material_at(v)

(* Mutant: a voxel that has been changed before is not queued again. *)
QueuedOnce(v, m) ==
  IF blocks[v] = Kept THEN Append(unsaved, [at |-> v, material |-> m]) ELSE unsaved

Queued(v, m) == Append(unsaved, [at |-> v, material |-> m])

set_block(v, m) ==
  /\ blocks' = [blocks EXCEPT ![v] = m]
  /\ unsaved' = Queued(v, m)

(* PartialChunkEditsSync, to the player who made the change.               *)
chunk_edit(p, v, m) == terrain' = [terrain EXCEPT ![p][v] = m]

(* What the bound MaxChanges counts. *)
Changes ==
  Cardinality({v \in Places : blocks[v] # Kept}) + Len(fixtures)
    + Len(unsaved) + Len(pipeline)
Roomy == Changes < MaxChanges

-----------------------------------------------------------------------------
(* Players come and go.  Terrain is what the generator made, and no edit   *)
(* follows it; a new session counts its own ticks and has nothing open.    *)
EnterWorld(p) ==
  /\ p \notin playing /\ playing' = playing \cup {p}
  /\ UNCHANGED <<bag, cracks, terrain, land_vars, panel_vars, store_vars>>

(* The sessions of these players end.                                      *)
Fresh(f, gone, new) == [p \in Players |-> IF p \in gone THEN new ELSE f[p]]
SessionsEnd(gone) ==
  /\ playing' = playing \ gone
  /\ terrain' = Fresh(terrain, gone, [v \in Places |-> material_at(v)])
  /\ cracks' = Fresh(cracks, gone, [v \in Places |-> 0])
  /\ using' = Fresh(using, gone, Nothing)
  /\ closed_lids' = Fresh(closed_lids, gone, {})
  /\ told' = Fresh(told, gone, Nothing)
  /\ window' = Fresh(window, gone, Nothing)

LeaveWorld(p) ==
  /\ p \in playing
  /\ SessionsEnd({p})
  /\ UNCHANGED <<bag, land_vars, store_vars>>

-----------------------------------------------------------------------------
(* Blocks.  The client swings at what it holds to be solid. *)

(* The hole, and what fell out of it.                                      *)
Breaks(p, v, m) ==
  /\ Roomy
  /\ cracks' = [cracks EXCEPT ![p][v] = 0]
  /\ set_block(v, AIR)
  /\ chunk_edit(p, v, AIR)
  /\ floor' = IF m \in Soil THEN [floor EXCEPT ![m] = @ + 1] ELSE floor

(* One tick of one session; the last one of DIG_TICKS_TO_BREAK breaks it.  *)
dig(p, v) ==
  LET m == block_at(v)
  IN  /\ \/ /\ m \notin Soil \cup Bare
            /\ UNCHANGED <<cracks, terrain, blocks, unsaved, floor>>
         \/ /\ m \in Soil \cup Bare /\ cracks[p][v] + 1 < DIG_TICKS_TO_BREAK
            /\ cracks' = [cracks EXCEPT ![p][v] = @ + 1]
            /\ UNCHANGED <<terrain, blocks, unsaved, floor>>
         \/ /\ m \in Soil \cup Bare /\ cracks[p][v] + 1 >= DIG_TICKS_TO_BREAK
            /\ Breaks(p, v, m)
      /\ UNCHANGED bag

(* take_one, then the block in the voxel beside the one clicked.           *)
PlaceBlock(p, v, d, item) ==
  LET at == placement_voxel(v, d)
  IN  /\ Roomy
      /\ bag' = [bag EXCEPT ![p][item] = @ - 1]
      /\ set_block(at, item)
      /\ chunk_edit(p, at, item)
      /\ UNCHANGED <<cracks, floor>>

(* The hotbar may name something the player has run out of: that digs.     *)
PerformVoxelActions(p, v, d, item) ==
  /\ p \in playing /\ v \in Voxels /\ terrain[p][v] # AIR
  /\ \/ item \in Soil /\ bag[p][item] > 0 /\ PlaceBlock(p, v, d, item)
     \/ item \notin Fixings /\ (item \in Soil => bag[p][item] = 0) /\ dig(p, v)
     \/ item \in Fixings /\ bag[p][item] = 0 /\ dig(p, v)
  /\ UNCHANGED <<playing, fixtures, unsaved_devices, panel_vars, store_vars>>

(* A drop is collected by the first to ask. *)
Collects(p, item) ==
  /\ p \in playing /\ floor[item] > 0
  /\ floor' = [floor EXCEPT ![item] = @ - 1]
  /\ bag' = [bag EXCEPT ![p][item] = @ + 1]
  /\ UNCHANGED <<playing, cracks, terrain, blocks, unsaved, fixtures, unsaved_devices,
                 panel_vars, store_vars>>

-----------------------------------------------------------------------------
(* Devices: everybody's, written down by name and place.  An id is one     *)
(* past the largest in the world.                                          *)
Devices == {fixtures[i].id : i \in DOMAIN fixtures}

next_entity_id == Max({0} \cup Devices) + 1

place_entity(p, v, d, item) ==
  LET at == placement_voxel(v, d)
  IN  /\ p \in playing /\ v \in Voxels /\ terrain[p][v] # AIR /\ Roomy
      /\ item \in Fixings /\ bag[p][item] > 0
      /\ bag' = [bag EXCEPT ![p][item] = @ - 1]
      /\ fixtures' = Append(fixtures, [id |-> next_entity_id, name |-> item, at |-> at])
      /\ unsaved_devices' = Append(unsaved_devices, [name |-> item, at |-> at])
      /\ UNCHANGED <<playing, cracks, terrain, blocks, unsaved, floor, panel_vars, store_vars>>

(* A panel is no business of blocks and ticks: what is opened and shut is  *)
(* followed between them, when nobody digs and nothing is on its way to    *)
(* the disk.                                                               *)
Quiet ==
  /\ unsaved = <<>> /\ unsaved_devices = <<>> /\ pipeline = <<>>
  /\ \A p \in Players : \A v \in Places : cracks[p][v] = 0

Openables == Devices \cup {LootChest}

-----------------------------------------------------------------------------
(* Opening.  There is no packet that opens a container: the client shows   *)
(* what its own body's usingentityid names, and acts on a change of it.    *)

Sees(seen, id) == IF id = seen.told THEN seen ELSE [told |-> id, shows |-> id]

(* What a client shows after the syncs `ids', one after the other.         *)
Shown(p, ids) == FoldLeft(Sees, [told |-> told[p], shows |-> window[p]], ids)

(* Mutant: everything with a lid is toggled. *)
TogglesAlways(p, target) == IF using[p] = target THEN <<Nothing>> ELSE <<target>>

(* The usingentityid syncs that answer an interact: a loot chest, which    *)
(* has no close button, is toggled; anything else that is open already is  *)
(* opened again, through nothing.                                          *)
open_container(p, target) ==
  IF using[p] # target THEN <<target>>
  ELSE IF target = LootChest THEN <<Nothing>>
  ELSE <<Nothing, target>>

Interact(p, target) ==
  LET syncs == open_container(p, target)
      seen  == Shown(p, syncs)
      shuts == Last(syncs) = Nothing
  IN  /\ Quiet /\ p \in playing /\ target \in Openables
      /\ using' = [using EXCEPT ![p] = Last(syncs)]
      /\ closed_lids' = [closed_lids EXCEPT ![p] =
           IF shuts THEN @ \cup {target} ELSE @ \ {target}]
      /\ told' = [told EXCEPT ![p] = seen.told]
      /\ window' = [window EXCEPT ![p] = seen.shows]
      /\ UNCHANGED <<playing, bag, cracks, terrain, land_vars, store_vars>>

(* The X of a panel: the client says nothing.  A loot chest has none.      *)
ClosePanel(p) ==
  /\ Quiet /\ p \in playing /\ window[p] \notin {Nothing, LootChest}
  /\ window' = [window EXCEPT ![p] = Nothing]
  /\ UNCHANGED <<playing, bag, cracks, terrain, land_vars, using, closed_lids, told, store_vars>>

-----------------------------------------------------------------------------
(* The store.  A tick drains the home island's queues: the shared state    *)
(* ignores what it already holds and records the rest.                     *)
Empty == [blocks |-> [v \in Places |-> Kept], devices |-> [v \in Places |-> Nothing]]

Put(held, change) ==
  IF change.kind = "block" THEN [held EXCEPT !.blocks[change.at] = change.what]
                           ELSE [held EXCEPT !.devices[change.at] = change.what]

Holds(held, change) == Put(held, change) = held

BlockChange(e)  == [kind |-> "block", at |-> e.at, what |-> e.material]
DeviceChange(e) == [kind |-> "device", at |-> e.at, what |-> e.name]

(* The changes waiting in the world, in the order they are drained.        *)
Undrained ==
  [i \in DOMAIN unsaved |-> BlockChange(unsaved[i])]
    \o [i \in DOMAIN unsaved_devices |->
          DeviceChange(unsaved_devices[i])]

(* One change: put, and sent on, unless the shared state holds it.         *)
Record(s, change) ==
  IF Holds(s.held, change) THEN s
  ELSE [held |-> Put(s.held, change), sent |-> Append(s.sent, change)]

Recorded == FoldLeft(Record, [held |-> stored, sent |-> pipeline], Undrained)

RecordIsland ==
  /\ Undrained # <<>>
  /\ stored' = Recorded.held
  /\ pipeline' = Recorded.sent
  /\ unsaved' = <<>> /\ unsaved_devices' = <<>>
  /\ UNCHANGED <<playing, bag, cracks, terrain, blocks, fixtures, floor, panel_vars,
                 disk, restarts, load>>

(* One row, replacing what stood there. *)
SaveChange ==
  /\ pipeline # <<>>
  /\ disk' = Put(disk, Head(pipeline))
  /\ pipeline' = Tail(pipeline)
  /\ UNCHANGED <<playing, bag, cracks, terrain, land_vars, panel_vars, stored, restarts, load>>

(* restore_devices: one for each place, place by place, with ids of this   *)
(* run.                                                                    *)
restore_devices(held) ==
  LET there == {v \in Places : held.devices[v] # Nothing}
      at(i) == CHOOSE v \in there : Cardinality({w \in there : w <= v}) = i
  IN  [i \in 1 .. Cardinality(there) |->
         [id |-> i, name |-> held.devices[at(i)], at |-> at(i)]]

(* The process stops and starts: the island is generated again, the disk's *)
(* changes are put back on it, silently, and everybody is away.            *)
Restart ==
  /\ restarts < MaxRestarts /\ restarts' = restarts + 1
  /\ stored' = disk /\ pipeline' = <<>>
  /\ blocks' = disk.blocks /\ fixtures' = restore_devices(disk)
  /\ unsaved' = <<>> /\ unsaved_devices' = <<>>
  /\ floor' = [m \in Soil |-> 0]
  /\ SessionsEnd(Players)
  /\ UNCHANGED <<bag, disk, load>>

-----------------------------------------------------------------------------
IslandInit ==
  /\ playing = {} /\ blocks = Empty.blocks /\ unsaved = <<>>
  /\ fixtures = <<>> /\ unsaved_devices = <<>>
  /\ floor = [m \in Soil |-> 0]
  /\ load \in Loads
  /\ bag = [p \in Players |-> load]
  /\ cracks = [p \in Players |-> [v \in Places |-> 0]]
  /\ terrain = [p \in Players |-> [v \in Places |-> material_at(v)]]
  /\ using = [p \in Players |-> Nothing]
  /\ closed_lids = [p \in Players |-> {}]
  /\ told = [p \in Players |-> Nothing]
  /\ window = [p \in Players |-> Nothing]
  /\ stored = Empty /\ pipeline = <<>> /\ disk = Empty /\ restarts = 0

IslandNext ==
  \/ \E p \in Players :
       \/ EnterWorld(p) \/ LeaveWorld(p)
       \/ \E v \in Voxels, d \in Towards, item \in Soil \cup Fixings \cup {Nothing} :
            PerformVoxelActions(p, v, d, item) \/ place_entity(p, v, d, item)
       \/ \E item \in Soil : Collects(p, item)
       \/ \E target \in 1 .. MaxChanges : Interact(p, target)
       \/ Interact(p, LootChest)
       \/ ClosePanel(p)
  \/ RecordIsland \/ SaveChange \/ Restart

IslandSpec == IslandInit /\ [][IslandNext]_island_vars

-----------------------------------------------------------------------------
(* Properties. *)

(* A device put down where another one is takes its place.                 *)
Fixed(held, f) == [held EXCEPT ![f.at] = f.name]

(* "They survive a restart": what is on the disk, with what is on its way  *)
(* to it and what the world has not drained yet, is the home island as it  *)
(* stands, block for block and the last device of each place, however      *)
(* edits, ticks, writes and restarts interleave.                           *)
IslandIsWrittenDown ==
  LET written == FoldLeft(Put, FoldLeft(Put, disk, pipeline), Undrained)
  IN  /\ FoldLeft(Put, disk, pipeline) = stored
      /\ written.blocks = blocks
      /\ written.devices = FoldLeft(Fixed, Empty.devices, fixtures)

(* "The second player dug a hole that was already there": however players  *)
(* dig and place in each other's way, no block is ever had twice.  Of what *)
(* the island was made of and the players brought, no more stands, lies    *)
(* and is carried than there was.                                          *)
Standing(m) == Cardinality({v \in Places : block_at(v) = m})
Carried(m)  == SumFunction([p \in Players |-> bag[p][m]])
NoBlockIsHadTwice ==
  restarts = 0 =>
    \A m \in Soil :
      Standing(m) + Carried(m) + floor[m]
        <= Cardinality({v \in Voxels : Ground[v] = m})
             + load[m] * Cardinality(Players)

(* "The next E is spent closing something already gone": one press of the  *)
(* key always shows the device it was aimed at, though the client never    *)
(* says when a panel is dismissed, and a loot chest shows and hides.       *)
OneKeyOpens ==
  [][\A p \in Players : \A target \in {LootChest} \cup (1 .. MaxChanges) :
       Interact(p, target) =>
         window'[p] = IF target = LootChest /\ window[p] = LootChest
                      THEN Nothing ELSE target]_island_vars

(* "They belong to the world now": the blocks a client holds are those of  *)
(* the world its player is in.                                             *)
EditsAreSeen ==
  \A p \in playing : \A v \in Voxels : terrain[p][v] = block_at(v)
=============================================================================
