----------------------------- MODULE Belongings -----------------------------
(***************************************************************************)
(* Where a player's things are when they are in no square                  *)
(* (crates/skysaga-game/src/lib.rs).                                       *)
(*                                                                         *)
(* A stack can lie on one of the two crafting drop squares, where it is    *)
(* repaired or taken apart, or on the floor of the world, where any player *)
(* may pick it up.  In the inventory model of a session both are loose     *)
(* stacks; `drop_slots' and `floor' are the only things that name them.    *)
(* One session is modelled in full; the other players of the world only    *)
(* drop and take.                                                          *)
(*                                                                         *)
(* A handler that changes the inventory more than once goes through        *)
(* `pending', and nothing else happens until it is Nothing again.          *)
(***************************************************************************)
EXTENDS Inventories

CONSTANTS
  Player,        \* the owner whose session this is
  RepairSlot,    \* the two drop squares
  DismantleSlot,
  Made,          \* name -> how many of it its recipe makes
  Returns,       \* name -> what a dismantle may return
  RepairCosts    \* name -> what a repair may cost

DropSquares == {RepairSlot, DismantleSlot}

ASSUME BelongingsAssumption ==
  /\ Player \in Owners
  /\ RepairSlot # DismantleSlot
  /\ DOMAIN Made \subseteq Names /\ DOMAIN Returns = DOMAIN Made
  /\ \A n \in DOMAIN Made : Made[n] \in Nat /\ Returns[n] \subseteq Seq(Stack)
  /\ DOMAIN RepairCosts = Names
  /\ \A n \in Names : RepairCosts[n] \subseteq Seq(Stack)

(* draw counts what it drew of an ingredient together, and the game's      *)
(* recipes list an ingredient once.  Nothing in the code insists on that,  *)
(* and a repair relies on it: each component is checked by itself.         *)
ASSUME EachComponentOnce ==
  \A n \in Names : \A cost \in RepairCosts[n] :
    \A i, j \in DOMAIN cost : cost[i].name = cost[j].name => i = j

VARIABLES
  drop_slots,  \* drop square -> entity id of the stack on it, or 0
  floor,       \* the drops of the world
  pending      \* the handler that is not over yet, or Nothing

belongings == <<drop_slots, floor, pending>>
bvars == <<slots, items, limits, next_entity_id, effects, task, named,
           drop_slots, floor, pending>>

Drop == [pickup : Nat, stack : Nat, name : Names, count : Nat]

Nothing          == [what |-> "nothing"]
PickingUp(d)     == [what |-> "pickup", drop |-> d]
Returning(list)  == [what |-> "materials", list |-> list]
Repairing(list)  == [what |-> "repair", list |-> list]

Ready == pending = Nothing

-----------------------------------------------------------------------------
(* The drop squares. *)

MoveToDropSlot(k, index) ==
  /\ Ready
  /\ drop_slots[k] = 0
  /\ Detach(<<Player, index>>)
  /\ drop_slots' = [drop_slots EXCEPT ![k] = slots[<<Player, index>>]]
  /\ UNCHANGED <<floor, pending>>

(* Nowhere to put it: nothing happens.                                     *)
TakeOff(k) ==
  /\ drop_slots[k] # 0
  /\ Collect(Player, drop_slots[k])
  /\ drop_slots' = [drop_slots EXCEPT ![k] = 0]

TakeFromDropSlot(k) ==
  /\ Ready
  /\ TakeOff(k)
  /\ UNCHANGED <<floor, pending>>

CanTakeOff(k) == Mergeable(Player, drop_slots[k]) # {} \/ FreeRucksack(Player) # {}

Holding(name) == {sq \in SquaresOf(Player) : slots[sq] # 0 /\ items[slots[sq]].name = name}

(* Mutant: what lies about is counted with what is carried.                *)
CarriedAnywhere(name) == Total(name)

Carried(name) == SumFunction([sq \in Holding(name) |-> items[slots[sq]].count])

(* Checked against all of the cost before any of it is taken. *)
Repair ==
  /\ Ready
  /\ drop_slots[RepairSlot] # 0
  /\ \E cost \in RepairCosts[items[drop_slots[RepairSlot]].name] :
       /\ \A i \in DOMAIN cost : Carried(cost[i].name) >= cost[i].count
       /\ pending' = Repairing(cost)
  /\ UNCHANGED <<vars, drop_slots, floor>>

(* One at a time, from the first square that has any.                      *)
PayOne ==
  /\ pending.what = "repair" /\ pending.list # <<>>
  /\ LET due == Head(pending.list)
     IN  \/ /\ due.count > 0 /\ Holding(due.name) # {}
            /\ Destroy(First(Holding(due.name)), 1)
            /\ pending' = Repairing(<<[due EXCEPT !.count = @ - 1]>> \o Tail(pending.list))
         \/ /\ due.count = 0 \/ Holding(due.name) = {}
            /\ pending' = Repairing(Tail(pending.list))
            /\ UNCHANGED vars
  /\ UNCHANGED <<drop_slots, floor>>

(* Back to the rucksack, or it stays where it is when that is full.        *)
FinishRepair ==
  /\ pending.what = "repair" /\ pending.list = <<>>
  /\ \/ TakeOff(RepairSlot)
     \/ ~CanTakeOff(RepairSlot) /\ UNCHANGED <<vars, drop_slots>>
  /\ pending' = Nothing
  /\ UNCHANGED floor

Dismantle ==
  LET item == drop_slots[DismantleSlot]
  IN  /\ Ready
      /\ item # 0 /\ items[item].name \in DOMAIN Made
      /\ ConsumeLoose(item, MaxOf(Made[items[item].name], 1))
      /\ drop_slots' = [drop_slots EXCEPT ![DismantleSlot] =
                          IF item \in DOMAIN items' THEN item ELSE 0]
      /\ \E list \in Returns[items[item].name] : pending' = Returning(list)
      /\ UNCHANGED floor

(* Each material is a stack of its own; a full rucksack loses it.          *)
ReturnMaterial ==
  /\ pending.what = "materials" /\ pending.list # <<>>
  /\ LET material == Head(pending.list)
     IN  \/ /\ FreeRucksack(Player) # {}
            /\ Give(First(FreeRucksack(Player)), material.name, material.count)
         \/ FreeRucksack(Player) = {} /\ UNCHANGED vars
  /\ pending' = Returning(Tail(pending.list))
  /\ UNCHANGED <<drop_slots, floor>>

FinishDismantle ==
  /\ pending = Returning(<<>>)
  /\ pending' = Nothing
  /\ UNCHANGED <<vars, drop_slots, floor>>

-----------------------------------------------------------------------------
(* The floor. *)

(* Two ids: the stack's and then the pickup's. *)
DropPickup(name, count) ==
  LET stack == next_entity_id
  IN  /\ Ready /\ IsOpen(Player)
      /\ stack < MaxEntityId
      /\ items' = [x \in DOMAIN items \cup {stack} |->
                     IF x = stack THEN [name |-> name, count |-> count] ELSE items[x]]
      /\ next_entity_id' = stack + 2
      /\ named' = named \cup {stack, stack + 1}
      /\ floor' = floor \cup {[pickup |-> stack + 1, stack |-> stack,
                               name |-> name, count |-> count]}
      /\ effects' = <<ItemCreated(stack)>>
      /\ UNCHANGED <<slots, limits, task, drop_slots, pending>>

(* Another session drops; this one's allocator is raised past it before    *)
(* its next packet.                                                        *)
OtherDrops(name, count) ==
  LET stack == next_entity_id
  IN  /\ Ready
      /\ stack < MaxEntityId
      /\ next_entity_id' = stack + 2
      /\ floor' = floor \cup {[pickup |-> stack + 1, stack |-> stack,
                               name |-> name, count |-> count]}
      /\ UNCHANGED <<slots, items, limits, effects, task, named, drop_slots, pending>>

OtherCollects(d) ==
  /\ Ready
  /\ floor' = floor \ {d}
  /\ UNCHANGED <<vars, drop_slots, pending>>

(* Mutant: the drop stays on the floor until the stack is in the rucksack. *)
CollectAndLeave(d) ==
  /\ Ready /\ IsOpen(Player)
  /\ CreateLooseWithId(d.stack, d.name, d.count)
  /\ pending' = PickingUp(d)
  /\ UNCHANGED <<drop_slots, floor>>

(* Off the floor first; then this session's model learns of the stack.     *)
CollectPickup(d) ==
  /\ Ready /\ IsOpen(Player)
  /\ CreateLooseWithId(d.stack, d.name, d.count)
  /\ floor' = floor \ {d}
  /\ pending' = PickingUp(d)
  /\ UNCHANGED drop_slots

(* Into the rucksack, or back on the floor when there is no room at all.   *)
FinishPickup ==
  /\ pending.what = "pickup"
  /\ \/ /\ Collect(Player, pending.drop.stack)
        /\ UNCHANGED floor
     \/ /\ Mergeable(Player, pending.drop.stack) = {}
        /\ FreeRucksack(Player) = {}
        /\ floor' = floor \cup {pending.drop}
        /\ UNCHANGED vars
  /\ pending' = Nothing
  /\ UNCHANGED drop_slots

(* A player arrives: the handshake sets the game's own stack limits, and   *)
(* tells of what lies on the floor.                                        *)
Arrive ==
  /\ ~IsOpen(Player)
  /\ slots' = [sq \in {Player} \X (0 .. SizeOf[Player] - 1) |-> 0]
  /\ items' = [e \in {d.stack : d \in floor} |->
                 LET d == CHOOSE x \in floor : x.stack = e
                 IN  [name |-> d.name, count |-> d.count]]
  /\ named' = named \cup {d.stack : d \in floor}
  /\ limits' = TableLimits
  /\ effects' = <<>>
  /\ UNCHANGED <<next_entity_id, task, drop_slots, floor, pending>>

-----------------------------------------------------------------------------
(* What the rest of the session does with the player's squares. *)

GetStack ==
  /\ Ready
  /\ \E sq \in DOMAIN slots, n \in Names, c \in StackSizes : Give(sq, n, c)
  /\ UNCHANGED belongings

UseSquares ==
  /\ Ready
  /\ \/ \E s, t \in DOMAIN slots, c \in Counts : TransferToSlot(s, t, c)
     \/ \E sq \in DOMAIN slots, c \in Counts : Destroy(sq, c)
  /\ UNCHANGED belongings

BInit ==
  /\ Init
  /\ drop_slots = [k \in DropSquares |-> 0]
  /\ floor = {}
  /\ pending = Nothing

BNext ==
  \/ Arrive
  \/ \E k \in DropSquares, i \in {sq[2] : sq \in DOMAIN slots} : MoveToDropSlot(k, i)
  \/ \E k \in DropSquares : TakeFromDropSlot(k)
  \/ Repair \/ PayOne \/ FinishRepair
  \/ Dismantle \/ ReturnMaterial \/ FinishDismantle
  \/ \E n \in Names, c \in StackSizes : DropPickup(n, c) \/ OtherDrops(n, c)
  \/ \E d \in floor : CollectPickup(d) \/ OtherCollects(d)
  \/ FinishPickup
  \/ GetStack \/ UseSquares

BSpec == BInit /\ [][BNext]_bvars

-----------------------------------------------------------------------------
(* What is written down of all this. *)

Parked == {k \in DropSquares : drop_slots[k] # 0}

(* Mutant: only the squares are written down.                              *)
SquaresOnly == [i \in {sq[2] : sq \in {q \in SquaresOf(Player) : slots[q] # 0}} |->
                  slots[<<Player, i>>]]

(* stored_layout: every square as it is, and what is parked in the first   *)
(* free rucksack squares, as far as they go.                               *)
StoredLayout ==
  LET free      == {sq[2] : sq \in FreeRucksack(Player)}
      At(i)     == Cardinality({j \in free : j < i}) + 1
      parked    == IF drop_slots[RepairSlot] = 0 THEN <<drop_slots[DismantleSlot]>>
                   ELSE <<drop_slots[RepairSlot], drop_slots[DismantleSlot]>>
      borrowed  == {i \in free : At(i) <= Cardinality(Parked)}
      held      == {sq[2] : sq \in {q \in SquaresOf(Player) : slots[q] # 0}}
  IN  [i \in held \cup borrowed |->
         IF i \in held THEN slots[<<Player, i>>] ELSE parked[At(i)]]

-----------------------------------------------------------------------------
(* Properties. *)

(* A drop on the floor is the stack this session knows under its id, with  *)
(* as many in it, and is in nobody's rucksack; a pickup refused for want   *)
(* of room puts back just what it took.                                    *)
FloorIsAsAnnounced ==
  \A d \in floor : d.stack \in DOMAIN items =>
    /\ Loose(d.stack)
    /\ items[d.stack] = [name |-> d.name, count |-> d.count]

(* Everything the player has, parked things included, is written down once *)
(* as long as there is a rucksack square for it: "a tool left on the       *)
(* repair square was gone after a reconnect".                              *)
NothingIsForgotten ==
  LET owned   == {slots[sq] : sq \in {q \in SquaresOf(Player) : slots[q] # 0}}
      parked  == {drop_slots[k] : k \in Parked}
      written == {StoredLayout[i] : i \in DOMAIN StoredLayout}
  IN  /\ Cardinality(written) = Cardinality(DOMAIN StoredLayout)
      /\ owned \subseteq written /\ written \subseteq owned \cup parked
      /\ Cardinality(FreeRucksack(Player)) >= Cardinality(parked) => parked \subseteq written

(* A repair that was accepted is paid in full: the components found in the *)
(* check are there when they are taken one by one.                         *)
RepairsArePaid ==
  pending.what = "repair" =>
    \A i \in DOMAIN pending.list :
      LET due == pending.list[i]
      IN  due.count <= SumFunction([sq \in Holding(due.name) |-> items[slots[sq]].count])

CountOf(e, name) == IF e \in DOMAIN items THEN HowMany(items[e], name) ELSE 0

(* How many of a thing can still come into somebody's hands. *)
Reach(name) ==
  SumFunction([sq \in SquaresOf(Player) |-> CountOf(slots[sq], name)])
  + SumFunction([k \in DropSquares |-> CountOf(drop_slots[k], name)])
  + SumFunction([d \in floor |-> HowMany(d, name)])
  + IF pending.what = "pickup" THEN CountOf(pending.drop.stack, name) ELSE 0

(* Parking, taking back, picking up, dropping and being refused never make *)
(* a second one of anything: there come to be more of a thing only when    *)
(* the game hands one out, drops one as loot or returns a material.        *)
NothingIsDoubled ==
  [][(\E n \in Names : Reach(n)' > Reach(n)) =>
       GetStack \/ ReturnMaterial
         \/ \E n \in Names, c \in StackSizes : DropPickup(n, c) \/ OtherDrops(n, c)]_bvars

(* "Part of it moved; the rest stays on the floor for another trip", and   *)
(* what comes off a drop square goes to the rucksack or "stays where it    *)
(* is": a stack that fits only in part loses nothing.                      *)
PartialFitsLoseNothing ==
  [][FinishPickup \/ (\E k \in DropSquares : TakeFromDropSlot(k)) =>
       \A n \in Names : Reach(n)' = Reach(n)]_bvars
=============================================================================
