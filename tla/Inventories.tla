---------------------------- MODULE Inventories ----------------------------
(***************************************************************************)
(* The inventory model of one session                                      *)
(* (crates/skysaga-world/src/inventory.rs).                                *)
(*                                                                         *)
(* A stack is an entity, an inventory is a list of squares, and a square   *)
(* holds the id of a stack or 0.  `slots' is flat here: it maps a square,  *)
(* the pair <<owner, index>>, to what the square holds, and its domain is  *)
(* the set of squares that exist.  A stack in `items' that no square names *)
(* is loose: it lies on the floor or on a crafting drop square.            *)
(*                                                                         *)
(* Every operation returns the effects the client has to be told of, in    *)
(* order; `effects' holds those of the last operation.  An operation that  *)
(* the code refuses (an empty source, no such square, no room) changes     *)
(* nothing and returns nothing, so here it is simply not enabled.          *)
(***************************************************************************)
EXTENDS Integers, Sequences, FiniteSets, Functions

CONSTANTS
  Owners,             \* entities that can have an inventory: a player, a chest
  Names,              \* the kinds of item, by name hash
  StackSizes,         \* the sizes stacks are handed out in
  Counts,             \* the counts a packet may ask for; 0 is "all of it"
  SizeOf,             \* how many squares each owner's inventory is opened with
  FirstRucksackSlot,  \* squares below this one are worn or held (9 in the code)
  HandSlots,          \* the squares that are hands (0..1 in the code)
  DefaultStackLimit,  \* the limit of an item that does not override it (64)
  TableLimits,        \* the limits the game's own table gives
  FirstEntityId,      \* the first id this session mints
  MaxEntityId         \* the last id there is to mint (2^32 - 1 in the code)

ASSUME InventoriesAssumption ==
  /\ StackSizes \subseteq Nat
  /\ Counts \subseteq Nat
  /\ SizeOf \in [Owners -> Nat \ {0}]
  /\ FirstRucksackSlot \in Nat
  /\ HandSlots \subseteq Nat
  /\ DefaultStackLimit \in Nat
  /\ TableLimits \in [Names -> Nat]
  /\ FirstEntityId \in Nat \ {0}
  /\ MaxEntityId \in Nat

VARIABLES
  slots,           \* square -> entity id of the stack in it, 0 when empty
  items,           \* entity id -> the stack
  limits,          \* name -> how large a stack may be
  next_entity_id,  \* the next id to mint
  effects,         \* what the last operation told the client, in order
  task,            \* where a "take all" loop stands, or Idle
  named            \* history: every id this model has ever held

vars == <<slots, items, limits, next_entity_id, effects, task, named>>

-----------------------------------------------------------------------------
(* Squares, stacks and effects. *)

Square == Owners \X Nat
Stack  == [name : Names, count : Nat]

ItemCreated(e)  == [kind |-> "created", entity |-> e]
ItemChanged(e)  == [kind |-> "changed", entity |-> e]
ItemRemoved(e)  == [kind |-> "removed", entity |-> e]
SlotsChanged(o) == [kind |-> "slots",   owner  |-> o]

Effect == [kind : {"created", "changed", "removed"}, entity : Nat]
            \cup [kind : {"slots"}, owner : Owners]

Idle == [phase |-> "idle"]

IsOpen(o)     == \E sq \in DOMAIN slots : sq[1] = o
Occupied(sq)  == sq \in DOMAIN slots /\ slots[sq] # 0
SquaresOf(o)  == {sq \in DOMAIN slots : sq[1] = o}
Loose(e)      == e \in DOMAIN items /\ \A sq \in DOMAIN slots : slots[sq] # e

(* The first square of a set, which is where every scan of the code stops. *)
First(S) == CHOOSE sq \in S : \A other \in S : sq[2] <= other[2]

FreeRucksack(o) ==
  {sq \in SquaresOf(o) : sq[2] >= FirstRucksackSlot /\ slots[sq] = 0}

MaxOf(a, b) == IF a >= b THEN a ELSE b
MinOf(a, b) == IF a <= b THEN a ELSE b

(* saturating_sub *)
Room(e) == LET limit == limits[items[e].name]
           IN  IF items[e].count < limit THEN limit - items[e].count ELSE 0

Without(e) == [x \in DOMAIN items \ {e} |-> items[x]]

-----------------------------------------------------------------------------
(* The primitives.  `done' is what an operation already reported before it *)
(* reached the primitive: a "take all" collects the effects of its loop.   *)

(* A fresh stack.  Ids run out with u32; minting is where the bound bites. *)
CreateStack(name, count) ==
  /\ next_entity_id <= MaxEntityId
  /\ next_entity_id' = next_entity_id + 1
  /\ items' = [x \in DOMAIN items \cup {next_entity_id} |->
                 IF x = next_entity_id THEN [name |-> name, count |-> count]
                                       ELSE items[x]]
  /\ named' = named \cup {next_entity_id}

(* Mutant: equipping copies the reference and leaves it in the rucksack.   *)
ExchangeCopies(s, t, done) ==
  /\ slots' = [slots EXCEPT ![t] = slots[s]]
  /\ effects' = done \o <<SlotsChanged(s[1]), SlotsChanged(t[1])>>
  /\ UNCHANGED <<items, next_entity_id, named>>

(* Mutant: only the inventory a stack arrives in is reported.              *)
ExchangeTellsTarget(s, t, done) ==
  /\ slots' = [slots EXCEPT ![s] = slots[t], ![t] = slots[s]]
  /\ effects' = done \o <<SlotsChanged(t[1])>>
  /\ UNCHANGED <<items, next_entity_id, named>>

Exchange(s, t, done) ==
  /\ slots' = [slots EXCEPT ![s] = slots[t], ![t] = slots[s]]
  /\ effects' = done \o IF s[1] = t[1] THEN <<SlotsChanged(s[1])>>
                        ELSE <<SlotsChanged(s[1]), SlotsChanged(t[1])>>
  /\ UNCHANGED <<items, next_entity_id, named>>

CanSplit(s, t, count) ==
  slots[t] = 0 /\ count > 0 /\ count < items[slots[s]].count

TrySplit(s, t, count) ==
  LET from == slots[s]
      rest == [items EXCEPT ![from].count = @ - count]
  IN  /\ next_entity_id <= MaxEntityId
      /\ next_entity_id' = next_entity_id + 1
      /\ items' = [x \in DOMAIN items \cup {next_entity_id} |->
                     IF x = next_entity_id
                       THEN [name |-> items[from].name, count |-> count]
                       ELSE rest[x]]
      /\ named' = named \cup {next_entity_id}
      /\ slots' = [slots EXCEPT ![t] = next_entity_id]
      /\ effects' = <<ItemChanged(from), ItemCreated(next_entity_id),
                      SlotsChanged(t[1])>>

(* How many of the stack in s would join the stack in t; 0 wanted is all.  *)
Moved(s, t, count) ==
  LET available == items[slots[s]].count
  IN  MinOf(IF count > 0 THEN MinOf(count, available) ELSE available,
            Room(slots[t]))

CanMerge(s, t, count) ==
  /\ s # t
  /\ Occupied(s) /\ Occupied(t)
  /\ items[slots[s]].name = items[slots[t]].name
  /\ Moved(s, t, count) > 0

TryMerge(s, t, count, done) ==
  LET from  == slots[s]
      into  == slots[t]
      moved == Moved(s, t, count)
      left  == items[from].count - moved
      grown == [items EXCEPT ![into].count = @ + moved]
  IN  /\ \/ /\ left > 0
            /\ items' = [grown EXCEPT ![from].count = left]
            /\ effects' = done \o <<ItemChanged(into), ItemChanged(from)>>
            /\ UNCHANGED slots
         \/ /\ left = 0
            /\ items' = [x \in DOMAIN items \ {from} |-> grown[x]]
            /\ slots' = [slots EXCEPT ![s] = 0]
            /\ effects' = done \o <<ItemChanged(into), SlotsChanged(s[1]),
                                    ItemRemoved(from)>>
      /\ UNCHANGED <<next_entity_id, named>>

-----------------------------------------------------------------------------
(* Opening, seeding and the floor. *)

(* Mutant: the list before the stack it names.                             *)
ListFirst(e, o) == <<SlotsChanged(o), ItemCreated(e)>>

(* What a caller that hands a stack over sends: the stack, then the list.  *)
Announcement(e, o) == <<ItemCreated(e), SlotsChanged(o)>>

Open(o, size) ==
  /\ task = Idle
  /\ slots' = [sq \in {q \in DOMAIN slots : q[1] # o} \cup ({o} \X (0 .. size - 1)) |->
                 IF sq[1] = o THEN 0 ELSE slots[sq]]
  /\ effects' = <<SlotsChanged(o)>>
  /\ UNCHANGED <<items, limits, next_entity_id, task, named>>

Close(o) ==
  /\ task = Idle
  /\ IsOpen(o)
  /\ LET gone == {slots[sq] : sq \in SquaresOf(o)}
     IN  items' = [x \in DOMAIN items \ gone |-> items[x]]
  /\ slots' = [sq \in {q \in DOMAIN slots : q[1] # o} |-> slots[sq]]
  /\ effects' = <<>>
  /\ UNCHANGED <<limits, next_entity_id, task, named>>

Give(sq, name, count) ==
  /\ task = Idle
  /\ sq \in DOMAIN slots /\ slots[sq] = 0
  /\ CreateStack(name, count)
  /\ slots' = [slots EXCEPT ![sq] = next_entity_id]
  /\ effects' = Announcement(next_entity_id, sq[1])
  /\ UNCHANGED <<limits, task>>

CreateLoose(name, count) ==
  /\ task = Idle
  /\ CreateStack(name, count)
  /\ effects' = <<ItemCreated(next_entity_id)>>
  /\ UNCHANGED <<slots, limits, task>>

(* A stack another session minted, built here under the id it already has. *)
CreateLooseWithId(e, name, count) ==
  /\ task = Idle
  /\ e <= MaxEntityId
  /\ next_entity_id' = MaxOf(next_entity_id, e + 1)
  /\ \/ /\ e \in DOMAIN items
        /\ effects' = <<>>
        /\ UNCHANGED <<items, named>>
     \/ /\ e \notin DOMAIN items
        /\ items' = [x \in DOMAIN items \cup {e} |->
                       IF x = e THEN [name |-> name, count |-> count] ELSE items[x]]
        /\ named' = named \cup {e}
        /\ effects' = <<ItemCreated(e)>>
  /\ UNCHANGED <<slots, limits, task>>

(* A matching stack with room first, a fresh rucksack square otherwise.    *)
Mergeable(o, e) ==
  {sq \in SquaresOf(o) : /\ slots[sq] # 0
                         /\ items[slots[sq]].name = items[e].name
                         /\ Room(slots[sq]) > 0}

(* Mutant: what did not fit in the merge is forgotten.                     *)
CollectForgetsRest(o, e) ==
  LET into  == slots[First(Mergeable(o, e))]
      grown == [items EXCEPT ![into].count = @ + MinOf(items[e].count, Room(into))]
  IN  /\ Mergeable(o, e) # {}
      /\ items' = [x \in DOMAIN items \ {e} |-> grown[x]]
      /\ effects' = <<ItemChanged(into), ItemRemoved(e)>>
      /\ UNCHANGED slots

CollectMerging(o, e) ==
  LET into     == slots[First(Mergeable(o, e))]
      moved    == MinOf(items[e].count, Room(into))
      leftover == items[e].count - moved
      grown    == [items EXCEPT ![into].count = @ + moved]
  IN  /\ Mergeable(o, e) # {}
      /\ \/ /\ leftover = 0
            /\ items' = [x \in DOMAIN items \ {e} |-> grown[x]]
            /\ effects' = <<ItemChanged(into), ItemRemoved(e)>>
         \/ /\ leftover > 0
            /\ items' = [grown EXCEPT ![e].count = leftover]
            /\ effects' = <<ItemChanged(into), ItemChanged(e)>>
      /\ UNCHANGED slots

CollectIntoSquare(o, e) ==
  /\ Mergeable(o, e) = {}
  /\ FreeRucksack(o) # {}
  /\ slots' = [slots EXCEPT ![First(FreeRucksack(o))] = e]
  /\ effects' = <<SlotsChanged(o)>>
  /\ UNCHANGED items

Collect(o, e) ==
  /\ task = Idle
  /\ e \in DOMAIN items
  /\ CollectMerging(o, e) \/ CollectIntoSquare(o, e)
  /\ UNCHANGED <<limits, next_entity_id, task, named>>

Detach(sq) ==
  /\ task = Idle
  /\ Occupied(sq)
  /\ slots' = [slots EXCEPT ![sq] = 0]
  /\ effects' = <<SlotsChanged(sq[1])>>
  /\ UNCHANGED <<items, limits, next_entity_id, task, named>>

(* Mutant: more is consumed than there is.                                 *)
ConsumeUnchecked(e, count) ==
  /\ task = Idle
  /\ e \in DOMAIN items
  /\ items' = [items EXCEPT ![e].count = @ - count]
  /\ effects' = <<ItemChanged(e)>>
  /\ UNCHANGED <<slots, limits, next_entity_id, task, named>>

ConsumeLoose(e, count) ==
  /\ task = Idle
  /\ e \in DOMAIN items /\ items[e].count >= count
  /\ \/ /\ items[e].count = count
        /\ items' = Without(e)
        /\ effects' = <<ItemRemoved(e)>>
     \/ /\ items[e].count > count
        /\ items' = [items EXCEPT ![e].count = @ - count]
        /\ effects' = <<ItemChanged(e)>>
  /\ UNCHANGED <<slots, limits, next_entity_id, task, named>>

-----------------------------------------------------------------------------
(* What a client packet asks for. *)

Addressable(s, t) == s \in DOMAIN slots /\ t \in DOMAIN slots

TransferToSlot(s, t, count) ==
  /\ task = Idle
  /\ Addressable(s, t)
  /\ slots[s] # 0
  /\ \/ /\ CanSplit(s, t, count)
        /\ TrySplit(s, t, count)
     \/ /\ ~CanSplit(s, t, count)
        /\ CanMerge(s, t, count)
        /\ TryMerge(s, t, count, <<>>)
     \/ /\ ~CanSplit(s, t, count)
        /\ ~CanMerge(s, t, count)
        /\ Exchange(s, t, <<>>)
  /\ UNCHANGED <<limits, task>>

Swap(s, t) ==
  /\ task = Idle
  /\ Addressable(s, t)
  /\ s # t
  /\ slots[s] # 0
  /\ \/ CanMerge(s, t, 0) /\ TryMerge(s, t, 0, <<>>)
     \/ ~CanMerge(s, t, 0) /\ Exchange(s, t, <<>>)
  /\ UNCHANGED <<limits, task>>

(* Mutant: the stack goes and its square keeps naming it.                  *)
DestroyKeepsSquare(sq, count) ==
  /\ task = Idle
  /\ Occupied(sq)
  /\ items' = Without(slots[sq])
  /\ effects' = <<ItemRemoved(slots[sq])>>
  /\ UNCHANGED <<slots, limits, next_entity_id, task, named>>

Destroy(sq, count) ==
  /\ task = Idle
  /\ Occupied(sq)
  /\ LET item == slots[sq]
     IN  \/ /\ count > 0 /\ count < items[item].count
            /\ items' = [items EXCEPT ![item].count = @ - count]
            /\ effects' = <<ItemChanged(item)>>
            /\ UNCHANGED slots
         \/ /\ count = 0 \/ count >= items[item].count
            /\ items' = Without(item)
            /\ slots' = [slots EXCEPT ![sq] = 0]
            /\ effects' = <<SlotsChanged(sq[1]), ItemRemoved(item)>>
  /\ UNCHANGED <<limits, next_entity_id, task, named>>

Equip(o, bag, equip) ==
  /\ task = Idle
  /\ Addressable(<<o, bag>>, <<o, equip>>)
  /\ equip \notin HandSlots
  /\ slots[<<o, bag>>] # 0
  /\ Exchange(<<o, bag>>, <<o, equip>>, <<>>)
  /\ UNCHANGED <<limits, task>>

Unequip(o, equip) ==
  /\ task = Idle
  /\ equip \notin HandSlots
  /\ Occupied(<<o, equip>>)
  /\ FreeRucksack(o) # {}
  /\ Exchange(<<o, equip>>, First(FreeRucksack(o)), <<>>)
  /\ UNCHANGED <<limits, task>>

(***************************************************************************)
(* "Take all" walks the source's squares in order.  Each square is first   *)
(* offered to the matching stacks of the target ("merge"); what is left of *)
(* it then wants a free square ("place"), and without one the loop ends.   *)
(* The loop runs to its end before anything else does: the other actions   *)
(* wait for Idle.                                                          *)
(***************************************************************************)
TransferAll(source, target) ==
  /\ task = Idle
  /\ IsOpen(source) /\ IsOpen(target)
  /\ task' = [phase |-> "merge", source |-> source, target |-> target, at |-> 0]
  /\ effects' = <<>>
  /\ UNCHANGED <<slots, items, limits, next_entity_id, named>>

Cursor == <<task.source, task.at>>

MergeTargets == {t \in SquaresOf(task.target) : CanMerge(Cursor, t, 0)}

NextSquare == [phase  |-> "merge", source |-> task.source,
               target |-> task.target, at |-> task.at + 1]

TransferAllSkip ==
  /\ task.phase = "merge"
  /\ Cursor \in DOMAIN slots /\ slots[Cursor] = 0
  /\ task' = NextSquare
  /\ UNCHANGED <<slots, items, limits, next_entity_id, effects, named>>

(* Mutant: a square that merged in part is left behind.                    *)
MergeAndMoveOn ==
  /\ task.phase = "merge"
  /\ Occupied(Cursor)
  /\ \/ /\ MergeTargets # {}
        /\ TryMerge(Cursor, First(MergeTargets), 0, effects)
        /\ task' = NextSquare
     \/ /\ MergeTargets = {}
        /\ task' = [task EXCEPT !.phase = "place"]
        /\ UNCHANGED <<slots, items, next_entity_id, effects, named>>
  /\ UNCHANGED limits

TransferAllMerge ==
  /\ task.phase = "merge"
  /\ Occupied(Cursor)
  /\ \/ /\ MergeTargets # {}
        /\ TryMerge(Cursor, First(MergeTargets), 0, effects)
        /\ task' = IF slots'[Cursor] = 0 THEN NextSquare
                                         ELSE [task EXCEPT !.phase = "place"]
     \/ /\ MergeTargets = {}
        /\ task' = [task EXCEPT !.phase = "place"]
        /\ UNCHANGED <<slots, items, next_entity_id, effects, named>>
  /\ UNCHANGED limits

TransferAllPlace ==
  /\ task.phase = "place"
  /\ FreeRucksack(task.target) # {}
  /\ Exchange(Cursor, First(FreeRucksack(task.target)), effects)
  /\ task' = NextSquare
  /\ UNCHANGED limits

(* The last square is behind the cursor, or there is nowhere left to put one. *)
TransferAllEnd ==
  /\ \/ task.phase = "merge" /\ Cursor \notin DOMAIN slots
     \/ task.phase = "place" /\ FreeRucksack(task.target) = {}
  /\ task' = Idle
  /\ UNCHANGED <<slots, items, limits, next_entity_id, effects, named>>

TransferAllStep ==
  /\ task # Idle
  /\ TransferAllSkip \/ TransferAllMerge \/ TransferAllPlace \/ TransferAllEnd

(* The admin's "clear": every rucksack square is detached, worn things stay. *)
ClearRucksack(o) ==
  LET held == {sq \in SquaresOf(o) : sq[2] >= FirstRucksackSlot /\ slots[sq] # 0}
  IN  /\ task = Idle
      /\ held # {}
      /\ slots' = [sq \in DOMAIN slots |-> IF sq \in held THEN 0 ELSE slots[sq]]
      /\ effects' = [i \in 1 .. Cardinality(held) + 1 |-> SlotsChanged(o)]
      /\ UNCHANGED <<items, limits, next_entity_id, task, named>>

ReserveIdsFrom(next) ==
  /\ task = Idle
  /\ next > next_entity_id
  /\ next_entity_id' = next
  /\ effects' = <<>>
  /\ UNCHANGED <<slots, items, limits, task, named>>

SetLimits ==
  /\ task = Idle
  /\ limits # TableLimits
  /\ limits' = TableLimits
  /\ effects' = <<>>
  /\ UNCHANGED <<slots, items, next_entity_id, task, named>>

-----------------------------------------------------------------------------
Init ==
  /\ slots = [sq \in {} |-> 0]
  /\ items = [e \in {} |-> e]
  /\ limits = [n \in Names |-> DefaultStackLimit]
  /\ next_entity_id = FirstEntityId
  /\ effects = <<>>
  /\ task = Idle
  /\ named = {}

(* Owners are opened once, under an id nobody else has.                    *)
OpenNew == \E o \in Owners : ~IsOpen(o) /\ Open(o, SizeOf[o])

(* Where stacks come from: the game, the floor, another session's floor.   *)
Seed ==
  \/ \E sq \in DOMAIN slots, n \in Names, c \in StackSizes : Give(sq, n, c)
  \/ \E n \in Names, c \in StackSizes : CreateLoose(n, c)
  \/ \E e \in FirstEntityId .. MaxEntityId, n \in Names, c \in StackSizes :
       /\ e \notin named \/ Loose(e)
       /\ CreateLooseWithId(e, n, c)

(* What moves a stack and must lose nothing of it.                         *)
Move ==
  \/ \E s, t \in DOMAIN slots, c \in Counts : TransferToSlot(s, t, c)
  \/ \E s, t \in DOMAIN slots : Swap(s, t)
  \/ \E o \in Owners, e \in DOMAIN items : Loose(e) /\ Collect(o, e)
  \/ \E sq \in DOMAIN slots : Detach(sq)
  \/ \E s, t \in DOMAIN slots : s[1] = t[1] /\ Equip(s[1], s[2], t[2])
  \/ \E sq \in DOMAIN slots : Unequip(sq[1], sq[2])
  \/ \E o, p \in Owners : TransferAll(o, p)
  \/ TransferAllStep
  \/ \E o \in Owners : ClearRucksack(o)

(* What uses a stack up.                                                   *)
Spend ==
  \/ \E sq \in DOMAIN slots, c \in Counts : Destroy(sq, c)
  \/ \E e \in DOMAIN items, c \in Counts : Loose(e) /\ c > 0 /\ ConsumeLoose(e, c)
  \/ \E o \in Owners : Close(o)

Administer ==
  \/ \E n \in FirstEntityId .. MaxEntityId + 1 : ReserveIdsFrom(n)
  \/ SetLimits

Next == OpenNew \/ Seed \/ Move \/ Spend \/ Administer

Spec == Init /\ [][Next]_vars /\ WF_vars(TransferAllStep)

-----------------------------------------------------------------------------
(* Properties. *)

Task == {Idle} \cup [phase : {"merge", "place"}, source : Owners,
                     target : Owners, at : Nat]

(* Every variable has its type: squares hold ids, ids name stacks.         *)
TypeOK ==
  /\ DOMAIN slots \subseteq Square /\ IsFiniteSet(DOMAIN slots)
  /\ slots \in [DOMAIN slots -> Nat]
  /\ DOMAIN items \subseteq Nat \ {0}
  /\ items \in [DOMAIN items -> Stack]
  /\ limits \in [Names -> Nat]
  /\ next_entity_id \in Nat \ {0}
  /\ effects \in Seq(Effect)
  /\ task \in Task
  /\ named \subseteq Nat \ {0}

(* A square never names a stack that is gone: draining, merging, trashing  *)
(* and closing take the square and the stack together (try_merge, destroy, *)
(* collect, close).                                                        *)
NoDanglingSlot == \A sq \in DOMAIN slots : slots[sq] # 0 => slots[sq] \in DOMAIN items

(* No stack is in two squares, in one inventory or in two: the client sums *)
(* both references and draws a stack of 50 as 150 (equip's own comment).   *)
NoSharedStack ==
  \A s, t \in DOMAIN slots : s # t /\ slots[s] # 0 => slots[s] # slots[t]

(* The allocator is ahead of every id the model has ever held, so what it  *)
(* mints next is new, foreign floor drops included (create_stack,          *)
(* create_loose_with_id, reserve_ids_from).                                *)
AllocatorAhead ==
  /\ DOMAIN items \subseteq named
  /\ \A e \in named : e < next_entity_id

(* An id that has named a stack never comes to name another one, not even  *)
(* after the first is gone: the client would destroy what it holds.        *)
IdsNeverReused == [][(DOMAIN items' \ DOMAIN items) \cap named = {}]_vars

HowMany(stack, name) == IF stack.name = name THEN stack.count ELSE 0

Total(name) == SumFunction([e \in DOMAIN items |-> HowMany(items[e], name)])

(* A drag, a split, a merge, a "take all", an equip or a pickup neither    *)
(* makes nor loses any item, however stacks are cut up on the way: how     *)
(* many there are of a thing changes only when the game hands one out or   *)
(* one is used up.                                                         *)
MovesConserve ==
  [][(\E n \in Names : Total(n)' # Total(n)) => Seed \/ Spend]_vars

(* A "take all" comes to an end, whatever it meets on the way, and it stops*)
(* early only when the destination is full: when the loop is over the      *)
(* source is empty or the target has no free rucksack square.              *)
TakeAllIsThorough ==
  \A s, t \in Owners :
    s # t /\ task # Idle /\ task.source = s /\ task.target = t
      ~> /\ task = Idle
         /\ FreeRucksack(t) = {} \/ \A sq \in SquaresOf(s) : slots[sq] = 0
=============================================================================
