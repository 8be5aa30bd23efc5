------------------------- MODULE InventoriesProofs -------------------------
(***************************************************************************)
(* Theorems about Inventories, for every set of owners, every layout and   *)
(* every limit, and about Belongings, which extends it.  The invariant the *)
(* four safety invariants of Inventories are proved from is their          *)
(* conjunction: each needs the others (a freshly minted stack is in no     *)
(* square because no square names what is not a stack, and it is not a     *)
(* stack because the allocator is ahead of them all).                      *)
(***************************************************************************)
EXTENDS Belongings, Facts

IInv == TypeOK /\ NoDanglingSlot /\ NoSharedStack /\ AllocatorAhead

-----------------------------------------------------------------------------
(* Lemmas about the operators. *)

(* A scan of squares that finds anything stops at one of them.             *)
LEMMA FirstIsMember ==
  ASSUME NEW S, S # {}, \A sq \in S : sq[2] \in Nat
  PROVE  First(S) \in S
<1> DEFINE T == {sq[2] : sq \in S}
<1>1. T \subseteq Nat /\ T # {}
  OBVIOUS
<1>2. PICK x \in T : \A y \in T : x <= y
  BY <1>1, LeastIs
<1>3. PICK sq \in S : sq[2] = x
  OBVIOUS
<1>4. \A other \in S : sq[2] <= other[2]
  BY <1>2, <1>3
<1>5. QED BY <1>4 DEF First

(* The squares a scan looks at are squares.                                *)
LEMMA FreeIsFree ==
  ASSUME TypeOK, NEW o, FreeRucksack(o) # {}
  PROVE  /\ First(FreeRucksack(o)) \in DOMAIN slots
         /\ First(FreeRucksack(o))[1] = o
         /\ slots[First(FreeRucksack(o))] = 0
<1>1. \A sq \in FreeRucksack(o) : sq[2] \in Nat
  BY DEF FreeRucksack, SquaresOf, TypeOK, Square
<1>2. First(FreeRucksack(o)) \in FreeRucksack(o)
  BY <1>1, FirstIsMember
<1>3. QED BY <1>2 DEF FreeRucksack, SquaresOf

(* There is room in a stack only up to its limit, and never less than none. *)
LEMMA RoomType ==
  ASSUME TypeOK, NEW e \in DOMAIN items
  PROVE  Room(e) \in Nat
BY DEF Room, TypeOK, Stack

(* What a merge moves is a number, and no more than there is to move.      *)
LEMMA MovedType ==
  ASSUME TypeOK, NoDanglingSlot, NEW s, NEW t, Occupied(s), Occupied(t),
         NEW count \in Nat
  PROVE  /\ slots[s] \in DOMAIN items
         /\ slots[t] \in DOMAIN items
         /\ Moved(s, t, count) \in Nat
         /\ Moved(s, t, count) <= items[slots[s]].count
<1>1. slots[s] \in DOMAIN items /\ slots[t] \in DOMAIN items
  BY DEF NoDanglingSlot, Occupied
<1>2. Room(slots[t]) \in Nat
  BY <1>1, RoomType
<1>3. items[slots[s]].count \in Nat
  BY <1>1 DEF TypeOK, Stack
<1>4. QED BY <1>1, <1>2, <1>3 DEF Moved, MinOf

-----------------------------------------------------------------------------
(* The primitives keep the invariant's parts about squares and stacks. *)

(* Exchanging two squares (exchange) puts no stack in two of them.         *)
LEMMA ExchangeSafe ==
  ASSUME IInv, NEW s \in DOMAIN slots, NEW t \in DOMAIN slots,
         NEW done \in Seq(Effect), Exchange(s, t, done)
  PROVE  /\ DOMAIN slots' = DOMAIN slots
         /\ slots' \in [DOMAIN slots -> Nat]
         /\ effects' \in Seq(Effect)
         /\ NoDanglingSlot' /\ NoSharedStack'
<1>1. slots' = [slots EXCEPT ![s] = slots[t], ![t] = slots[s]] /\ items' = items
  BY DEF Exchange
<1>2. /\ DOMAIN slots' = DOMAIN slots
      /\ slots' \in [DOMAIN slots -> Nat]
      /\ \A q \in DOMAIN slots : slots'[q] = IF q = t THEN slots[s]
                                 ELSE IF q = s THEN slots[t] ELSE slots[q]
  BY <1>1 DEF IInv, TypeOK
<1>3. effects' \in Seq(Effect)
  <2>1. s[1] \in Owners /\ t[1] \in Owners
    BY DEF IInv, TypeOK, Square
  <2>2. SlotsChanged(s[1]) \in Effect /\ SlotsChanged(t[1]) \in Effect
    BY <2>1 DEF SlotsChanged, Effect
  <2>3. <<SlotsChanged(s[1])>> \in Seq(Effect)
    BY <2>2
  <2>4. <<SlotsChanged(s[1]), SlotsChanged(t[1])>> \in Seq(Effect)
    BY <2>2
  <2> HIDE DEF SlotsChanged, Effect
  <2>5. QED BY <2>3, <2>4 DEF Exchange
<1>4. NoDanglingSlot'
  BY <1>1, <1>2 DEF IInv, NoDanglingSlot
<1>5. NoSharedStack'
  BY <1>2 DEF IInv, NoSharedStack
<1>6. QED BY <1>2, <1>3, <1>4, <1>5

(* A merge (try_merge) removes the drained stack with its square.          *)
LEMMA TryMergeSafe ==
  ASSUME IInv, NEW s \in DOMAIN slots, NEW t \in DOMAIN slots, NEW count \in Nat,
         NEW done \in Seq(Effect), CanMerge(s, t, count),
         TryMerge(s, t, count, done)
  PROVE  /\ DOMAIN slots' = DOMAIN slots
         /\ slots' \in [DOMAIN slots -> Nat]
         /\ DOMAIN items' \subseteq DOMAIN items
         /\ items' \in [DOMAIN items' -> Stack]
         /\ effects' \in Seq(Effect)
         /\ NoDanglingSlot' /\ NoSharedStack'
<1> DEFINE from == slots[s]
           into == slots[t]
           moved == Moved(s, t, count)
           left == items[from].count - moved
           grown == [items EXCEPT ![into].count = @ + moved]
<1>1. /\ s # t /\ from # 0 /\ into # 0
      /\ from \in DOMAIN items /\ into \in DOMAIN items
      /\ moved \in Nat /\ moved <= items[from].count
  BY MovedType DEF CanMerge, Occupied, IInv
<1>2. from # into
  BY <1>1 DEF IInv, NoSharedStack
<1>3. items \in [DOMAIN items -> Stack]
  BY DEF IInv, TypeOK
<1>4. grown \in [DOMAIN items -> Stack]
  <2>1. items[into].count + moved \in Nat
    BY <1>1, <1>3 DEF Stack
  <2> HIDE DEF moved
  <2>2. QED BY <1>1, <1>3, <2>1 DEF Stack
<1>5. left \in Nat
  BY <1>1, <1>3 DEF Stack
<1>6. s[1] \in Owners
  BY DEF IInv, TypeOK, Square
<1>7. from \in Nat /\ into \in Nat
  BY DEF IInv, TypeOK
<1>8. /\ ItemChanged(from) \in Effect /\ ItemChanged(into) \in Effect
      /\ ItemRemoved(from) \in Effect /\ SlotsChanged(s[1]) \in Effect
  BY <1>6, <1>7 DEF ItemChanged, ItemRemoved, SlotsChanged, Effect
<1>9. CASE left > 0
  <2>1. /\ items' = [grown EXCEPT ![from].count = left]
        /\ slots' = slots
        /\ effects' = done \o <<ItemChanged(into), ItemChanged(from)>>
    BY <1>9 DEF TryMerge
  <2> HIDE DEF left, grown, from, into
  <2>2. items' \in [DOMAIN items -> Stack] /\ DOMAIN items' = DOMAIN items
    BY <2>1, <1>4, <1>5, <1>1 DEF Stack
  <2>3. effects' \in Seq(Effect)
    <3>1. <<ItemChanged(into), ItemChanged(from)>> \in Seq(Effect)
      BY <1>8
    <3>2. QED BY <3>1, <2>1
  <2>4. QED BY <2>1, <2>2, <2>3 DEF IInv, TypeOK, NoDanglingSlot, NoSharedStack
<1>10. CASE left = 0
  <2>1. /\ items' = [x \in DOMAIN items \ {from} |-> grown[x]]
        /\ slots' = [slots EXCEPT ![s] = 0]
        /\ effects' = done \o <<ItemChanged(into), SlotsChanged(s[1]), ItemRemoved(from)>>
    BY <1>10 DEF TryMerge
  <2> HIDE DEF left, grown, into
  <2>2. /\ items' \in [DOMAIN items' -> Stack]
        /\ DOMAIN items' = DOMAIN items \ {from}
    BY <2>1, <1>4
  <2>3. effects' \in Seq(Effect)
    <3>1. <<ItemChanged(into), SlotsChanged(s[1]), ItemRemoved(from)>> \in Seq(Effect)
      BY <1>8
    <3>2. QED BY <3>1, <2>1
  <2>4. /\ DOMAIN slots' = DOMAIN slots
        /\ slots' \in [DOMAIN slots -> Nat]
        /\ \A q \in DOMAIN slots : slots'[q] = IF q = s THEN 0 ELSE slots[q]
    BY <2>1 DEF IInv, TypeOK
  <2>5. NoDanglingSlot'
    BY <2>2, <2>4 DEF IInv, NoDanglingSlot, NoSharedStack
  <2>6. NoSharedStack'
    BY <2>4 DEF IInv, NoSharedStack
  <2>7. QED BY <2>2, <2>3, <2>4, <2>5, <2>6
<1>11. QED BY <1>5, <1>9, <1>10

-----------------------------------------------------------------------------
(* The initial state, and one lemma per group of operations. *)

(* A session starts with no squares and no stacks (Inventories::new).      *)
LEMMA InitInvariant == Init => IInv
<1> SUFFICES ASSUME Init PROVE IInv
  OBVIOUS
<1>1. IsFiniteSet({})
  BY FS_EmptySet
<1>2. DOMAIN slots = {} /\ slots \in [DOMAIN slots -> Nat]
  BY DEF Init
<1>3. DOMAIN items = {} /\ items \in [DOMAIN items -> Stack]
  BY DEF Init
<1>4. TypeOK
  BY <1>1, <1>2, <1>3, InventoriesAssumption DEF Init, TypeOK, Task
<1>5. NoDanglingSlot /\ NoSharedStack /\ AllocatorAhead
  BY <1>2, <1>3 DEF Init, NoDanglingSlot, NoSharedStack, AllocatorAhead
<1>6. QED BY <1>4, <1>5 DEF IInv

(* A stack that is minted is new: its id is in no square and names nothing. *)
LEMMA MintIsNew ==
  ASSUME IInv
  PROVE  /\ next_entity_id \in Nat \ {0}
         /\ next_entity_id \notin DOMAIN items
         /\ next_entity_id \notin named
         /\ \A sq \in DOMAIN slots : slots[sq] # next_entity_id
<1>1. next_entity_id \in Nat \ {0} /\ named \subseteq Nat
  BY DEF IInv, TypeOK
<1>2. next_entity_id \notin named
  BY <1>1 DEF IInv, AllocatorAhead
<1>3. next_entity_id \notin DOMAIN items
  BY <1>2 DEF IInv, AllocatorAhead
<1>4. QED BY <1>1, <1>2, <1>3 DEF IInv, NoDanglingSlot

(* Opening, closing and clearing change which squares there are or empty   *)
(* some; none of them puts a stack anywhere.                               *)
LEMMA OpenSafe ==
  ASSUME IInv, NEW o \in Owners, NEW size \in Nat, Open(o, size)
  PROVE  IInv'
<1> DEFINE others == {q \in DOMAIN slots : q[1] # o}
           fresh == {o} \X (0 .. size - 1)
<1>1. /\ DOMAIN slots' = others \cup fresh
      /\ \A q \in others \cup fresh : slots'[q] = IF q[1] = o THEN 0 ELSE slots[q]
      /\ slots' = [q \in others \cup fresh |-> IF q[1] = o THEN 0 ELSE slots[q]]
      /\ effects' = <<SlotsChanged(o)>>
      /\ UNCHANGED <<items, limits, next_entity_id, task, named>>
  BY DEF Open
<1>2. IsFiniteSet(others \cup fresh)
  <2>1. IsFiniteSet(others)
    BY FS_Subset DEF IInv, TypeOK
  <2>2. IsFiniteSet(0 .. size - 1)
    BY FS_Interval
  <2>3. IsFiniteSet(fresh)
    <3>1. IsFiniteSet({o})
      BY FS_Singleton
    <3> HIDE DEF fresh
    <3>2. QED BY <3>1, <2>2, FS_Product DEF fresh
  <2>4. QED BY <2>1, <2>3, FS_Union
<1>3. others \cup fresh \subseteq Square
  BY DEF IInv, TypeOK, Square
<1>4. \A q \in fresh : q[1] = o
  OBVIOUS
<1>5. slots' \in [others \cup fresh -> Nat]
  BY <1>1, <1>4 DEF IInv, TypeOK
<1>6. effects' \in Seq(Effect)
  BY <1>1 DEF SlotsChanged, Effect
<1>7. TypeOK'
  BY <1>1, <1>2, <1>3, <1>5, <1>6 DEF IInv, TypeOK
<1> HIDE DEF fresh
<1>8. \A q \in DOMAIN slots' : slots'[q] # 0 => q \in DOMAIN slots /\ slots[q] = slots'[q]
  BY <1>1, <1>4
<1>9. NoDanglingSlot' /\ NoSharedStack' /\ AllocatorAhead'
  BY <1>1, <1>8 DEF IInv, NoDanglingSlot, NoSharedStack, AllocatorAhead
<1>10. QED BY <1>7, <1>9 DEF IInv

(* Closing an inventory takes its squares and their stacks together.       *)
LEMMA CloseSafe ==
  ASSUME IInv, NEW o \in Owners, Close(o)
  PROVE  IInv'
<1> DEFINE others == {q \in DOMAIN slots : q[1] # o}
           gone == {slots[sq] : sq \in SquaresOf(o)}
<1>1. /\ slots' = [q \in others |-> slots[q]]
      /\ items' = [x \in DOMAIN items \ gone |-> items[x]]
      /\ effects' = <<>>
      /\ UNCHANGED <<limits, next_entity_id, task, named>>
  BY DEF Close
<1>2. IsFiniteSet(others)
  BY FS_Subset DEF IInv, TypeOK
<1>3. TypeOK'
  BY <1>1, <1>2 DEF IInv, TypeOK
<1>4. NoDanglingSlot'
  <2> SUFFICES ASSUME NEW sq \in others, slots[sq] # 0 PROVE slots[sq] \in DOMAIN items'
    BY <1>1 DEF NoDanglingSlot
  <2>1. \A q \in SquaresOf(o) : q \in DOMAIN slots /\ q # sq
    BY DEF SquaresOf
  <2>2. slots[sq] \notin gone
    BY <2>1 DEF IInv, NoSharedStack
  <2>3. QED BY <1>1, <2>2 DEF IInv, NoDanglingSlot
<1>5. NoSharedStack' /\ AllocatorAhead'
  BY <1>1 DEF IInv, NoSharedStack, AllocatorAhead
<1>6. QED BY <1>3, <1>4, <1>5 DEF IInv

(* Emptying a rucksack (clear_rucksack) does as well.                      *)
LEMMA ClearRucksackSafe ==
  ASSUME IInv, NEW o \in Owners, ClearRucksack(o)
  PROVE  IInv'
<1> DEFINE held == {sq \in SquaresOf(o) : sq[2] >= FirstRucksackSlot /\ slots[sq] # 0}
<1>1. /\ slots' = [sq \in DOMAIN slots |-> IF sq \in held THEN 0 ELSE slots[sq]]
      /\ effects' = [i \in 1 .. Cardinality(held) + 1 |-> SlotsChanged(o)]
      /\ UNCHANGED <<items, limits, next_entity_id, task, named>>
  BY DEF ClearRucksack
<1>2. Cardinality(held) \in Nat
  <2>1. IsFiniteSet(held)
    BY FS_Subset DEF IInv, TypeOK, SquaresOf
  <2>2. QED BY <2>1, FS_CardinalityType
<1>3. effects' \in Seq(Effect)
  <2>1. SlotsChanged(o) \in Effect
    BY DEF SlotsChanged, Effect
  <2> HIDE DEF held
  <2>2. effects' \in [1 .. Cardinality(held) + 1 -> Effect]
    BY <1>1, <2>1
  <2>3. Cardinality(held) + 1 \in Nat
    BY <1>2
  <2>4. QED BY <2>2, <2>3
<1> HIDE DEF held
<1>4. TypeOK'
  BY <1>1, <1>3 DEF IInv, TypeOK
<1>5. NoDanglingSlot' /\ NoSharedStack' /\ AllocatorAhead'
  BY <1>1 DEF IInv, NoDanglingSlot, NoSharedStack, AllocatorAhead
<1>6. QED BY <1>4, <1>5 DEF IInv

-----------------------------------------------------------------------------
(* Minting: what is handed out, what lands on the floor, a foreign drop.   *)

(* A stack given to an empty square (give) is in no other.                 *)
LEMMA GiveSafe ==
  ASSUME IInv, NEW sq \in DOMAIN slots, NEW name \in Names, NEW count \in Nat,
         Give(sq, name, count)
  PROVE  IInv'
<1> DEFINE e == next_entity_id
<1>1. /\ slots[sq] = 0
      /\ slots' = [slots EXCEPT ![sq] = e]
      /\ items' = [x \in DOMAIN items \cup {e} |->
                     IF x = e THEN [name |-> name, count |-> count] ELSE items[x]]
      /\ effects' = <<ItemCreated(e), SlotsChanged(sq[1])>>
      /\ next_entity_id' = e + 1 /\ named' = named \cup {e}
      /\ UNCHANGED <<limits, task>>
  BY DEF Give, CreateStack, Announcement
<1>2. /\ e \in Nat \ {0} /\ e \notin DOMAIN items /\ e \notin named
      /\ \A q \in DOMAIN slots : slots[q] # e
  BY MintIsNew
<1> HIDE DEF e
<1>3. /\ DOMAIN slots' = DOMAIN slots /\ slots' \in [DOMAIN slots -> Nat]
      /\ \A q \in DOMAIN slots : slots'[q] = IF q = sq THEN e ELSE slots[q]
  BY <1>1, <1>2 DEF IInv, TypeOK
<1>4. DOMAIN items' = DOMAIN items \cup {e} /\ items' \in [DOMAIN items' -> Stack]
  <2>1. [name |-> name, count |-> count] \in Stack
    BY InventoriesAssumption DEF Stack
  <2>2. QED BY <1>1, <2>1 DEF IInv, TypeOK
<1>5. effects' \in Seq(Effect)
  <2>1. ItemCreated(e) \in Effect
    BY <1>2 DEF ItemCreated, Effect
  <2>2. SlotsChanged(sq[1]) \in Effect
    BY DEF SlotsChanged, Effect, IInv, TypeOK, Square
  <2>3. QED BY <1>1, <2>1, <2>2
<1>6. TypeOK'
  BY <1>1, <1>2, <1>3, <1>4, <1>5 DEF IInv, TypeOK
<1>7. NoDanglingSlot' /\ NoSharedStack'
  BY <1>2, <1>3, <1>4 DEF IInv, NoDanglingSlot, NoSharedStack
<1>8. AllocatorAhead'
  BY <1>1, <1>2, <1>4 DEF IInv, TypeOK, AllocatorAhead, e
<1>9. QED BY <1>6, <1>7, <1>8 DEF IInv

(* A loose stack (create_loose) is in no square at all.                    *)
LEMMA CreateLooseSafe ==
  ASSUME IInv, NEW name \in Names, NEW count \in StackSizes, CreateLoose(name, count)
  PROVE  IInv'
<1> DEFINE e == next_entity_id
<1>1. /\ items' = [x \in DOMAIN items \cup {e} |->
                     IF x = e THEN [name |-> name, count |-> count] ELSE items[x]]
      /\ effects' = <<ItemCreated(e)>>
      /\ next_entity_id' = e + 1 /\ named' = named \cup {e}
      /\ UNCHANGED <<slots, limits, task>>
  BY DEF CreateLoose, CreateStack
<1>2. e \in Nat \ {0} /\ e \notin DOMAIN items
  BY MintIsNew
<1> HIDE DEF e
<1>3. DOMAIN items' = DOMAIN items \cup {e} /\ items' \in [DOMAIN items' -> Stack]
  <2>1. [name |-> name, count |-> count] \in Stack
    BY InventoriesAssumption DEF Stack
  <2>2. QED BY <1>1, <2>1 DEF IInv, TypeOK
<1>4. effects' \in Seq(Effect)
  BY <1>1, <1>2 DEF ItemCreated, Effect
<1>5. TypeOK'
  BY <1>1, <1>2, <1>3, <1>4 DEF IInv, TypeOK
<1>6. NoDanglingSlot' /\ NoSharedStack'
  BY <1>1, <1>3 DEF IInv, NoDanglingSlot, NoSharedStack
<1>7. AllocatorAhead'
  BY <1>1, <1>2, <1>3 DEF IInv, TypeOK, AllocatorAhead, e
<1>8. QED BY <1>5, <1>6, <1>7 DEF IInv

(* A stack from another session (create_loose_with_id) moves the           *)
(* allocator past its id.                                                  *)
LEMMA CreateLooseWithIdSafe ==
  ASSUME IInv, NEW e \in Nat \ {0}, NEW name \in Names, NEW count \in Nat,
         CreateLooseWithId(e, name, count)
  PROVE  IInv'
<1>1. e \in Nat \ {0}
  BY InventoriesAssumption
<1>2. next_entity_id \in Nat \ {0}
  BY DEF IInv, TypeOK
<1>3. /\ next_entity_id' \in Nat \ {0}
      /\ next_entity_id' >= next_entity_id /\ e < next_entity_id'
      /\ UNCHANGED <<slots, limits, task>>
  BY <1>1, <1>2 DEF CreateLooseWithId, MaxOf
<1>4. CASE e \in DOMAIN items
  <2>1. effects' = <<>> /\ UNCHANGED <<items, named>>
    BY <1>4 DEF CreateLooseWithId
  <2>2. TypeOK'
    BY <1>3, <2>1 DEF IInv, TypeOK
  <2>3. NoDanglingSlot' /\ NoSharedStack'
    BY <1>3, <2>1 DEF IInv, NoDanglingSlot, NoSharedStack
  <2>4. AllocatorAhead'
    BY <1>2, <1>3, <2>1 DEF IInv, TypeOK, AllocatorAhead
  <2>5. QED BY <2>2, <2>3, <2>4 DEF IInv
<1>5. CASE e \notin DOMAIN items
  <2>1. /\ items' = [x \in DOMAIN items \cup {e} |->
                       IF x = e THEN [name |-> name, count |-> count] ELSE items[x]]
        /\ named' = named \cup {e}
        /\ effects' = <<ItemCreated(e)>>
    BY <1>5 DEF CreateLooseWithId
  <2>2. DOMAIN items' = DOMAIN items \cup {e} /\ items' \in [DOMAIN items' -> Stack]
    <3>1. [name |-> name, count |-> count] \in Stack
      BY InventoriesAssumption DEF Stack
    <3>2. QED BY <2>1, <3>1 DEF IInv, TypeOK
  <2>3. effects' \in Seq(Effect)
    BY <1>1, <2>1 DEF ItemCreated, Effect
  <2>4. TypeOK'
    BY <1>1, <1>3, <2>1, <2>2, <2>3 DEF IInv, TypeOK
  <2>5. NoDanglingSlot' /\ NoSharedStack'
    BY <1>3, <2>2 DEF IInv, NoDanglingSlot, NoSharedStack
  <2>6. AllocatorAhead'
    BY <1>1, <1>2, <1>3, <2>1, <2>2 DEF IInv, TypeOK, AllocatorAhead
  <2>7. QED BY <2>4, <2>5, <2>6 DEF IInv
<1>6. QED BY <1>4, <1>5

-----------------------------------------------------------------------------
(* Picking up, putting down and using up. *)

(* A loose stack that is collected joins another or gets one square.       *)
LEMMA CollectSafe ==
  ASSUME IInv, NEW o \in Owners, NEW e \in DOMAIN items, Loose(e), Collect(o, e)
  PROVE  IInv'
<1>1. /\ items \in [DOMAIN items -> Stack] /\ slots \in [DOMAIN slots -> Nat]
      /\ e \in Nat \ {0}
      /\ UNCHANGED <<limits, next_entity_id, task, named>>
  BY DEF IInv, TypeOK, Collect
<1>2. CASE CollectMerging(o, e)
  <2> DEFINE sq == First(Mergeable(o, e))
             into == slots[sq]
             moved == MinOf(items[e].count, Room(into))
             leftover == items[e].count - moved
             grown == [items EXCEPT ![into].count = @ + moved]
  <2>1. sq \in Mergeable(o, e)
    <3>1. Mergeable(o, e) # {}
      BY <1>2 DEF CollectMerging
    <3>2. \A q \in Mergeable(o, e) : q[2] \in Nat
      BY DEF Mergeable, SquaresOf, IInv, TypeOK, Square
    <3>3. QED BY <3>1, <3>2, FirstIsMember
  <2>2. into # 0 /\ into \in DOMAIN items /\ into \in Nat /\ into # e
    BY <2>1 DEF Mergeable, SquaresOf, IInv, NoDanglingSlot, Loose, TypeOK
  <2>3. moved \in Nat /\ leftover \in Nat
    <3>1. Room(into) \in Nat
      BY <2>2, RoomType DEF IInv
    <3>2. items[e].count \in Nat
      BY <1>1 DEF Stack
    <3>3. QED BY <3>1, <3>2 DEF MinOf
  <2>4. grown \in [DOMAIN items -> Stack]
    <3> HIDE DEF moved, into
    <3>1. items[into].count + moved \in Nat
      BY <1>1, <2>2, <2>3 DEF Stack
    <3>2. QED BY <1>1, <2>2, <3>1 DEF Stack
  <2>5. slots' = slots
    BY <1>2 DEF CollectMerging
  <2>6. /\ ItemChanged(into) \in Effect /\ ItemChanged(e) \in Effect
        /\ ItemRemoved(e) \in Effect
    BY <1>1, <2>2 DEF ItemChanged, ItemRemoved, Effect
  <2>7. CASE leftover = 0
    <3>1. /\ items' = [x \in DOMAIN items \ {e} |-> grown[x]]
          /\ effects' = <<ItemChanged(into), ItemRemoved(e)>>
      BY <1>2, <2>7 DEF CollectMerging
    <3> HIDE DEF grown, into
    <3>2. DOMAIN items' = DOMAIN items \ {e} /\ items' \in [DOMAIN items' -> Stack]
      BY <3>1, <2>4
    <3>3. effects' \in Seq(Effect)
      BY <3>1, <2>6
    <3>4. TypeOK'
      BY <1>1, <2>5, <3>2, <3>3 DEF IInv, TypeOK
    <3>5. NoDanglingSlot' /\ NoSharedStack' /\ AllocatorAhead'
      BY <1>1, <2>5, <3>2
         DEF IInv, NoDanglingSlot, NoSharedStack, AllocatorAhead, Loose
    <3>6. QED BY <3>4, <3>5 DEF IInv
  <2>8. CASE leftover > 0
    <3>1. /\ items' = [grown EXCEPT ![e].count = leftover]
          /\ effects' = <<ItemChanged(into), ItemChanged(e)>>
      BY <1>2, <2>8 DEF CollectMerging
    <3> HIDE DEF grown, into, leftover
    <3>2. DOMAIN items' = DOMAIN items /\ items' \in [DOMAIN items' -> Stack]
      BY <3>1, <2>3, <2>4 DEF Stack
    <3>3. effects' \in Seq(Effect)
      BY <3>1, <2>6
    <3>4. TypeOK'
      BY <1>1, <2>5, <3>2, <3>3 DEF IInv, TypeOK
    <3>5. NoDanglingSlot' /\ NoSharedStack' /\ AllocatorAhead'
      BY <1>1, <2>5, <3>2 DEF IInv, NoDanglingSlot, NoSharedStack, AllocatorAhead
    <3>6. QED BY <3>4, <3>5 DEF IInv
  <2>9. QED BY <2>3, <2>7, <2>8
<1>3. CASE CollectIntoSquare(o, e)
  <2> DEFINE sq == First(FreeRucksack(o))
  <2>1. sq \in DOMAIN slots /\ slots[sq] = 0
    BY <1>3, FreeIsFree DEF CollectIntoSquare, IInv
  <2>2. slots' = [slots EXCEPT ![sq] = e] /\ effects' = <<SlotsChanged(o)>>
        /\ items' = items
    BY <1>3 DEF CollectIntoSquare
  <2> HIDE DEF sq
  <2>3. /\ DOMAIN slots' = DOMAIN slots /\ slots' \in [DOMAIN slots -> Nat]
        /\ \A q \in DOMAIN slots : slots'[q] = IF q = sq THEN e ELSE slots[q]
    BY <1>1, <2>1, <2>2
  <2>4. effects' \in Seq(Effect)
    BY <2>2 DEF SlotsChanged, Effect
  <2>5. TypeOK'
    BY <1>1, <2>2, <2>3, <2>4 DEF IInv, TypeOK
  <2>6. NoDanglingSlot' /\ NoSharedStack' /\ AllocatorAhead'
    BY <1>1, <2>2, <2>3 DEF IInv, NoDanglingSlot, NoSharedStack, AllocatorAhead, Loose
  <2>7. QED BY <2>5, <2>6 DEF IInv
<1>4. QED BY <1>2, <1>3 DEF Collect

(* Taking a stack out of its square (detach) leaves it loose.              *)
LEMMA DetachSafe ==
  ASSUME IInv, NEW sq \in DOMAIN slots, Detach(sq)
  PROVE  IInv'
<1>1. /\ slots' = [slots EXCEPT ![sq] = 0] /\ effects' = <<SlotsChanged(sq[1])>>
      /\ UNCHANGED <<items, limits, next_entity_id, task, named>>
  BY DEF Detach
<1>2. effects' \in Seq(Effect)
  BY <1>1 DEF SlotsChanged, Effect, IInv, TypeOK, Square
<1>3. TypeOK'
  BY <1>1, <1>2 DEF IInv, TypeOK
<1>4. NoDanglingSlot' /\ NoSharedStack' /\ AllocatorAhead'
  BY <1>1 DEF IInv, TypeOK, NoDanglingSlot, NoSharedStack, AllocatorAhead
<1>5. QED BY <1>3, <1>4 DEF IInv

(* A loose stack that is used up (consume_loose) was in no square.         *)
LEMMA ConsumeLooseSafe ==
  ASSUME IInv, NEW e \in DOMAIN items, Loose(e), NEW count \in Nat,
         ConsumeLoose(e, count)
  PROVE  IInv'
<1>1. /\ items \in [DOMAIN items -> Stack] /\ e \in Nat /\ count \in Nat
      /\ items[e].count >= count /\ items[e].count \in Nat
      /\ UNCHANGED <<slots, limits, next_entity_id, task, named>>
  BY InventoriesAssumption DEF IInv, TypeOK, Stack, ConsumeLoose
<1>2. CASE items' = Without(e) /\ effects' = <<ItemRemoved(e)>>
  <2>1. DOMAIN items' = DOMAIN items \ {e} /\ items' \in [DOMAIN items' -> Stack]
    BY <1>1, <1>2 DEF Without
  <2>2. effects' \in Seq(Effect)
    BY <1>1, <1>2 DEF ItemRemoved, Effect
  <2>3. TypeOK'
    BY <1>1, <2>1, <2>2 DEF IInv, TypeOK
  <2>4. NoDanglingSlot' /\ NoSharedStack' /\ AllocatorAhead'
    BY <1>1, <2>1 DEF IInv, NoDanglingSlot, NoSharedStack, AllocatorAhead, Loose
  <2>5. QED BY <2>3, <2>4 DEF IInv
<1>3. CASE /\ items[e].count > count /\ items' = [items EXCEPT ![e].count = @ - count]
           /\ effects' = <<ItemChanged(e)>>
  <2>1. items[e].count - count \in Nat
    BY <1>1, <1>3
  <2>2. DOMAIN items' = DOMAIN items /\ items' \in [DOMAIN items' -> Stack]
    BY <1>1, <1>3, <2>1 DEF Stack
  <2>3. effects' \in Seq(Effect)
    BY <1>1, <1>3 DEF ItemChanged, Effect
  <2>4. TypeOK'
    BY <1>1, <2>2, <2>3 DEF IInv, TypeOK
  <2>5. NoDanglingSlot' /\ NoSharedStack' /\ AllocatorAhead'
    BY <1>1, <2>2 DEF IInv, NoDanglingSlot, NoSharedStack, AllocatorAhead
  <2>6. QED BY <2>4, <2>5 DEF IInv
<1>4. QED BY <1>2, <1>3 DEF ConsumeLoose

(* A stack that is trashed (destroy) goes with its square.                 *)
LEMMA DestroySafe ==
  ASSUME IInv, NEW sq \in DOMAIN slots, NEW count \in Nat, Destroy(sq, count)
  PROVE  IInv'
<1> DEFINE item == slots[sq]
<1>1. /\ items \in [DOMAIN items -> Stack] /\ item \in DOMAIN items /\ item \in Nat
      /\ count \in Nat /\ items[item].count \in Nat /\ sq[1] \in Owners
      /\ UNCHANGED <<limits, next_entity_id, task, named>>
  BY InventoriesAssumption
     DEF IInv, TypeOK, NoDanglingSlot, Occupied, Square, Stack, Destroy
<1>2. CASE /\ count < items[item].count
           /\ items' = [items EXCEPT ![item].count = @ - count]
           /\ effects' = <<ItemChanged(item)>> /\ slots' = slots
  <2>1. items[item].count - count \in Nat
    BY <1>1, <1>2
  <2> HIDE DEF item
  <2>2. DOMAIN items' = DOMAIN items /\ items' \in [DOMAIN items' -> Stack]
    BY <1>1, <1>2, <2>1 DEF Stack
  <2>3. effects' \in Seq(Effect)
    BY <1>1, <1>2 DEF ItemChanged, Effect
  <2>4. TypeOK'
    BY <1>1, <1>2, <2>2, <2>3 DEF IInv, TypeOK
  <2>5. NoDanglingSlot' /\ NoSharedStack' /\ AllocatorAhead'
    BY <1>1, <1>2, <2>2 DEF IInv, NoDanglingSlot, NoSharedStack, AllocatorAhead
  <2>6. QED BY <2>4, <2>5 DEF IInv
<1>3. CASE /\ items' = Without(item) /\ slots' = [slots EXCEPT ![sq] = 0]
           /\ effects' = <<SlotsChanged(sq[1]), ItemRemoved(item)>>
  <2>1. DOMAIN items' = DOMAIN items \ {item} /\ items' \in [DOMAIN items' -> Stack]
    BY <1>1, <1>3 DEF Without
  <2>2. /\ DOMAIN slots' = DOMAIN slots /\ slots' \in [DOMAIN slots -> Nat]
        /\ \A q \in DOMAIN slots : slots'[q] = IF q = sq THEN 0 ELSE slots[q]
    BY <1>3 DEF IInv, TypeOK
  <2>3. effects' \in Seq(Effect)
    <3>1. SlotsChanged(sq[1]) \in Effect /\ ItemRemoved(item) \in Effect
      BY <1>1 DEF SlotsChanged, ItemRemoved, Effect
    <3>2. QED BY <1>3, <3>1
  <2>4. TypeOK'
    BY <1>1, <2>1, <2>2, <2>3 DEF IInv, TypeOK
  <2>5. NoDanglingSlot' /\ NoSharedStack' /\ AllocatorAhead'
    BY <1>1, <2>1, <2>2 DEF IInv, NoDanglingSlot, NoSharedStack, AllocatorAhead
  <2>6. QED BY <2>4, <2>5 DEF IInv
<1>4. QED BY <1>2, <1>3 DEF Destroy

-----------------------------------------------------------------------------
(* Moves between squares, from the lemmas about their primitives. *)

(* A move that mints nothing keeps the invariant if its primitive does.    *)
LEMMA MoveSafe ==
  ASSUME IInv,
         DOMAIN slots' = DOMAIN slots, slots' \in [DOMAIN slots -> Nat],
         DOMAIN items' \subseteq DOMAIN items, items' \in [DOMAIN items' -> Stack],
         effects' \in Seq(Effect), task' \in Task,
         UNCHANGED <<limits, next_entity_id, named>>,
         NoDanglingSlot', NoSharedStack'
  PROVE  IInv'
<1>1. TypeOK'
  BY DEF IInv, TypeOK
<1>2. AllocatorAhead'
  BY DEF IInv, AllocatorAhead
<1>3. QED BY <1>1, <1>2 DEF IInv

(* An exchange as part of a move.                                          *)
LEMMA ExchangeMoveSafe ==
  ASSUME IInv, NEW s \in DOMAIN slots, NEW t \in DOMAIN slots,
         NEW done \in Seq(Effect), Exchange(s, t, done), task' \in Task, limits' = limits
  PROVE  IInv'
<1>1. UNCHANGED <<items, next_entity_id, named>>
  BY DEF Exchange
<1>2. items \in [DOMAIN items -> Stack]
  BY DEF IInv, TypeOK
<1>3. QED BY <1>1, <1>2, ExchangeSafe, MoveSafe

(* A merge as part of a move.                                              *)
LEMMA TryMergeMoveSafe ==
  ASSUME IInv, NEW s \in DOMAIN slots, NEW t \in DOMAIN slots, NEW count \in Nat,
         NEW done \in Seq(Effect), CanMerge(s, t, count),
         TryMerge(s, t, count, done), task' \in Task, limits' = limits
  PROVE  IInv'
<1>1. UNCHANGED <<next_entity_id, named>>
  BY DEF TryMerge
<1>2. QED BY <1>1, TryMergeSafe, MoveSafe

(* A split (try_split) mints the stack it puts in the empty square.        *)
LEMMA TrySplitSafe ==
  ASSUME IInv, NEW s \in DOMAIN slots, NEW t \in DOMAIN slots, NEW count \in Nat,
         slots[s] # 0, CanSplit(s, t, count), TrySplit(s, t, count),
         UNCHANGED <<limits, task>>
  PROVE  IInv'
<1> DEFINE e == next_entity_id
           from == slots[s]
           rest == [items EXCEPT ![from].count = @ - count]
<1>1. /\ slots' = [slots EXCEPT ![t] = e]
      /\ items' = [x \in DOMAIN items \cup {e} |->
                     IF x = e THEN [name |-> items[from].name, count |-> count]
                              ELSE rest[x]]
      /\ effects' = <<ItemChanged(from), ItemCreated(e), SlotsChanged(t[1])>>
      /\ next_entity_id' = e + 1 /\ named' = named \cup {e}
  BY DEF TrySplit
<1>2. /\ from \in DOMAIN items /\ from \in Nat /\ t[1] \in Owners
      /\ items \in [DOMAIN items -> Stack]
  BY DEF IInv, TypeOK, NoDanglingSlot, Square
<1>3. items[from].count - count \in Nat
  BY <1>2 DEF CanSplit, Stack
<1>4. rest \in [DOMAIN items -> Stack]
  <2> HIDE DEF from
  <2>1. QED BY <1>2, <1>3 DEF Stack
<1>5. /\ e \in Nat \ {0} /\ e \notin DOMAIN items
      /\ \A q \in DOMAIN slots : slots[q] # e
  BY MintIsNew
<1>6. [name |-> items[from].name, count |-> count] \in Stack
  BY <1>2 DEF Stack
<1>7. effects' \in Seq(Effect)
  <2>1. /\ ItemChanged(from) \in Effect /\ ItemCreated(e) \in Effect
        /\ SlotsChanged(t[1]) \in Effect
    BY <1>2, <1>5 DEF ItemChanged, ItemCreated, SlotsChanged, Effect
  <2>2. QED BY <1>1, <2>1
<1> HIDE DEF e, from, rest
<1>8. DOMAIN items' = DOMAIN items \cup {e} /\ items' \in [DOMAIN items' -> Stack]
  BY <1>1, <1>4, <1>6
<1>9. /\ DOMAIN slots' = DOMAIN slots /\ slots' \in [DOMAIN slots -> Nat]
      /\ \A q \in DOMAIN slots : slots'[q] = IF q = t THEN e ELSE slots[q]
  BY <1>1, <1>5 DEF IInv, TypeOK
<1>10. TypeOK'
  BY <1>1, <1>5, <1>7, <1>8, <1>9 DEF IInv, TypeOK
<1>11. NoDanglingSlot' /\ NoSharedStack'
  BY <1>5, <1>8, <1>9 DEF IInv, NoDanglingSlot, NoSharedStack
<1>12. AllocatorAhead'
  BY <1>1, <1>5, <1>8 DEF IInv, TypeOK, AllocatorAhead, e
<1>13. QED BY <1>10, <1>11, <1>12 DEF IInv

(* Everything a client packet may ask of the inventories.                  *)
LEMMA ClientMoveSafe ==
  ASSUME IInv,
         \/ \E s, t \in DOMAIN slots, c \in Counts : TransferToSlot(s, t, c)
         \/ \E s, t \in DOMAIN slots : Swap(s, t)
         \/ \E s, t \in DOMAIN slots : s[1] = t[1] /\ Equip(s[1], s[2], t[2])
         \/ \E sq \in DOMAIN slots : Unequip(sq[1], sq[2])
  PROVE  IInv'
<1>1. <<>> \in Seq(Effect)
  OBVIOUS
<1>2. task \in Task
  BY DEF IInv, TypeOK
<1>3. ASSUME NEW s \in DOMAIN slots, NEW t \in DOMAIN slots, NEW c \in Counts,
             TransferToSlot(s, t, c)
      PROVE  IInv'
  <2>1. c \in Nat /\ slots[s] # 0 /\ task' \in Task /\ UNCHANGED <<limits, task>>
    BY <1>2, <1>3, InventoriesAssumption DEF TransferToSlot
  <2>2. CASE CanSplit(s, t, c) /\ TrySplit(s, t, c)
    BY <2>1, <2>2, TrySplitSafe
  <2>3. CASE CanMerge(s, t, c) /\ TryMerge(s, t, c, <<>>)
    BY <1>1, <2>1, <2>3, TryMergeMoveSafe
  <2>4. CASE Exchange(s, t, <<>>)
    BY <1>1, <2>1, <2>4, ExchangeMoveSafe
  <2>5. QED BY <1>3, <2>2, <2>3, <2>4 DEF TransferToSlot
<1>4. ASSUME NEW s \in DOMAIN slots, NEW t \in DOMAIN slots, Swap(s, t)
      PROVE  IInv'
  <2>1. task' \in Task /\ limits' = limits
    BY <1>2, <1>4 DEF Swap
  <2>2. CASE CanMerge(s, t, 0) /\ TryMerge(s, t, 0, <<>>)
    BY <1>1, <2>1, <2>2, TryMergeMoveSafe
  <2>3. CASE Exchange(s, t, <<>>)
    BY <1>1, <2>1, <2>3, ExchangeMoveSafe
  <2>4. QED BY <1>4, <2>2, <2>3 DEF Swap
<1>5. ASSUME NEW s \in DOMAIN slots, NEW t \in DOMAIN slots, s[1] = t[1],
             Equip(s[1], s[2], t[2])
      PROVE  IInv'
  <2>1. s = <<s[1], s[2]>> /\ t = <<s[1], t[2]>>
    BY <1>5 DEF IInv, TypeOK, Square
  <2>2. Exchange(s, t, <<>>) /\ task' \in Task /\ limits' = limits
    BY <1>2, <1>5, <2>1 DEF Equip
  <2>3. QED BY <1>1, <2>2, ExchangeMoveSafe
<1>6. ASSUME NEW sq \in DOMAIN slots, Unequip(sq[1], sq[2])
      PROVE  IInv'
  <2>1. sq = <<sq[1], sq[2]>>
    BY DEF IInv, TypeOK, Square
  <2>2. /\ Exchange(sq, First(FreeRucksack(sq[1])), <<>>)
        /\ FreeRucksack(sq[1]) # {} /\ task' \in Task /\ limits' = limits
    BY <1>2, <1>6, <2>1 DEF Unequip
  <2>3. First(FreeRucksack(sq[1])) \in DOMAIN slots
    BY <2>2, FreeIsFree DEF IInv
  <2>4. QED BY <1>1, <2>2, <2>3, ExchangeMoveSafe
<1>7. QED BY <1>3, <1>4, <1>5, <1>6

(* A "take all" that looks for a place has its cursor on a square.         *)
CursorOnSquare == task # Idle /\ task.phase = "place" => Cursor \in DOMAIN slots

(* Every step of "take all", from its start to its end.                    *)
LEMMA TransferAllSafe ==
  ASSUME IInv, CursorOnSquare,
         (\E o, p \in Owners : TransferAll(o, p)) \/ TransferAllStep
  PROVE  IInv'
<1>1. /\ items \in [DOMAIN items -> Stack] /\ slots \in [DOMAIN slots -> Nat]
      /\ effects \in Seq(Effect) /\ task \in Task
  BY DEF IInv, TypeOK
<1>2. ASSUME NEW o \in Owners, NEW p \in Owners, TransferAll(o, p)
      PROVE  IInv'
  <2>1. /\ task' \in Task /\ effects' \in Seq(Effect)
        /\ UNCHANGED <<slots, items, limits, next_entity_id, named>>
    BY <1>2 DEF TransferAll, Task
  <2>2. QED BY <1>1, <2>1, MoveSafe DEF IInv, NoDanglingSlot, NoSharedStack
<1>3. ASSUME TransferAllStep
      PROVE  IInv'
  <2>1. /\ task.source \in Owners /\ task.target \in Owners /\ task.at \in Nat
        /\ task \in [phase : {"merge", "place"}, source : Owners, target : Owners, at : Nat]
    BY <1>1, <1>3 DEF TransferAllStep, Task
  <2>2. NextSquare \in Task /\ [task EXCEPT !.phase = "place"] \in Task /\ Idle \in Task
    <3>1. NextSquare \in [phase : {"merge", "place"}, source : Owners, target : Owners, at : Nat]
      BY <2>1 DEF NextSquare
    <3>2. [task EXCEPT !.phase = "place"]
            \in [phase : {"merge", "place"}, source : Owners, target : Owners, at : Nat]
      BY <2>1
    <3>3. Idle \in Task
      BY DEF Task
    <3>4. QED BY <3>1, <3>2, <3>3 DEF Task
  <2>3. CASE TransferAllSkip
    <3>1. task' \in Task /\ UNCHANGED <<slots, items, limits, next_entity_id, effects, named>>
      BY <2>2, <2>3 DEF TransferAllSkip
    <3>2. QED BY <1>1, <3>1, MoveSafe DEF IInv, NoDanglingSlot, NoSharedStack
  <2>4. CASE TransferAllMerge
    <3>1. Cursor \in DOMAIN slots /\ limits' = limits
      BY <2>4 DEF TransferAllMerge, Occupied
    <3>2. CASE MergeTargets # {}
      <4>1. /\ TryMerge(Cursor, First(MergeTargets), 0, effects)
            /\ task' = IF slots'[Cursor] = 0 THEN NextSquare
                                             ELSE [task EXCEPT !.phase = "place"]
        BY <2>4, <3>2 DEF TransferAllMerge
      <4>2. \A t \in MergeTargets : t[2] \in Nat
        BY DEF MergeTargets, SquaresOf, IInv, TypeOK, Square
      <4>3. First(MergeTargets) \in MergeTargets
        BY <3>2, <4>2, FirstIsMember
      <4>4. First(MergeTargets) \in DOMAIN slots /\ CanMerge(Cursor, First(MergeTargets), 0)
        BY <4>3 DEF MergeTargets, SquaresOf
      <4>5. task' \in Task
        BY <2>2, <4>1
      <4>6. QED BY <1>1, <3>1, <4>1, <4>4, <4>5, TryMergeMoveSafe
    <3>3. CASE MergeTargets = {}
      <4>1. task' \in Task /\ UNCHANGED <<slots, items, next_entity_id, effects, named>>
        BY <2>2, <2>4, <3>3 DEF TransferAllMerge
      <4>2. QED BY <1>1, <3>1, <4>1, MoveSafe DEF IInv, NoDanglingSlot, NoSharedStack
    <3>4. QED BY <3>2, <3>3
  <2>5. CASE TransferAllPlace
    <3>1. /\ FreeRucksack(task.target) # {}
          /\ Exchange(Cursor, First(FreeRucksack(task.target)), effects)
          /\ task' = NextSquare /\ limits' = limits
      BY <2>5 DEF TransferAllPlace
    <3>2. First(FreeRucksack(task.target)) \in DOMAIN slots
      BY <3>1, FreeIsFree DEF IInv
    <3>3. Cursor \in DOMAIN slots
      BY <1>3, <2>5 DEF TransferAllStep, TransferAllPlace, CursorOnSquare
    <3>4. QED BY <1>1, <2>2, <3>1, <3>2, <3>3, ExchangeMoveSafe
  <2>6. CASE TransferAllEnd
    <3>1. task' \in Task /\ UNCHANGED <<slots, items, limits, next_entity_id, effects, named>>
      BY <2>2, <2>6 DEF TransferAllEnd
    <3>2. QED BY <1>1, <3>1, MoveSafe DEF IInv, NoDanglingSlot, NoSharedStack
  <2>7. QED BY <1>3, <2>3, <2>4, <2>5, <2>6 DEF TransferAllStep
<1>4. QED BY <1>2, <1>3

(* While "take all" places stacks, its cursor stays on a square.           *)
LEMMA CursorSafe ==
  ASSUME IInv, CursorOnSquare, Next
  PROVE  CursorOnSquare'
<1>1. CASE task = Idle /\ task' = task
  BY <1>1 DEF CursorOnSquare
<1>2. CASE \E o, p \in Owners : TransferAll(o, p)
  BY <1>2 DEF TransferAll, CursorOnSquare
<1>3. CASE TransferAllStep
  <2>1. task.phase = "merge" \/ task' = Idle \/ task' = NextSquare
    BY <1>3 DEF TransferAllStep, TransferAllSkip, TransferAllMerge, TransferAllPlace,
                TransferAllEnd
  <2>2. /\ task \in [phase : {"merge", "place"}, source : Owners, target : Owners, at : Nat]
        /\ NextSquare.phase = "merge"
    BY <1>3 DEF TransferAllStep, NextSquare, IInv, TypeOK, Task
  <2>3. CASE task' = Idle \/ task' = NextSquare \/ task' = task
    BY <1>3, <2>2, <2>3 DEF CursorOnSquare, TransferAllStep, TransferAllSkip,
       TransferAllMerge, TransferAllPlace, TransferAllEnd
  <2>4. CASE TransferAllMerge /\ task' = [task EXCEPT !.phase = "place"]
    <3>1. Cursor \in DOMAIN slots /\ Cursor' = Cursor
      BY <2>2, <2>4 DEF TransferAllMerge, Occupied, Cursor
    <3>2. DOMAIN slots' = DOMAIN slots
      <4>1. slots' = slots \/ \E q \in Square : slots' = [slots EXCEPT ![q] = 0]
        BY <2>2, <2>4 DEF TransferAllMerge, TryMerge, Cursor, Square
      <4>2. QED BY <4>1
    <3>3. QED BY <3>1, <3>2 DEF CursorOnSquare
  <2>5. QED BY <1>3, <2>3, <2>4 DEF TransferAllStep, TransferAllSkip, TransferAllMerge,
               TransferAllPlace, TransferAllEnd
<1>4. QED
  BY <1>1, <1>2, <1>3
     DEF Next, OpenNew, Seed, Move, Spend, Administer, Open, Close, Give, CreateLoose,
         CreateLooseWithId, Collect, Detach, ConsumeLoose, TransferToSlot, Swap, Destroy,
         Equip, Unequip, ClearRucksack, ReserveIdsFrom, SetLimits

-----------------------------------------------------------------------------
(* The theorems. *)

(* Every step preserves the invariant, with the cursor.                    *)
LEMMA StepInvariant == IInv /\ CursorOnSquare /\ [Next]_vars => IInv' /\ CursorOnSquare'
<1> SUFFICES ASSUME IInv, CursorOnSquare, [Next]_vars
             PROVE  IInv' /\ CursorOnSquare'
  OBVIOUS
<1>1. CASE UNCHANGED vars
  BY <1>1 DEF vars, IInv, TypeOK, NoDanglingSlot, NoSharedStack, AllocatorAhead,
              CursorOnSquare, Cursor
<1>2. ASSUME OpenNew
      PROVE  IInv'
  BY <1>2, OpenSafe, InventoriesAssumption DEF OpenNew
<1>3. ASSUME Seed
      PROVE  IInv'
  <2>1. StackSizes \subseteq Nat /\ FirstEntityId .. MaxEntityId \subseteq Nat \ {0}
    BY InventoriesAssumption
  <2>2. QED BY <1>3, <2>1, GiveSafe, CreateLooseSafe, CreateLooseWithIdSafe DEF Seed
<1>4. ASSUME Move
      PROVE  IInv'
  BY <1>4, ClientMoveSafe, CollectSafe, DetachSafe, TransferAllSafe, ClearRucksackSafe
     DEF Move
<1>5. ASSUME Spend
      PROVE  IInv'
  BY <1>5, DestroySafe, ConsumeLooseSafe, CloseSafe, InventoriesAssumption DEF Spend
<1>6. ASSUME Administer
      PROVE  IInv'
  <2>1. /\ items \in [DOMAIN items -> Stack] /\ <<>> \in Seq(Effect)
        /\ next_entity_id \in Nat \ {0}
    BY DEF IInv, TypeOK
  <2>2. ASSUME NEW n \in FirstEntityId .. MaxEntityId + 1, ReserveIdsFrom(n)
        PROVE  IInv'
    <3>1. /\ n > next_entity_id /\ next_entity_id' = n /\ effects' = <<>>
          /\ UNCHANGED <<slots, items, limits, task, named>>
      BY <2>2 DEF ReserveIdsFrom
    <3>2. n \in Nat \ {0}
      BY InventoriesAssumption
    <3>3. TypeOK'
      BY <2>1, <3>1, <3>2 DEF IInv, TypeOK
    <3>4. NoDanglingSlot' /\ NoSharedStack' /\ AllocatorAhead'
      BY <2>1, <3>1, <3>2 DEF IInv, TypeOK, NoDanglingSlot, NoSharedStack, AllocatorAhead
    <3>5. QED BY <3>3, <3>4 DEF IInv
  <2>3. ASSUME SetLimits
        PROVE  IInv'
    <3>1. /\ limits' = TableLimits /\ effects' = <<>>
          /\ UNCHANGED <<slots, items, next_entity_id, task, named>>
      BY <2>3 DEF SetLimits
    <3>2. TypeOK'
      BY <2>1, <3>1, InventoriesAssumption DEF IInv, TypeOK
    <3>3. NoDanglingSlot' /\ NoSharedStack' /\ AllocatorAhead'
      BY <3>1 DEF IInv, NoDanglingSlot, NoSharedStack, AllocatorAhead
    <3>4. QED BY <3>2, <3>3 DEF IInv
  <2>4. QED BY <1>6, <2>2, <2>3 DEF Administer
<1>7. IInv'
  BY <1>1, <1>2, <1>3, <1>4, <1>5, <1>6 DEF Next
<1>8. CursorOnSquare'
  BY <1>1, CursorSafe DEF vars, CursorOnSquare, Cursor
<1>9. QED BY <1>7, <1>8

(* The inductive invariant holds in every state of every behaviour.        *)
THEOREM InvariantHolds == Spec => [](IInv /\ CursorOnSquare)
<1>1. Init => IInv /\ CursorOnSquare
  BY InitInvariant DEF Init, CursorOnSquare
<1>2. QED BY <1>1, StepInvariant, PTL DEF Spec

(* Whatever the client sends and the game hands out, every variable keeps  *)
(* its type (inventory.rs).                                                *)
THEOREM TypeCorrect == Spec => []TypeOK
<1>1. IInv => TypeOK
  BY DEF IInv
<1>2. QED BY <1>1, InvariantHolds, PTL

(* No square ever names a stack that is gone (try_merge, destroy, close).  *)
THEOREM SlotsNameLiveStacks == Spec => []NoDanglingSlot
<1>1. IInv => NoDanglingSlot
  BY DEF IInv
<1>2. QED BY <1>1, InvariantHolds, PTL

(* No stack is ever in two squares (exchange, collect, create_stack).      *)
THEOREM StacksAreNotShared == Spec => []NoSharedStack
<1>1. IInv => NoSharedStack
  BY DEF IInv
<1>2. QED BY <1>1, InvariantHolds, PTL

(* The allocator is ahead of every id the model ever held, foreign floor   *)
(* drops included (create_stack, create_loose_with_id, reserve_ids_from).  *)
THEOREM AllocatorStaysAhead == Spec => []AllocatorAhead
<1>1. IInv => AllocatorAhead
  BY DEF IInv
<1>2. QED BY <1>1, InvariantHolds, PTL

(* What a step adds to the stacks is new to the model.                     *)
LEMMA AddedIsNew ==
  ASSUME IInv, Next
  PROVE  (DOMAIN items' \ DOMAIN items) \cap named = {}
<1>1. next_entity_id \notin named
  BY DEF IInv, TypeOK, AllocatorAhead
<1>2. ASSUME NEW s, NEW t, NEW c, NEW done, TryMerge(s, t, c, done)
      PROVE  DOMAIN items' \subseteq DOMAIN items
  BY <1>2 DEF TryMerge
<1>3. ASSUME NEW s, NEW t, NEW c, TransferToSlot(s, t, c) \/ Swap(s, t)
      PROVE  DOMAIN items' \subseteq DOMAIN items \cup {next_entity_id}
  BY <1>2, <1>3 DEF TransferToSlot, Swap, TrySplit, Exchange
<1>4. ASSUME TransferAllStep
      PROVE  DOMAIN items' \subseteq DOMAIN items
  BY <1>2, <1>4 DEF TransferAllStep, TransferAllSkip, TransferAllMerge, TransferAllPlace,
                    TransferAllEnd, Exchange
<1>5. ASSUME OpenNew \/ Administer
      PROVE  items' = items
  BY <1>5 DEF OpenNew, Open, Administer, ReserveIdsFrom, SetLimits
<1>6. ASSUME Spend
      PROVE  DOMAIN items' \subseteq DOMAIN items
  BY <1>6 DEF Spend, Destroy, ConsumeLoose, Close, Without
<1>7. ASSUME Seed
      PROVE  (DOMAIN items' \ DOMAIN items) \cap named = {}
  <2>1. ASSUME NEW e, NEW n, NEW c, CreateLooseWithId(e, n, c), e \notin named \/ Loose(e)
        PROVE  (DOMAIN items' \ DOMAIN items) \cap named = {}
    BY <2>1 DEF CreateLooseWithId, Loose
  <2>2. QED BY <1>1, <1>7, <2>1 DEF Seed, Give, CreateLoose, CreateStack
<1>8. ASSUME NEW o, NEW e, Collect(o, e)
      PROVE  DOMAIN items' \subseteq DOMAIN items
  BY <1>8 DEF Collect, CollectMerging, CollectIntoSquare
<1>9. ASSUME Move
       PROVE  DOMAIN items' \subseteq DOMAIN items \cup {next_entity_id}
  BY <1>3, <1>4, <1>8, <1>9 DEF Move, Detach, Equip, Unequip, TransferAll, ClearRucksack,
                                 Exchange
<1>10. QED BY <1>1, <1>5, <1>6, <1>7, <1>9 DEF Next

(* An id never comes to name a second stack, whatever became of the first. *)
THEOREM IdsAreNeverReused == Spec => IdsNeverReused
<1>1. IInv /\ [Next]_vars => [(DOMAIN items' \ DOMAIN items) \cap named = {}]_vars
  BY AddedIsNew
<1>2. QED BY <1>1, InvariantHolds, PTL DEF Spec, IdsNeverReused

-----------------------------------------------------------------------------
(* Moves conserve.  A stack that is not there counts for nothing, so the   *)
(* totals before and after a step are sums over the same ids, and a move   *)
(* that cuts or joins stacks changes two of them.                          *)

Worth(f, e, n) == IF e \in DOMAIN f THEN HowMany(f[e], n) ELSE 0

Shares(x, y) ==
  \A n : /\ Worth(items', x, n) + Worth(items', y, n) = Worth(items, x, n) + Worth(items, y, n)
         /\ \A z : z \notin {x, y} => Worth(items', z, n) = Worth(items, z, n)

LEMMA WorthIsNat ==
  ASSUME NEW D, NEW f \in [D -> Stack], NEW e, NEW n
  PROVE  Worth(f, e, n) \in Nat
BY DEF Worth, HowMany, Stack

(* There are finitely many stacks: the allocator is ahead of them.         *)
LEMMA StacksAreFinite == IInv => IsFiniteSet(DOMAIN items)
<1> SUFFICES ASSUME IInv PROVE IsFiniteSet(DOMAIN items)
  OBVIOUS
<1>1. next_entity_id \in Nat /\ DOMAIN items \in SUBSET (0 .. next_entity_id)
  BY DEF IInv, TypeOK, AllocatorAhead
<1>2. IsFiniteSet(0 .. next_entity_id)
  BY <1>1, FS_Interval
<1> QED BY <1>1, <1>2, FS_Subset

LEMMA TotalOver ==
  ASSUME NEW U, IsFiniteSet(U), NEW D \in SUBSET U, NEW f \in [D -> Stack], NEW n
  PROVE  SumFunction([e \in D |-> HowMany(f[e], n)]) = SumFunction([e \in U |-> Worth(f, e, n)])
<1> DEFINE g == [e \in D |-> HowMany(f[e], n)]
           h == [e \in U |-> Worth(f, e, n)]
<1>1. \A e \in U : Worth(f, e, n) \in Nat
  BY WorthIsNat
<1>2. \A e \in D : Worth(f, e, n) = HowMany(f[e], n) /\ e \in U
  BY DEF Worth
<1>3. \A e \in U \ D : Worth(f, e, n) = 0
  BY DEF Worth
<1>4. g \in [D -> Nat] /\ h \in [U -> Nat] /\ (\A e \in D : h[e] = g[e])
      /\ \A e \in U \ D : h[e] = 0
  BY <1>1, <1>2, <1>3
<1> HIDE DEF g, h
<1> QED BY <1>4, SumOverMore DEF g, h

(* What two stacks share differently is as much in all.                    *)
LEMMA SharedConserves ==
  ASSUME IInv, IInv', NEW x, NEW y, x # y, Shares(x, y), NEW n
  PROVE  Total(n)' = Total(n)
<1> DEFINE U == (DOMAIN items \cup DOMAIN items') \cup {x, y}
           f == [e \in U |-> Worth(items, e, n)]
           g == [e \in U |-> Worth(items', e, n)]
<1>1. IsFiniteSet(DOMAIN items)
  BY StacksAreFinite
<1>2. IsFiniteSet(DOMAIN items')
  <2>1. IInv' => IsFiniteSet(DOMAIN items)'
    BY StacksAreFinite, PTL
  <2> QED BY <2>1
<1>3. IsFiniteSet(U)
  <2> DEFINE A == DOMAIN items
             B == DOMAIN items'
  <2>1. IsFiniteSet(A \cup B)
    <3> HIDE DEF A, B
    <3> QED BY <1>1, <1>2, FS_Union DEF A, B
  <2>2. U = ((A \cup B) \cup {x}) \cup {y}
    OBVIOUS
  <2> HIDE DEF A, B, U
  <2>3. IsFiniteSet((A \cup B) \cup {x})
    BY <2>1, FS_AddElement
  <2> QED BY <2>2, <2>3, FS_AddElement
<1>4. /\ items \in [DOMAIN items -> Stack] /\ DOMAIN items \in SUBSET U
      /\ items' \in [DOMAIN items' -> Stack] /\ DOMAIN items' \in SUBSET U
  BY DEF IInv, TypeOK
<1>5. f \in [U -> Nat] /\ g \in [U -> Nat]
  BY <1>4, WorthIsNat
<1>6. Total(n) = SumFunction(f) /\ Total(n)' = SumFunction(g)
  <2> HIDE DEF U
  <2> QED BY <1>3, <1>4, TotalOver DEF Total
<1>7. /\ x \in U /\ y \in U /\ g[x] + g[y] = f[x] + f[y]
      /\ \A z \in U \ {x, y} : g[z] = f[z]
  BY DEF Shares
<1>8. /\ f[x] \in Nat /\ f[y] \in Nat /\ g[x] \in Nat /\ g[y] \in Nat
      /\ \A z \in U : f[z] \in Nat /\ g[z] \in Nat
  BY <1>5, <1>7
<1> HIDE DEF U, f, g
<1>9. SumFunction(g) <= SumFunction(f)
  <2>1. g[x] + g[y] <= f[x] + f[y] /\ \A z \in U \ {x, y} : g[z] <= f[z]
    BY <1>7, <1>8
  <2> QED BY <1>3, <1>5, <1>7, <2>1, SumGivesNoMore
<1>10. SumFunction(f) <= SumFunction(g)
  <2>1. f[x] + f[y] <= g[x] + g[y] /\ \A z \in U \ {x, y} : f[z] <= g[z]
    BY <1>7, <1>8
  <2> QED BY <1>3, <1>5, <1>7, <2>1, SumGivesNoMore
<1>11. SumFunction(f) \in Nat /\ SumFunction(g) \in Nat
  BY <1>3, <1>5, SumIsNat
<1> QED BY <1>6, <1>9, <1>10, <1>11

(* try_split *)
LEMMA SplitShares ==
  ASSUME IInv, NEW s \in DOMAIN slots, NEW t, NEW count \in Nat,
         slots[s] # 0, CanSplit(s, t, count), TrySplit(s, t, count)
  PROVE  slots[s] # next_entity_id /\ Shares(slots[s], next_entity_id)
<1> DEFINE from == slots[s]
           e    == next_entity_id
           rest == [items EXCEPT ![from].count = @ - count]
<1>1. items' = [x \in DOMAIN items \cup {e} |->
                  IF x = e THEN [name |-> items[from].name, count |-> count] ELSE rest[x]]
  BY DEF TrySplit
<1>2. /\ from \in DOMAIN items /\ items \in [DOMAIN items -> Stack]
      /\ e \notin DOMAIN items
  BY MintIsNew DEF IInv, TypeOK, NoDanglingSlot
<1>3. items[from].count \in Nat /\ count <= items[from].count
  BY <1>2 DEF CanSplit, Stack
<1> HIDE DEF from, e
<1>4. /\ from # e /\ DOMAIN items' = DOMAIN items \cup {e}
      /\ items'[e] = [name |-> items[from].name, count |-> count]
      /\ items'[from].name = items[from].name
      /\ items'[from].count = items[from].count - count
      /\ \A x \in DOMAIN items \ {from} : items'[x] = items[x]
  BY <1>1, <1>2 DEF Stack
<1>5. \A n : Worth(items', from, n) + Worth(items', e, n) = Worth(items, from, n) + Worth(items, e, n)
  BY <1>2, <1>3, <1>4 DEF Worth, HowMany
<1>6. \A n : \A z : z \notin {from, e} => Worth(items', z, n) = Worth(items, z, n)
  BY <1>4 DEF Worth
<1> QED BY <1>4, <1>5, <1>6 DEF Shares, from, e

(* try_merge *)
LEMMA MergeShares ==
  ASSUME IInv, NEW s \in DOMAIN slots, NEW t \in DOMAIN slots, NEW count \in Nat,
         NEW done, CanMerge(s, t, count), TryMerge(s, t, count, done)
  PROVE  slots[s] # slots[t] /\ Shares(slots[s], slots[t])
<1> DEFINE from  == slots[s]
           into  == slots[t]
           moved == Moved(s, t, count)
           grown == [items EXCEPT ![into].count = @ + moved]
<1>1. /\ from \in DOMAIN items /\ into \in DOMAIN items /\ items \in [DOMAIN items -> Stack]
      /\ moved \in Nat /\ moved <= items[from].count
      /\ items[from].name = items[into].name
  BY MovedType DEF CanMerge, IInv, TypeOK
<1>2. from # into
  BY DEF CanMerge, Occupied, IInv, NoSharedStack
<1>3. \/ /\ items[from].count - moved > 0
         /\ items' = [grown EXCEPT ![from].count = items[from].count - moved]
      \/ /\ items[from].count - moved = 0
         /\ items' = [x \in DOMAIN items \ {from} |-> grown[x]]
  BY DEF TryMerge
<1>4. items[from].count \in Nat /\ items[into].count \in Nat
  BY <1>1 DEF Stack
<1> HIDE DEF from, into, moved
<1>5. \A n : Worth(items', from, n) + Worth(items', into, n)
               = Worth(items, from, n) + Worth(items, into, n)
  BY <1>1, <1>2, <1>3, <1>4 DEF Worth, HowMany, Stack
<1>6. \A n : \A z : z \notin {from, into} => Worth(items', z, n) = Worth(items, z, n)
  BY <1>3 DEF Worth
<1> QED BY <1>2, <1>5, <1>6 DEF Shares, from, into

(* collect, into a stack that has room *)
LEMMA CollectShares ==
  ASSUME IInv, NEW o, NEW e, Loose(e), CollectMerging(o, e)
  PROVE  \E sq \in Mergeable(o, e) : slots[sq] # e /\ Shares(e, slots[sq])
<1> DEFINE sq == First(Mergeable(o, e))
           into == slots[sq]
           moved == MinOf(items[e].count, Room(into))
           grown == [items EXCEPT ![into].count = @ + moved]
<1>1. sq \in Mergeable(o, e)
  <2>1. Mergeable(o, e) # {}
    BY DEF CollectMerging
  <2>2. \A q \in Mergeable(o, e) : q[2] \in Nat
    BY DEF Mergeable, SquaresOf, IInv, TypeOK, Square
  <2> QED BY <2>1, <2>2, FirstIsMember
<1>2. /\ into \in DOMAIN items /\ into # e /\ items[into].name = items[e].name
      /\ e \in DOMAIN items /\ items \in [DOMAIN items -> Stack]
  BY <1>1 DEF Mergeable, SquaresOf, IInv, NoDanglingSlot, Loose, TypeOK
<1>3. Room(into) \in Nat
  BY <1>2, RoomType DEF IInv
<1>4. items[e].count \in Nat /\ items[into].count \in Nat
  BY <1>2 DEF Stack
<1>5. moved \in Nat /\ moved <= items[e].count
  BY <1>3, <1>4 DEF MinOf
<1>6. \/ /\ items[e].count - moved = 0
         /\ items' = [x \in DOMAIN items \ {e} |-> grown[x]]
      \/ items' = [grown EXCEPT ![e].count = items[e].count - moved]
  BY DEF CollectMerging
<1> HIDE DEF sq, into, moved
<1>7. \A n : Worth(items', e, n) + Worth(items', into, n) = Worth(items, e, n) + Worth(items, into, n)
  BY <1>2, <1>4, <1>5, <1>6 DEF Worth, HowMany, Stack
<1>8. \A n : \A z : z \notin {e, into} => Worth(items', z, n) = Worth(items, z, n)
  BY <1>6 DEF Worth
<1>9. into # e /\ Shares(e, into)
  BY <1>2, <1>7, <1>8 DEF Shares
<1> QED BY <1>1, <1>9 DEF into

(* A step that is none of the game's own changes no total.                 *)
LEMMA StepConserves ==
  ASSUME IInv, CursorOnSquare, IInv', Next, ~Seed, ~Spend, NEW n
  PROVE  Total(n)' = Total(n)
<1>1. ASSUME items' = items
      PROVE  Total(n)' = Total(n)
  BY <1>1 DEF Total
<1>2. ASSUME NEW x, NEW y, x # y, Shares(x, y)
      PROVE  Total(n)' = Total(n)
  BY <1>2, SharedConserves
<1>3. Counts \subseteq Nat /\ 0 \in Nat
  BY InventoriesAssumption
<1>4. ASSUME NEW s, NEW t, NEW done, Exchange(s, t, done)
      PROVE  items' = items
  BY <1>4 DEF Exchange
<1>5. ASSUME NEW s \in DOMAIN slots, NEW t \in DOMAIN slots, NEW c \in Nat, NEW done,
             CanMerge(s, t, c), TryMerge(s, t, c, done)
      PROVE  Total(n)' = Total(n)
  <2>1. slots[s] # slots[t] /\ Shares(slots[s], slots[t])
    BY <1>5, MergeShares
  <2> QED BY <1>2, <2>1
<1>6. ASSUME NEW s \in DOMAIN slots, NEW t \in DOMAIN slots, NEW c \in Counts,
             TransferToSlot(s, t, c)
      PROVE  Total(n)' = Total(n)
  <2>1. CASE CanSplit(s, t, c) /\ TrySplit(s, t, c)
    <3>1. slots[s] # next_entity_id /\ Shares(slots[s], next_entity_id)
      BY <1>3, <1>6, <2>1, SplitShares DEF TransferToSlot
    <3> QED BY <1>2, <3>1
  <2>2. CASE CanMerge(s, t, c) /\ TryMerge(s, t, c, <<>>)
    BY <1>3, <1>5, <2>2
  <2>3. CASE Exchange(s, t, <<>>)
    BY <1>1, <1>4, <2>3
  <2> QED BY <1>6, <2>1, <2>2, <2>3 DEF TransferToSlot
<1>7. ASSUME NEW s \in DOMAIN slots, NEW t \in DOMAIN slots, Swap(s, t)
      PROVE  Total(n)' = Total(n)
  BY <1>1, <1>3, <1>4, <1>5, <1>7 DEF Swap
<1>8. ASSUME NEW o \in Owners, NEW e \in DOMAIN items, Loose(e), Collect(o, e)
      PROVE  Total(n)' = Total(n)
  <2>1. CASE CollectMerging(o, e)
    <3>1. PICK sq \in Mergeable(o, e) : slots[sq] # e /\ Shares(e, slots[sq])
      BY <1>8, <2>1, CollectShares
    <3> QED BY <1>2, <3>1
  <2>2. CASE CollectIntoSquare(o, e)
    BY <1>1, <2>2 DEF CollectIntoSquare
  <2> QED BY <1>8, <2>1, <2>2 DEF Collect
<1>9. ASSUME TransferAllStep
      PROVE  Total(n)' = Total(n)
  <2>1. CASE TransferAllSkip \/ TransferAllEnd
    BY <1>1, <2>1 DEF TransferAllSkip, TransferAllEnd
  <2>2. CASE TransferAllMerge
    <3>1. CASE MergeTargets # {} /\ TryMerge(Cursor, First(MergeTargets), 0, effects)
      <4>1. \A q \in MergeTargets : q[2] \in Nat
        BY DEF MergeTargets, SquaresOf, IInv, TypeOK, Square
      <4>2. First(MergeTargets) \in MergeTargets
        BY <3>1, <4>1, FirstIsMember
      <4>3. CanMerge(Cursor, First(MergeTargets), 0) /\ First(MergeTargets) \in DOMAIN slots
        BY <4>2 DEF MergeTargets, SquaresOf
      <4>4. Cursor \in DOMAIN slots
        BY <2>2 DEF TransferAllMerge, Occupied
      <4> QED BY <1>3, <1>5, <3>1, <4>3, <4>4
    <3>2. CASE UNCHANGED items
      BY <1>1, <3>2
    <3> QED BY <2>2, <3>1, <3>2 DEF TransferAllMerge
  <2>3. CASE TransferAllPlace
    BY <1>1, <1>4, <2>3 DEF TransferAllPlace
  <2> QED BY <1>9, <2>1, <2>2, <2>3 DEF TransferAllStep
<1>10. CASE Move
  <2>1. CASE \/ \E sq \in DOMAIN slots : Detach(sq)
             \/ \E o, p \in Owners : TransferAll(o, p)
             \/ \E o \in Owners : ClearRucksack(o)
    BY <1>1, <2>1 DEF Detach, TransferAll, ClearRucksack
  <2>2. CASE \/ \E s, t \in DOMAIN slots : s[1] = t[1] /\ Equip(s[1], s[2], t[2])
             \/ \E sq \in DOMAIN slots : Unequip(sq[1], sq[2])
    BY <1>1, <1>4, <2>2 DEF Equip, Unequip
  <2> QED BY <1>6, <1>7, <1>8, <1>9, <1>10, <2>1, <2>2 DEF Move
<1>11. CASE OpenNew \/ Administer
  BY <1>1, <1>11 DEF OpenNew, Open, Administer, ReserveIdsFrom, SetLimits
<1> QED BY <1>10, <1>11 DEF Next

(* A drag, a split, a merge, a "take all", an equip or a pickup makes and  *)
(* loses nothing (try_split, try_merge, collect, transfer_all), for any    *)
(* number of stacks and squares.                                           *)
THEOREM NothingIsMadeOrLost == Spec => MovesConserve
<1>1. IInv /\ CursorOnSquare /\ [Next]_vars
        => [(\E n \in Names : Total(n)' # Total(n)) => Seed \/ Spend]_vars
  <2>1. IInv /\ CursorOnSquare /\ [Next]_vars => IInv'
    BY StepInvariant
  <2> QED BY <2>1, StepConserves
<1>2. QED BY <1>1, InvariantHolds, PTL DEF Spec, MovesConserve

-----------------------------------------------------------------------------
(***************************************************************************)
(* Belongings.  What lies on a drop square, on the floor or in the hand of *)
(* a pickup is named there and nowhere else.  An operation of Inventories  *)
(* leaves a loose stack alone unless it is the one it was called for       *)
(* (LeavesLoose), so each handler has to answer only for the stack it      *)
(* moves.                                                                  *)
(***************************************************************************)

Handlers ==
  {Nothing} \cup [what : {"pickup"}, drop : Drop]
            \cup [what : {"materials", "repair"}, list : Seq(Stack)]

BelongingsTyped ==
  /\ drop_slots \in [DropSquares -> Nat]
  /\ floor \subseteq Drop
  /\ pending \in Handlers
  /\ task = Idle
  /\ ~IsOpen(Player) => Parked = {} /\ pending = Nothing

(* Every drop has an id of its own, which is not minted again.             *)
FloorIsApart ==
  /\ \A d \in floor : d.stack # 0 /\ d.stack < next_entity_id
  /\ \A d, other \in floor : d.stack = other.stack => d = other

OnFloor(e) == \E d \in floor : d.stack = e

(* What is parked is in no square of the rucksack, not on the floor, and   *)
(* on one drop square only.                                                *)
ParkedIsApart ==
  \A k \in Parked :
    /\ Loose(drop_slots[k]) /\ ~OnFloor(drop_slots[k])
    /\ \A j \in Parked : j # k => drop_slots[j] # drop_slots[k]

(* What is being picked up is what lay there, and lies there no more.      *)
InHandIsApart ==
  pending.what = "pickup" =>
    LET d == pending.drop
    IN  /\ d.stack # 0 /\ Loose(d.stack) /\ ~OnFloor(d.stack)
        /\ items[d.stack] = [name |-> d.name, count |-> d.count]
        /\ \A k \in Parked : drop_slots[k] # d.stack

BelongingsInv ==
  /\ IInv /\ BelongingsTyped
  /\ FloorIsApart /\ FloorIsAsAnnounced /\ ParkedIsApart /\ InHandIsApart

-----------------------------------------------------------------------------
(* What the operations of Inventories leave alone. *)

(* Every loose stack but one stays loose and as it is.                     *)
LeavesLoose(but) == \A e : Loose(e) /\ e # but => Loose(e)' /\ items'[e] = items[e]

Operates(but) ==
  /\ LeavesLoose(but)
  /\ DOMAIN items' \subseteq DOMAIN items \cup {next_entity_id}
  /\ next_entity_id' >= next_entity_id
  /\ DOMAIN slots' = DOMAIN slots
  /\ task' = task

LEMMA NothingLeaves ==
  ASSUME IInv, UNCHANGED vars
  PROVE  Operates(0)
BY DEF vars, IInv, TypeOK, Operates, LeavesLoose, Loose

(* Emptying a square makes its stack a loose one.                          *)
LEMMA DetachLeaves ==
  ASSUME IInv, NEW sq, NEW e, Detach(sq), e = slots[sq]
  PROVE  /\ Operates(0)
         /\ sq \in DOMAIN slots /\ e # 0 /\ e \in DOMAIN items
         /\ Loose(e)' /\ UNCHANGED <<items, next_entity_id>>
<1>1. /\ slots' = [slots EXCEPT ![sq] = 0] /\ sq \in DOMAIN slots /\ e # 0
      /\ UNCHANGED <<items, next_entity_id, task>>
  BY DEF Detach, Occupied
<1>2. /\ slots \in [DOMAIN slots -> Nat] /\ next_entity_id \in Nat
      /\ 0 \notin DOMAIN items
  BY DEF IInv, TypeOK
<1>3. DOMAIN slots' = DOMAIN slots
      /\ \A q \in DOMAIN slots : slots'[q] = IF q = sq THEN 0 ELSE slots[q]
  BY <1>1, <1>2
<1>4. Operates(0)
  BY <1>1, <1>2, <1>3 DEF Operates, LeavesLoose, Loose
<1>5. e \in DOMAIN items
  BY <1>1 DEF IInv, NoDanglingSlot
<1>6. \A q \in DOMAIN slots' : slots'[q] # e
  BY <1>1, <1>3 DEF IInv, NoSharedStack
<1> QED BY <1>1, <1>4, <1>5, <1>6 DEF Loose

(* Into a square of the rucksack, or into the stacks there.                *)
LEMMA CollectLeaves ==
  ASSUME IInv, NEW o, NEW e, Loose(e), Collect(o, e)
  PROVE  Operates(e)
<1>1. /\ items \in [DOMAIN items -> Stack] /\ next_entity_id \in Nat
      /\ slots \in [DOMAIN slots -> Nat]
      /\ UNCHANGED <<next_entity_id, task>>
  BY DEF IInv, TypeOK, Collect
<1>2. CASE CollectMerging(o, e)
  <2> DEFINE sq == First(Mergeable(o, e))
             into == slots[sq]
             grown == [items EXCEPT ![into].count = @ + MinOf(items[e].count, Room(into))]
  <2>1. sq \in DOMAIN slots /\ into # 0
    <3>1. \A q \in Mergeable(o, e) : q[2] \in Nat
      BY DEF Mergeable, SquaresOf, IInv, TypeOK, Square
    <3>2. sq \in Mergeable(o, e)
      BY <1>2, <3>1, FirstIsMember DEF CollectMerging
    <3> QED BY <3>2 DEF Mergeable, SquaresOf
  <2>2. /\ slots' = slots
        /\ \/ items' = [x \in DOMAIN items \ {e} |-> grown[x]]
           \/ \E left : items' = [grown EXCEPT ![e].count = left]
    BY <1>2 DEF CollectMerging
  <2> HIDE DEF sq
  <2>3. \A x \in DOMAIN items \ {into} : grown[x] = items[x]
    OBVIOUS
  <2>4. DOMAIN grown = DOMAIN items
    OBVIOUS
  <2>5. into # e /\ ~Loose(into)
    BY <2>1 DEF Loose
  <2> HIDE DEF grown, into
  <2>6. /\ DOMAIN items \ {e} \subseteq DOMAIN items' /\ DOMAIN items' \subseteq DOMAIN items
        /\ \A x \in DOMAIN items \ {e} : items'[x] = grown[x]
    BY <2>2, <2>4
  <2> QED BY <1>1, <2>2, <2>3, <2>5, <2>6 DEF Operates, LeavesLoose, Loose
<1>3. CASE CollectIntoSquare(o, e)
  <2>1. /\ slots' = [slots EXCEPT ![First(FreeRucksack(o))] = e] /\ items' = items
    BY <1>3 DEF CollectIntoSquare
  <2>2. /\ DOMAIN slots' = DOMAIN slots
        /\ \A q \in DOMAIN slots : slots'[q] \in {slots[q], e}
    BY <1>1, <2>1
  <2> QED BY <1>1, <2>1, <2>2 DEF Operates, LeavesLoose, Loose
<1> QED BY <1>2, <1>3 DEF Collect

LEMMA ConsumeLeaves ==
  ASSUME IInv, NEW e, NEW count, ConsumeLoose(e, count)
  PROVE  Operates(e) /\ (e \in DOMAIN items' /\ Loose(e) => Loose(e)')
<1>1. /\ items \in [DOMAIN items -> Stack] /\ next_entity_id \in Nat
      /\ UNCHANGED <<slots, next_entity_id, task>>
  BY DEF IInv, TypeOK, ConsumeLoose
<1>2. /\ DOMAIN items \ {e} \subseteq DOMAIN items' /\ DOMAIN items' \subseteq DOMAIN items
      /\ \A x \in DOMAIN items \ {e} : items'[x] = items[x]
  BY <1>1 DEF ConsumeLoose, Without
<1> QED BY <1>1, <1>2 DEF Operates, LeavesLoose, Loose

LEMMA DestroyLeaves ==
  ASSUME IInv, NEW sq, NEW count, Destroy(sq, count)
  PROVE  Operates(0)
<1> DEFINE item == slots[sq]
<1>1. /\ items \in [DOMAIN items -> Stack] /\ next_entity_id \in Nat
      /\ slots \in [DOMAIN slots -> Nat] /\ sq \in DOMAIN slots /\ item # 0
      /\ UNCHANGED <<next_entity_id, task>>
  BY DEF IInv, TypeOK, Destroy, Occupied
<1>2. ~Loose(item)
  BY <1>1 DEF Loose
<1>3. \/ slots' = slots /\ \E n : items' = [items EXCEPT ![item].count = n]
      \/ slots' = [slots EXCEPT ![sq] = 0] /\ items' = [x \in DOMAIN items \ {item} |-> items[x]]
  BY DEF Destroy, Without
<1> HIDE DEF item
<1>4. /\ DOMAIN items \ {item} \subseteq DOMAIN items' /\ DOMAIN items' \subseteq DOMAIN items
      /\ \A x \in DOMAIN items \ {item} : items'[x] = items[x]
  BY <1>1, <1>3
<1>5. /\ DOMAIN slots' = DOMAIN slots
      /\ \A q \in DOMAIN slots : slots'[q] \in {slots[q], 0}
  BY <1>1, <1>3
<1>6. 0 \notin DOMAIN items
  BY DEF IInv, TypeOK
<1> QED BY <1>1, <1>2, <1>4, <1>5, <1>6 DEF Operates, LeavesLoose, Loose

LEMMA GiveLeaves ==
  ASSUME IInv, NEW sq, NEW name, NEW count, Give(sq, name, count)
  PROVE  Operates(0)
<1> DEFINE new == next_entity_id
<1>1. /\ slots' = [slots EXCEPT ![sq] = new]
      /\ items' = [x \in DOMAIN items \cup {new} |->
                     IF x = new THEN [name |-> name, count |-> count] ELSE items[x]]
      /\ next_entity_id' = new + 1 /\ task' = task
  BY DEF Give, CreateStack
<1>2. new \in Nat \ {0} /\ new \notin DOMAIN items /\ slots \in [DOMAIN slots -> Nat]
  BY MintIsNew DEF IInv, TypeOK
<1>3. /\ DOMAIN slots' = DOMAIN slots
      /\ \A q \in DOMAIN slots : slots'[q] \in {slots[q], new}
  BY <1>1, <1>2
<1>4. /\ DOMAIN items' = DOMAIN items \cup {new}
      /\ \A x \in DOMAIN items : items'[x] = items[x]
  BY <1>1, <1>2
<1>5. new' >= new
  BY <1>1, <1>2
<1> QED BY <1>1, <1>2, <1>3, <1>4, <1>5 DEF Operates, LeavesLoose, Loose

(* A split, a merge or an exchange is between squares.                     *)
LEMMA TransferLeaves ==
  ASSUME IInv, NEW s, NEW t, NEW count \in Nat, TransferToSlot(s, t, count)
  PROVE  Operates(0)
<1>1. /\ s \in DOMAIN slots /\ t \in DOMAIN slots /\ slots[s] # 0 /\ task' = task
      /\ slots[s] \in DOMAIN items /\ slots \in [DOMAIN slots -> Nat]
      /\ items \in [DOMAIN items -> Stack] /\ next_entity_id \in Nat \ {0}
      /\ 0 \notin DOMAIN items
  BY DEF TransferToSlot, Addressable, IInv, TypeOK, NoDanglingSlot
<1> DEFINE from == slots[s]
           into == slots[t]
           new == next_entity_id
<1>2. ~Loose(from) /\ ~Loose(into)
  BY <1>1 DEF Loose
<1>3. CASE TrySplit(s, t, count)
  <2> DEFINE rest == [items EXCEPT ![from].count = @ - count]
  <2>1. /\ slots' = [slots EXCEPT ![t] = new] /\ new' = new + 1
        /\ items' = [x \in DOMAIN items \cup {new} |->
                       IF x = new THEN [name |-> items[from].name, count |-> count]
                       ELSE rest[x]]
    BY <1>3 DEF TrySplit
  <2>2. \A x \in DOMAIN items \ {from} : rest[x] = items[x]
    OBVIOUS
  <2>3. new \notin DOMAIN items
    BY MintIsNew
  <2> HIDE DEF rest, from
  <2>4. /\ DOMAIN items' = DOMAIN items \cup {new}
        /\ \A x \in DOMAIN items \ {from} : items'[x] = items[x]
    BY <2>1, <2>2, <2>3
  <2>5. /\ DOMAIN slots' = DOMAIN slots
        /\ \A q \in DOMAIN slots : slots'[q] \in {slots[q], new}
    BY <1>1, <2>1
  <2>6. new' >= new
    BY <1>1, <2>1
  <2> QED BY <1>1, <1>2, <2>3, <2>4, <2>5, <2>6 DEF Operates, LeavesLoose, Loose
<1>4. CASE CanMerge(s, t, count) /\ TryMerge(s, t, count, <<>>)
  <2> DEFINE grown == [items EXCEPT ![into].count = @ + Moved(s, t, count)]
  <2>1. /\ next_entity_id' = next_entity_id
        /\ \/ slots' = slots /\ \E n : items' = [grown EXCEPT ![from].count = n]
           \/ /\ slots' = [slots EXCEPT ![s] = 0]
              /\ items' = [x \in DOMAIN items \ {from} |-> grown[x]]
    BY <1>4 DEF TryMerge
  <2>2. DOMAIN grown = DOMAIN items /\ \A x \in DOMAIN items \ {into} : grown[x] = items[x]
    OBVIOUS
  <2> HIDE DEF grown, into, from
  <2>3. /\ DOMAIN items \ {from} \subseteq DOMAIN items' /\ DOMAIN items' \subseteq DOMAIN items
        /\ \A x \in DOMAIN items \ {from} : items'[x] = grown[x]
    BY <2>1, <2>2
  <2>4. /\ DOMAIN slots' = DOMAIN slots
        /\ \A q \in DOMAIN slots : slots'[q] \in {slots[q], 0}
    BY <1>1, <2>1
  <2> QED BY <1>1, <1>2, <2>1, <2>2, <2>3, <2>4 DEF Operates, LeavesLoose, Loose
<1>5. CASE Exchange(s, t, <<>>)
  <2>1. /\ slots' = [slots EXCEPT ![s] = slots[t], ![t] = slots[s]]
        /\ items' = items /\ next_entity_id' = next_entity_id
    BY <1>5 DEF Exchange
  <2>2. /\ DOMAIN slots' = DOMAIN slots
        /\ \A q \in DOMAIN slots : slots'[q] \in {slots[q], from, into}
    BY <1>1, <2>1
  <2> HIDE DEF from, into
  <2> QED BY <1>1, <1>2, <2>1, <2>2 DEF Operates, LeavesLoose, Loose
<1> QED BY <1>3, <1>4, <1>5 DEF TransferToSlot

-----------------------------------------------------------------------------
(* Handlers that put nothing on the floor and park nothing new. *)

LEMMA OperatingKeepsInv ==
  ASSUME BelongingsInv, IInv', NEW but, Operates(but), ~OnFloor(but),
         drop_slots' \in [DropSquares -> Nat],
         \A k \in DropSquares : drop_slots'[k] # 0 =>
            drop_slots'[k] = drop_slots[k] /\ (drop_slots[k] = but => Loose(but)'),
         floor' = floor, pending' \in Handlers, pending'.what # "pickup",
         ~IsOpen(Player) => pending' = Nothing
  PROVE  BelongingsInv'
<1>1. /\ \A e : Loose(e) /\ e # but => Loose(e)' /\ items'[e] = items[e]
      /\ DOMAIN items' \subseteq DOMAIN items \cup {next_entity_id}
      /\ next_entity_id' >= next_entity_id /\ next_entity_id' \in Nat
      /\ next_entity_id \in Nat
      /\ DOMAIN slots' = DOMAIN slots /\ task' = task
  BY DEF Operates, LeavesLoose, BelongingsInv, IInv, TypeOK
<1>2. \A e : OnFloor(e)' <=> OnFloor(e)
  BY DEF OnFloor
<1>3. BelongingsTyped'
  BY <1>1 DEF BelongingsInv, BelongingsTyped, IsOpen, Parked
<1>4. FloorIsApart'
  BY <1>1 DEF BelongingsInv, BelongingsTyped, FloorIsApart, Drop
<1>5. FloorIsAsAnnounced'
  <2> SUFFICES ASSUME NEW d \in floor, d.stack \in DOMAIN items'
               PROVE  /\ Loose(d.stack)'
                      /\ items'[d.stack] = [name |-> d.name, count |-> d.count]
    BY DEF FloorIsAsAnnounced
  <2>1. d.stack # but /\ d.stack # next_entity_id
    BY <1>1 DEF OnFloor, BelongingsInv, BelongingsTyped, FloorIsApart, Drop
  <2>2. d.stack \in DOMAIN items
    BY <1>1, <2>1
  <2> QED BY <1>1, <2>1, <2>2 DEF BelongingsInv, FloorIsAsAnnounced
<1>6. ParkedIsApart'
  <2> SUFFICES ASSUME NEW k \in DropSquares, drop_slots'[k] # 0
               PROVE  /\ Loose(drop_slots[k])' /\ ~OnFloor(drop_slots'[k])
                      /\ \A j \in DropSquares : drop_slots'[j] # 0 /\ j # k =>
                           drop_slots'[j] # drop_slots'[k]
    BY <1>2 DEF ParkedIsApart, Parked
  <2> QED BY <1>1, <1>2 DEF BelongingsInv, ParkedIsApart, Parked
<1>7. InHandIsApart'
  BY DEF InHandIsApart
<1> QED BY <1>3, <1>4, <1>5, <1>6, <1>7 DEF BelongingsInv

LEMMA StandingKeepsInv ==
  ASSUME IInv, UNCHANGED vars
  PROVE  IInv'
BY DEF vars, IInv, TypeOK, NoDanglingSlot, NoSharedStack, AllocatorAhead

(* What is known of every stack on a drop square.                          *)
LEMMA ParkedIsLoose ==
  ASSUME BelongingsInv, NEW k \in DropSquares, drop_slots[k] # 0
  PROVE  /\ drop_slots[k] \in DOMAIN items /\ Loose(drop_slots[k])
         /\ ~OnFloor(drop_slots[k]) /\ IsOpen(Player)
         /\ \A j \in DropSquares : j # k => drop_slots[j] # drop_slots[k]
BY DEF BelongingsInv, BelongingsTyped, ParkedIsApart, Parked, Loose

LEMMA NothingOnFloor == ASSUME BelongingsInv PROVE ~OnFloor(0)
BY DEF BelongingsInv, FloorIsApart, OnFloor

(* A drop square is emptied into the rucksack.                             *)
LEMMA TakeOffSafe ==
  ASSUME BelongingsInv, NEW k \in DropSquares, TakeOff(k), floor' = floor, pending' = Nothing
  PROVE  BelongingsInv'
<1> DEFINE e == drop_slots[k]
<1>1. /\ e # 0 /\ Collect(Player, e) /\ drop_slots' = [drop_slots EXCEPT ![k] = 0]
      /\ drop_slots \in [DropSquares -> Nat] /\ IInv
  BY DEF TakeOff, BelongingsInv, BelongingsTyped
<1>2. /\ e \in DOMAIN items /\ Loose(e) /\ ~OnFloor(e) /\ IsOpen(Player)
      /\ \A j \in DropSquares : j # k => drop_slots[j] # e
  BY <1>1, ParkedIsLoose
<1>3. Nothing \in Handlers /\ Nothing.what # "pickup"
  BY DEF Handlers, Nothing
<1> HIDE DEF e
<1>4. IInv'
  BY <1>1, <1>2, CollectSafe, BelongingsAssumption
<1>5. Operates(e)
  BY <1>1, <1>2, CollectLeaves
<1>6. /\ drop_slots' \in [DropSquares -> Nat]
      /\ \A j \in DropSquares : drop_slots'[j] # 0 =>
            drop_slots'[j] = drop_slots[j] /\ drop_slots[j] # e
  BY <1>1, <1>2
<1> QED BY <1>2, <1>3, <1>4, <1>5, <1>6, OperatingKeepsInv

LEMMA TakeFromDropSlotSafe ==
  ASSUME BelongingsInv, NEW k \in DropSquares, TakeFromDropSlot(k)
  PROVE  BelongingsInv'
BY TakeOffSafe DEF TakeFromDropSlot, Ready

(* A step that moves no stack, or one that works in the squares.           *)
LEMMA SquaresKeepInv ==
  ASSUME BelongingsInv, IInv', Operates(0), UNCHANGED <<drop_slots, floor>>,
         pending' \in Handlers, pending'.what # "pickup",
         ~IsOpen(Player) => pending' = Nothing
  PROVE  BelongingsInv'
<1>1. drop_slots \in [DropSquares -> Nat]
  BY DEF BelongingsInv, BelongingsTyped
<1>2. drop_slots' \in [DropSquares -> Nat]
      /\ \A k \in DropSquares : drop_slots'[k] # 0 =>
            drop_slots'[k] = drop_slots[k] /\ (drop_slots[k] = 0 => Loose(0)')
  BY <1>1
<1> QED BY <1>2, NothingOnFloor, OperatingKeepsInv

LEMMA RepairSafe ==
  ASSUME BelongingsInv, Repair
  PROVE  BelongingsInv'
<1> DEFINE tool == drop_slots[RepairSlot]
<1>1. RepairSlot \in DropSquares /\ tool # 0 /\ UNCHANGED <<vars, drop_slots, floor>>
  BY DEF Repair, DropSquares
<1>2. tool \in DOMAIN items /\ IsOpen(Player) /\ IInv
  BY <1>1, ParkedIsLoose DEF BelongingsInv
<1>3. items[tool].name \in Names
  BY <1>2 DEF IInv, TypeOK, Stack
<1>4. PICK cost \in RepairCosts[items[tool].name] : pending' = Repairing(cost)
  BY DEF Repair
<1>5. cost \in Seq(Stack)
  BY <1>3, BelongingsAssumption
<1>6. pending' \in Handlers /\ pending'.what # "pickup"
  BY <1>4, <1>5 DEF Repairing, Handlers
<1>7. IInv' /\ Operates(0)
  BY <1>1, <1>2, StandingKeepsInv, NothingLeaves
<1> QED BY <1>1, <1>2, <1>6, <1>7, SquaresKeepInv

(* A scan of the player's squares for what is to be paid stops at one.     *)
LEMMA HoldingIsHeld ==
  ASSUME IInv, NEW name, Holding(name) # {}
  PROVE  First(Holding(name)) \in DOMAIN slots /\ First(Holding(name)) \in Holding(name)
<1>1. \A sq \in Holding(name) : sq[2] \in Nat
  BY DEF Holding, SquaresOf, IInv, TypeOK, Square
<1>2. First(Holding(name)) \in Holding(name)
  BY <1>1, FirstIsMember
<1> QED BY <1>2 DEF Holding, SquaresOf

LEMMA PayOneSafe ==
  ASSUME BelongingsInv, PayOne
  PROVE  BelongingsInv'
<1> DEFINE due == Head(pending.list)
<1>1. /\ pending.what = "repair" /\ pending.list # <<>> /\ UNCHANGED <<drop_slots, floor>>
      /\ pending \in Handlers /\ IsOpen(Player) /\ IInv
  BY DEF PayOne, BelongingsInv, BelongingsTyped, Nothing
<1>2. pending.list \in Seq(Stack)
  BY <1>1 DEF Handlers, Nothing
<1>3. due \in Stack /\ Tail(pending.list) \in Seq(Stack)
  BY <1>1, <1>2
<1>4. CASE /\ due.count > 0 /\ Holding(due.name) # {}
           /\ Destroy(First(Holding(due.name)), 1)
           /\ pending' = Repairing(<<[due EXCEPT !.count = @ - 1]>> \o Tail(pending.list))
  <2>1. First(Holding(due.name)) \in DOMAIN slots
    BY <1>1, <1>4, HoldingIsHeld
  <2>2. IInv' /\ Operates(0)
    BY <1>1, <1>4, <2>1, DestroySafe, DestroyLeaves
  <2>3. [due EXCEPT !.count = @ - 1] \in Stack
    BY <1>3, <1>4 DEF Stack
  <2>4. <<[due EXCEPT !.count = @ - 1]>> \o Tail(pending.list) \in Seq(Stack)
    BY <1>3, <2>3
  <2>5. pending' \in Handlers /\ pending'.what # "pickup"
    BY <1>4, <2>4 DEF Repairing, Handlers
  <2> QED BY <1>1, <2>2, <2>5, SquaresKeepInv
<1>5. CASE pending' = Repairing(Tail(pending.list)) /\ UNCHANGED vars
  <2>1. pending' \in Handlers /\ pending'.what # "pickup"
    BY <1>3, <1>5 DEF Repairing, Handlers
  <2>2. IInv' /\ Operates(0)
    BY <1>1, <1>5, StandingKeepsInv, NothingLeaves
  <2> QED BY <1>1, <2>1, <2>2, SquaresKeepInv
<1> QED BY <1>4, <1>5 DEF PayOne

LEMMA FinishRepairSafe ==
  ASSUME BelongingsInv, FinishRepair
  PROVE  BelongingsInv'
<1>1. Nothing \in Handlers /\ Nothing.what # "pickup" /\ RepairSlot \in DropSquares
  BY DEF Handlers, Nothing, DropSquares
<1>2. CASE TakeOff(RepairSlot)
  BY <1>1, <1>2, TakeOffSafe DEF FinishRepair
<1>3. CASE UNCHANGED <<vars, drop_slots>>
  <2>1. IInv' /\ Operates(0)
    BY <1>3, StandingKeepsInv, NothingLeaves DEF BelongingsInv
  <2> QED BY <1>1, <1>3, <2>1, SquaresKeepInv DEF FinishRepair
<1> QED BY <1>2, <1>3 DEF FinishRepair

(* What was taken apart stays where it is until it is used up.             *)
LEMMA DismantleSafe ==
  ASSUME BelongingsInv, Dismantle
  PROVE  BelongingsInv'
<1> DEFINE item == drop_slots[DismantleSlot]
           made == MaxOf(Made[items[item].name], 1)
           returned == CHOOSE l \in Returns[items[item].name] : pending' = Returning(l)
<1>1. /\ DismantleSlot \in DropSquares /\ item # 0 /\ items[item].name \in DOMAIN Made
      /\ ConsumeLoose(item, made) /\ floor' = floor
      /\ drop_slots' = [drop_slots EXCEPT ![DismantleSlot] =
                          IF item \in DOMAIN items' THEN item ELSE 0]
  BY DEF Dismantle, DropSquares
<1>2. /\ item \in DOMAIN items /\ Loose(item) /\ ~OnFloor(item) /\ IsOpen(Player) /\ IInv
      /\ \A j \in DropSquares : j # DismantleSlot => drop_slots[j] # item
      /\ drop_slots \in [DropSquares -> Nat] /\ item \in Nat
  BY <1>1, ParkedIsLoose DEF BelongingsInv, BelongingsTyped
<1>3. made \in Nat
  BY <1>1, BelongingsAssumption DEF MaxOf
<1>4. pending' = Returning(returned) /\ returned \in Seq(Stack)
  <2>1. \E l \in Returns[items[item].name] : pending' = Returning(l)
    BY DEF Dismantle
  <2> HIDE DEF item
  <2> QED BY <1>1, <2>1, BelongingsAssumption
<1> HIDE DEF returned
<1>5. pending' \in Handlers /\ pending'.what # "pickup"
  BY <1>4 DEF Returning, Handlers
<1> HIDE DEF item, made
<1>6. IInv'
  BY <1>1, <1>2, <1>3, ConsumeLooseSafe
<1>7. Operates(item) /\ \A e : e = item /\ e \in DOMAIN items' => Loose(e)'
  <2> SUFFICES ASSUME NEW e, e = item
               PROVE  Operates(item) /\ (e \in DOMAIN items' => Loose(e)')
    OBVIOUS
  <2> QED BY <1>1, <1>2, ConsumeLeaves
<1>8. drop_slots' \in [DropSquares -> Nat]
  BY <1>1, <1>2
<1>9. \A k \in DropSquares : drop_slots'[k] # 0 =>
        drop_slots'[k] = drop_slots[k] /\ (drop_slots[k] = item => item \in DOMAIN items')
  <2>1. drop_slots[DismantleSlot] = item
    BY DEF item
  <2> QED BY <1>1, <1>2, <2>1
<1> DEFINE e == item
<1>10. \A x : x = item =>
         /\ Operates(x) /\ ~OnFloor(x)
         /\ \A k \in DropSquares : drop_slots'[k] # 0 =>
               drop_slots'[k] = drop_slots[k] /\ (drop_slots[k] = x => Loose(x)')
  BY <1>2, <1>7, <1>9
<1>11. ASSUME NEW x, x = item PROVE BelongingsInv'
  BY <1>1, <1>2, <1>5, <1>6, <1>8, <1>10, <1>11, OperatingKeepsInv
<1> QED BY <1>11

LEMMA ReturnMaterialSafe ==
  ASSUME BelongingsInv, ReturnMaterial
  PROVE  BelongingsInv'
<1> DEFINE material == Head(pending.list)
<1>1. /\ pending.what = "materials" /\ pending.list # <<>> /\ UNCHANGED <<drop_slots, floor>>
      /\ pending' = Returning(Tail(pending.list))
      /\ pending \in Handlers /\ IsOpen(Player) /\ IInv
  BY DEF ReturnMaterial, BelongingsInv, BelongingsTyped, Nothing
<1>2. pending.list \in Seq(Stack)
  BY <1>1 DEF Handlers, Nothing
<1>3. material \in Stack /\ Tail(pending.list) \in Seq(Stack)
  BY <1>1, <1>2
<1>4. pending' \in Handlers /\ pending'.what # "pickup"
  BY <1>1, <1>3 DEF Returning, Handlers
<1>5. CASE /\ FreeRucksack(Player) # {}
           /\ Give(First(FreeRucksack(Player)), material.name, material.count)
  <2>1. First(FreeRucksack(Player)) \in DOMAIN slots
    BY <1>1, <1>5, FreeIsFree DEF IInv
  <2>2. material.name \in Names /\ material.count \in Nat
    BY <1>3 DEF Stack
  <2>3. IInv' /\ Operates(0)
    BY <1>1, <1>5, <2>1, <2>2, GiveSafe, GiveLeaves
  <2> QED BY <1>1, <1>4, <2>3, SquaresKeepInv
<1>6. CASE UNCHANGED vars
  <2>1. IInv' /\ Operates(0)
    BY <1>1, <1>6, StandingKeepsInv, NothingLeaves
  <2> QED BY <1>1, <1>4, <2>1, SquaresKeepInv
<1> QED BY <1>5, <1>6 DEF ReturnMaterial

LEMMA FinishDismantleSafe ==
  ASSUME BelongingsInv, FinishDismantle
  PROVE  BelongingsInv'
<1>1. Nothing \in Handlers /\ Nothing.what # "pickup"
  BY DEF Handlers, Nothing
<1>2. IInv' /\ Operates(0)
  BY StandingKeepsInv, NothingLeaves DEF FinishDismantle, BelongingsInv
<1> QED BY <1>1, <1>2, SquaresKeepInv DEF FinishDismantle

LEMMA SessionSafe ==
  ASSUME BelongingsInv, GetStack \/ UseSquares
  PROVE  BelongingsInv'
<1>1. /\ IInv /\ pending = Nothing /\ UNCHANGED <<drop_slots, floor, pending>>
      /\ StackSizes \subseteq Nat /\ Counts \subseteq Nat
  BY InventoriesAssumption DEF BelongingsInv, GetStack, UseSquares, Ready, belongings
<1>2. Nothing \in Handlers /\ Nothing.what # "pickup"
  BY DEF Handlers, Nothing
<1>3. IInv' /\ Operates(0)
  <2>1. ASSUME NEW sq \in DOMAIN slots, NEW n \in Names, NEW c \in StackSizes, Give(sq, n, c)
        PROVE  IInv' /\ Operates(0)
    BY <1>1, <2>1, GiveSafe, GiveLeaves
  <2>2. ASSUME NEW s \in DOMAIN slots, NEW t \in DOMAIN slots, NEW c \in Counts,
               TransferToSlot(s, t, c)
        PROVE  IInv' /\ Operates(0)
    BY <1>1, <2>2, ClientMoveSafe, TransferLeaves
  <2>3. ASSUME NEW sq \in DOMAIN slots, NEW c \in Counts, Destroy(sq, c)
        PROVE  IInv' /\ Operates(0)
    BY <1>1, <2>3, DestroySafe, DestroyLeaves
  <2> QED BY <2>1, <2>2, <2>3 DEF GetStack, UseSquares
<1> QED BY <1>1, <1>2, <1>3, SquaresKeepInv

-----------------------------------------------------------------------------
(* Onto a drop square. *)

LEMMA MoveToDropSlotSafe ==
  ASSUME BelongingsInv, NEW k \in DropSquares, NEW index, MoveToDropSlot(k, index)
  PROVE  BelongingsInv'
<1> DEFINE sq == <<Player, index>>
<1>1. /\ drop_slots[k] = 0 /\ Detach(sq) /\ UNCHANGED <<floor, pending>>
      /\ pending = Nothing /\ IInv /\ drop_slots \in [DropSquares -> Nat]
      /\ drop_slots' = [drop_slots EXCEPT ![k] = slots[sq]]
  BY DEF MoveToDropSlot, Ready, BelongingsInv, BelongingsTyped
<1> HIDE DEF sq
<1>2. SUFFICES ASSUME NEW e, e = slots[sq] PROVE BelongingsInv'
  OBVIOUS
<1>3. /\ Operates(0) /\ sq \in DOMAIN slots /\ e # 0 /\ e \in DOMAIN items
      /\ Loose(e)' /\ UNCHANGED <<items, next_entity_id>>
  BY <1>1, <1>2, DetachLeaves
<1>4. IInv'
  BY <1>1, <1>3, DetachSafe
<1>5. ~Loose(e) /\ ~OnFloor(e) /\ \A j \in Parked : drop_slots[j] # e
  <2>1. ~Loose(e)
    BY <1>2, <1>3 DEF Loose
  <2> QED BY <1>3, <2>1 DEF OnFloor, BelongingsInv, FloorIsAsAnnounced, ParkedIsApart
<1>6. e \in Nat
  BY <1>3 DEF BelongingsInv, IInv, TypeOK
<1>7. /\ drop_slots' \in [DropSquares -> Nat]
      /\ \A j \in DropSquares : drop_slots'[j] = IF j = k THEN e ELSE drop_slots[j]
  BY <1>1, <1>2, <1>6
<1>8. /\ \A x : Loose(x) /\ x # 0 => Loose(x)'
      /\ DOMAIN slots' = DOMAIN slots /\ task' = task
  BY <1>3 DEF Operates, LeavesLoose
<1>9. \A x : OnFloor(x)' <=> OnFloor(x)
  BY <1>1 DEF OnFloor
<1>10. sq[1] = Player
  BY DEF sq
<1>11. BelongingsTyped'
  BY <1>1, <1>3, <1>7, <1>8, <1>10 DEF BelongingsInv, BelongingsTyped, IsOpen
<1>12. FloorIsApart' /\ FloorIsAsAnnounced'
  <2>1. FloorIsApart'
    BY <1>1, <1>3 DEF BelongingsInv, FloorIsApart
  <2>2. FloorIsAsAnnounced'
    BY <1>1, <1>3, <1>8 DEF BelongingsInv, FloorIsApart, FloorIsAsAnnounced
  <2> QED BY <2>1, <2>2
<1>13. ParkedIsApart'
  <2> SUFFICES ASSUME NEW j \in DropSquares, drop_slots'[j] # 0
               PROVE  /\ Loose(drop_slots[j])' /\ ~OnFloor(drop_slots'[j])
                      /\ \A i \in DropSquares : drop_slots'[i] # 0 /\ i # j =>
                           drop_slots'[i] # drop_slots'[j]
    BY <1>9 DEF ParkedIsApart, Parked
  <2>1. CASE j = k
    BY <1>3, <1>5, <1>7, <2>1 DEF Parked
  <2>2. CASE j # k
    BY <1>5, <1>7, <1>8, <2>2 DEF Parked, BelongingsInv, ParkedIsApart
  <2> QED BY <2>1, <2>2
<1>14. InHandIsApart'
  BY <1>1 DEF InHandIsApart, Nothing
<1> QED BY <1>4, <1>11, <1>12, <1>13, <1>14 DEF BelongingsInv

-----------------------------------------------------------------------------
(* The floor. *)

(* A drop has an id past every other's.                                    *)
LEMMA NewOnFloor ==
  ASSUME BelongingsInv, IInv', NEW name \in Names, NEW count \in Nat, NEW new,
         new = next_entity_id, next_entity_id' = new + 2,
         floor' = floor \cup {[pickup |-> new + 1, stack |-> new,
                               name |-> name, count |-> count]},
         \/ items' = items
         \/ /\ DOMAIN items' = DOMAIN items \cup {new}
            /\ items'[new] = [name |-> name, count |-> count]
            /\ \A x \in DOMAIN items : items'[x] = items[x],
         pending = Nothing, UNCHANGED <<slots, task, drop_slots, pending>>
  PROVE  BelongingsInv'
<1>1. /\ new \in Nat \ {0} /\ new \notin DOMAIN items
      /\ \A sq \in DOMAIN slots : slots[sq] # new
  BY MintIsNew DEF BelongingsInv
<1> DEFINE drop == [pickup |-> new + 1, stack |-> new, name |-> name, count |-> count]
<1>2. /\ drop \in Drop /\ drop.stack = new /\ drop.name = name /\ drop.count = count
      /\ floor' = floor \cup {drop}
  BY <1>1 DEF Drop
<1> HIDE DEF drop
<1>3. \A d \in floor : d.stack \in Nat \ {0} /\ d.stack < new /\ d.stack # new
  BY <1>1 DEF BelongingsInv, BelongingsTyped, FloorIsApart, Drop
<1>4. /\ \A e : Loose(e) => Loose(e)' /\ items'[e] = items[e]
      /\ new \in DOMAIN items' => Loose(new)' /\ items'[new] = [name |-> name, count |-> count]
      /\ \A e \in DOMAIN items' : e = new \/ e \in DOMAIN items
  BY <1>1 DEF Loose
<1>5. BelongingsTyped'
  BY <1>2 DEF BelongingsInv, BelongingsTyped, IsOpen, Parked
<1>6. FloorIsApart'
  BY <1>1, <1>2, <1>3 DEF BelongingsInv, FloorIsApart
<1>7. FloorIsAsAnnounced'
  <2> SUFFICES ASSUME NEW d \in floor \cup {drop}, d.stack \in DOMAIN items'
               PROVE  /\ Loose(d.stack)'
                      /\ items'[d.stack] = [name |-> d.name, count |-> d.count]
    BY <1>2 DEF FloorIsAsAnnounced
  <2> QED BY <1>2, <1>3, <1>4 DEF BelongingsInv, FloorIsAsAnnounced
<1>8. ParkedIsApart'
  <2> SUFFICES ASSUME NEW k \in Parked
               PROVE  Loose(drop_slots[k])' /\ ~OnFloor(drop_slots[k])'
    BY DEF BelongingsInv, ParkedIsApart, Parked
  <2>1. Loose(drop_slots[k]) /\ ~OnFloor(drop_slots[k])
    BY DEF BelongingsInv, ParkedIsApart
  <2>2. drop_slots[k] # new
    BY <1>1, <2>1 DEF Loose
  <2> QED BY <1>2, <1>4, <2>1, <2>2 DEF OnFloor
<1>9. InHandIsApart'
  BY DEF InHandIsApart, Nothing
<1> QED BY <1>5, <1>6, <1>7, <1>8, <1>9 DEF BelongingsInv

LEMMA DropPickupSafe ==
  ASSUME BelongingsInv, NEW name \in Names, NEW count \in StackSizes, DropPickup(name, count)
  PROVE  BelongingsInv'
<1>0. SUFFICES ASSUME NEW new, new = next_entity_id PROVE BelongingsInv'
  OBVIOUS
<1>1. /\ items' = [x \in DOMAIN items \cup {new} |->
                     IF x = new THEN [name |-> name, count |-> count] ELSE items[x]]
      /\ next_entity_id' = new + 2 /\ named' = named \cup {new, new + 1}
      /\ floor' = floor \cup {[pickup |-> new + 1, stack |-> new,
                               name |-> name, count |-> count]}
      /\ effects' = <<ItemCreated(new)>> /\ pending = Nothing
      /\ UNCHANGED <<slots, limits, task, drop_slots, pending>>
  BY <1>0 DEF DropPickup, Ready
<1>2. new \in Nat \ {0} /\ new \notin DOMAIN items /\ count \in Nat
  BY <1>0, MintIsNew, InventoriesAssumption DEF BelongingsInv
<1>3. /\ DOMAIN items' = DOMAIN items \cup {new}
      /\ items'[new] = [name |-> name, count |-> count]
      /\ \A x \in DOMAIN items : items'[x] = items[x]
  BY <1>1, <1>2
<1>4. IInv'
  <2>1. items' \in [DOMAIN items' -> Stack]
    <3>1. [name |-> name, count |-> count] \in Stack
      BY <1>2 DEF Stack
    <3> QED BY <1>1, <3>1 DEF BelongingsInv, IInv, TypeOK
  <2>2. effects' \in Seq(Effect)
    BY <1>1, <1>2 DEF ItemCreated, Effect
  <2>3. TypeOK'
    BY <1>1, <1>2, <1>3, <2>1, <2>2 DEF BelongingsInv, IInv, TypeOK
  <2>4. NoDanglingSlot' /\ NoSharedStack'
    BY <1>1, <1>3 DEF BelongingsInv, IInv, NoDanglingSlot, NoSharedStack
  <2>5. AllocatorAhead'
    BY <1>0, <1>1, <1>2, <1>3 DEF BelongingsInv, IInv, TypeOK, AllocatorAhead
  <2> QED BY <2>3, <2>4, <2>5 DEF IInv
<1> QED BY <1>0, <1>1, <1>2, <1>3, <1>4, NewOnFloor

(* Another session's drop: only the allocator hears of it.                 *)
LEMMA OtherDropsSafe ==
  ASSUME BelongingsInv, NEW name \in Names, NEW count \in StackSizes, OtherDrops(name, count)
  PROVE  BelongingsInv'
<1>0. SUFFICES ASSUME NEW new, new = next_entity_id PROVE BelongingsInv'
  OBVIOUS
<1>1. /\ next_entity_id' = new + 2
      /\ floor' = floor \cup {[pickup |-> new + 1, stack |-> new,
                               name |-> name, count |-> count]}
      /\ pending = Nothing
      /\ UNCHANGED <<slots, items, limits, effects, task, named, drop_slots, pending>>
  BY <1>0 DEF OtherDrops, Ready
<1>2. new \in Nat \ {0} /\ count \in Nat
  BY <1>0, MintIsNew, InventoriesAssumption DEF BelongingsInv
<1>3. IInv'
  BY <1>0, <1>1, <1>2
     DEF BelongingsInv, IInv, TypeOK, NoDanglingSlot, NoSharedStack, AllocatorAhead
<1> QED BY <1>0, <1>1, <1>2, <1>3, NewOnFloor

LEMMA OtherCollectsSafe ==
  ASSUME BelongingsInv, NEW d \in floor, OtherCollects(d)
  PROVE  BelongingsInv'
<1>1. /\ floor' \subseteq floor /\ pending = Nothing
      /\ UNCHANGED <<slots, items, next_entity_id, task, drop_slots, pending>> /\ UNCHANGED vars
  BY DEF OtherCollects, Ready, vars
<1>2. IInv'
  BY <1>1, StandingKeepsInv DEF BelongingsInv
<1>3. BelongingsTyped' /\ FloorIsApart' /\ FloorIsAsAnnounced'
  BY <1>1 DEF BelongingsInv, BelongingsTyped, FloorIsApart, FloorIsAsAnnounced, IsOpen, Parked, Loose
<1>4. ParkedIsApart'
  BY <1>1 DEF BelongingsInv, ParkedIsApart, Parked, Loose, OnFloor
<1>5. InHandIsApart'
  BY <1>1 DEF InHandIsApart, Nothing
<1> QED BY <1>2, <1>3, <1>4, <1>5 DEF BelongingsInv

(* Taken off the floor and into the hand: the session may know it already. *)
LEMMA CollectPickupSafe ==
  ASSUME BelongingsInv, NEW d \in floor, CollectPickup(d)
  PROVE  BelongingsInv'
<1> DEFINE e == d.stack
           announced == [name |-> d.name, count |-> d.count]
<1>1. /\ CreateLooseWithId(e, d.name, d.count) /\ floor' = floor \ {d}
      /\ pending' = PickingUp(d) /\ drop_slots' = drop_slots /\ IsOpen(Player)
      /\ UNCHANGED <<slots, limits, task>>
  BY DEF CollectPickup, CreateLooseWithId
<1>2. /\ d \in Drop /\ e \in Nat \ {0} /\ e < next_entity_id
      /\ d.name \in Names /\ d.count \in Nat
  BY DEF BelongingsInv, BelongingsTyped, FloorIsApart, Drop
<1>3. IInv'
  BY <1>1, <1>2, CreateLooseWithIdSafe DEF BelongingsInv
<1>4. next_entity_id' = next_entity_id
  BY <1>1, <1>2 DEF CreateLooseWithId, MaxOf, BelongingsInv, IInv, TypeOK
<1>5. /\ e \in DOMAIN items' /\ items'[e] = announced
      /\ \A x \in DOMAIN items : x \in DOMAIN items' /\ items'[x] = items[x]
      /\ \A x \in DOMAIN items' : x = e \/ x \in DOMAIN items
  <2>1. CASE e \in DOMAIN items
    <3>1. items' = items /\ items[e] = announced
      BY <1>1, <2>1 DEF CreateLooseWithId, BelongingsInv, FloorIsAsAnnounced
    <3> QED BY <2>1, <3>1
  <2>2. CASE e \notin DOMAIN items
    <3>1. items' = [x \in DOMAIN items \cup {e} |-> IF x = e THEN announced ELSE items[x]]
      BY <1>1, <2>2 DEF CreateLooseWithId
    <3> HIDE DEF announced, e
    <3> QED BY <2>2, <3>1
  <2> QED BY <2>1, <2>2
<1>6. \A sq \in DOMAIN slots : slots[sq] # e
  <2>1. CASE e \in DOMAIN items
    BY <2>1 DEF BelongingsInv, FloorIsAsAnnounced, Loose
  <2>2. CASE e \notin DOMAIN items
    BY <1>2, <2>2 DEF BelongingsInv, IInv, NoDanglingSlot
  <2> QED BY <2>1, <2>2
<1> HIDE DEF e, announced
<1>7. Loose(e)' /\ \A x : Loose(x) => Loose(x)' /\ items'[x] = items[x]
  <2>1. ASSUME NEW x, x = e PROVE Loose(x)'
    BY <1>1, <1>5, <1>6, <2>1 DEF Loose
  <2>2. \A x : Loose(x) => Loose(x)' /\ items'[x] = items[x]
    BY <1>1, <1>5 DEF Loose
  <2> QED BY <2>1, <2>2 DEF e
<1>8. \A other \in floor' : other \in floor /\ other # d /\ other.stack # e
  BY <1>1 DEF BelongingsInv, FloorIsApart, e
<1>9. \A x : OnFloor(x)' => OnFloor(x) /\ x # e
  BY <1>8 DEF OnFloor
<1>10. BelongingsTyped'
  <2>1. pending' \in Handlers
    BY <1>1, <1>2 DEF PickingUp, Handlers
  <2> QED BY <1>1, <2>1 DEF BelongingsInv, BelongingsTyped, IsOpen, Parked
<1>11. FloorIsApart'
  BY <1>4, <1>8 DEF BelongingsInv, FloorIsApart
<1>12. FloorIsAsAnnounced'
  BY <1>5, <1>7, <1>8 DEF BelongingsInv, FloorIsAsAnnounced
<1>13. \A k \in Parked : drop_slots[k] # e
  BY DEF BelongingsInv, ParkedIsApart, OnFloor, e
<1>14. ParkedIsApart'
  BY <1>1, <1>7, <1>9 DEF BelongingsInv, ParkedIsApart, Parked
<1>15. InHandIsApart'
  <2>1. pending'.drop = d /\ Parked' = Parked
    BY <1>1 DEF PickingUp, Parked
  <2> QED BY <1>1, <1>2, <1>5, <1>7, <1>9, <1>13, <2>1 DEF InHandIsApart, e, announced
<1> QED BY <1>3, <1>10, <1>11, <1>12, <1>14, <1>15 DEF BelongingsInv

(* Into the rucksack, or back to where it lay.                             *)
LEMMA FinishPickupSafe ==
  ASSUME BelongingsInv, FinishPickup
  PROVE  BelongingsInv'
<1> DEFINE d == pending.drop
           e == d.stack
<1>1. /\ pending.what = "pickup" /\ pending' = Nothing /\ drop_slots' = drop_slots
      /\ pending \in Handlers /\ drop_slots \in [DropSquares -> Nat] /\ IInv
  BY DEF FinishPickup, BelongingsInv, BelongingsTyped
<1>2. d \in Drop
  BY <1>1 DEF Handlers, Nothing
<1>3. /\ e # 0 /\ Loose(e) /\ ~OnFloor(e) /\ e \in DOMAIN items
      /\ items[e] = [name |-> d.name, count |-> d.count]
      /\ \A k \in Parked : drop_slots[k] # e
  BY <1>1 DEF BelongingsInv, InHandIsApart, Loose
<1>4. Nothing \in Handlers /\ Nothing.what # "pickup"
  BY DEF Handlers, Nothing
<1>5. CASE Collect(Player, e) /\ floor' = floor
  <2> HIDE DEF e
  <2>1. IInv'
    BY <1>1, <1>3, <1>5, CollectSafe, BelongingsAssumption
  <2>2. Operates(e)
    BY <1>1, <1>3, <1>5, CollectLeaves
  <2>3. \A k \in DropSquares : drop_slots'[k] # 0 =>
          drop_slots'[k] = drop_slots[k] /\ drop_slots[k] # e
    BY <1>1, <1>3 DEF Parked
  <2>4. ASSUME NEW x, x = e PROVE BelongingsInv'
    BY <1>1, <1>3, <1>4, <1>5, <2>1, <2>2, <2>3, <2>4, OperatingKeepsInv
  <2> QED BY <2>4
<1>6. CASE floor' = floor \cup {d} /\ UNCHANGED vars
  <2> HIDE DEF d
  <2>1. IInv' /\ UNCHANGED <<slots, items, next_entity_id, task>>
    BY <1>1, <1>6, StandingKeepsInv DEF vars
  <2>2. e < next_entity_id
    BY <1>3 DEF BelongingsInv, IInv, AllocatorAhead
  <2>3. BelongingsTyped'
    BY <1>1, <1>2, <1>4, <1>6, <2>1 DEF BelongingsInv, BelongingsTyped, IsOpen, Parked
  <2>4. FloorIsApart'
    BY <1>3, <1>6, <2>1, <2>2 DEF BelongingsInv, FloorIsApart, OnFloor
  <2>5. FloorIsAsAnnounced'
    BY <1>3, <1>6, <2>1 DEF BelongingsInv, FloorIsAsAnnounced, Loose
  <2>6. ParkedIsApart'
    BY <1>1, <1>3, <1>6, <2>1 DEF BelongingsInv, ParkedIsApart, Parked, Loose, OnFloor
  <2>7. InHandIsApart'
    BY <1>1, <1>4 DEF InHandIsApart
  <2> QED BY <2>1, <2>3, <2>4, <2>5, <2>6, <2>7 DEF BelongingsInv
<1> QED BY <1>5, <1>6 DEF FinishPickup

(* A player arrives with nothing, and is told what lies about.             *)
LEMMA ArriveSafe ==
  ASSUME BelongingsInv, Arrive
  PROVE  BelongingsInv'
<1> DEFINE squares == {Player} \X (0 .. SizeOf[Player] - 1)
           ids == {d.stack : d \in floor}
           found(e) == CHOOSE d \in floor : d.stack = e
<1>1. /\ slots' = [sq \in squares |-> 0] /\ limits' = TableLimits /\ effects' = <<>>
      /\ items' = [e \in ids |-> [name |-> found(e).name, count |-> found(e).count]]
      /\ named' = named \cup ids
      /\ UNCHANGED <<next_entity_id, task, drop_slots, floor, pending>>
  BY DEF Arrive
<1>2. Player \in Owners /\ SizeOf[Player] \in Nat \ {0} /\ TableLimits \in [Names -> Nat]
  BY InventoriesAssumption, BelongingsAssumption
<1>3. Parked = {} /\ pending = Nothing /\ Nothing.what # "pickup"
  BY DEF Arrive, BelongingsInv, BelongingsTyped, Nothing
<1>4. /\ squares \subseteq Square /\ \E sq \in squares : sq[1] = Player
      /\ IsFiniteSet(squares)
  <2>1. squares \subseteq Square
    BY <1>2 DEF Square
  <2>2. <<Player, 0>> \in squares
    BY <1>2
  <2>3. IsFiniteSet({Player}) /\ IsFiniteSet(0 .. SizeOf[Player] - 1)
    <3>1. 0 \in Int /\ SizeOf[Player] - 1 \in Int
      BY <1>2
    <3>2. IsFiniteSet(0 .. SizeOf[Player] - 1)
      BY <3>1, FS_Interval
    <3> QED BY <3>2, FS_Singleton
  <2>4. IsFiniteSet(squares)
    BY <2>3, FS_Product
  <2> HIDE DEF squares
  <2>5. <<Player, 0>>[1] = Player
    OBVIOUS
  <2> QED BY <2>1, <2>2, <2>4, <2>5
<1>5. \A d \in floor : /\ found(d.stack) = d /\ d.stack \in Nat \ {0}
                       /\ d.stack < next_entity_id
                       /\ [name |-> d.name, count |-> d.count] \in Stack
  <2> SUFFICES ASSUME NEW d \in floor
               PROVE  /\ found(d.stack) = d /\ d.stack \in Nat \ {0}
                      /\ d.stack < next_entity_id
                      /\ [name |-> d.name, count |-> d.count] \in Stack
    OBVIOUS
  <2>1. found(d.stack) \in floor /\ found(d.stack).stack = d.stack
    OBVIOUS
  <2>2. found(d.stack) = d
    BY <2>1 DEF BelongingsInv, FloorIsApart
  <2> QED BY <2>2 DEF BelongingsInv, BelongingsTyped, FloorIsApart, Drop, Stack
<1> HIDE DEF squares, found
<1>6. \A d \in floor : items'[d.stack] = [name |-> d.name, count |-> d.count]
  BY <1>1, <1>5
<1>7. DOMAIN slots' = squares /\ \A sq \in squares : slots'[sq] = 0
  BY <1>1
<1>8. DOMAIN items' = ids /\ ids \subseteq Nat \ {0} /\ items' \in [ids -> Stack]
  <2>1. DOMAIN items' = ids /\ ids \subseteq Nat \ {0}
    BY <1>1, <1>5
  <2>2. \A e \in ids : items'[e] \in Stack
    BY <1>5, <1>6
  <2> QED BY <1>1, <2>1, <2>2
<1>9. IInv'
  <2>1. TypeOK'
    <3>1. slots' \in [squares -> Nat] /\ effects' \in Seq(Effect)
      BY <1>1
    <3>2. named' \subseteq Nat \ {0} /\ next_entity_id' \in Nat \ {0} /\ task' \in Task
      BY <1>1, <1>8 DEF BelongingsInv, IInv, TypeOK
    <3> QED BY <1>1, <1>2, <1>4, <1>7, <1>8, <3>1, <3>2 DEF TypeOK
  <2>2. NoDanglingSlot' /\ NoSharedStack'
    BY <1>7 DEF NoDanglingSlot, NoSharedStack
  <2>3. AllocatorAhead'
    BY <1>1, <1>5, <1>8 DEF BelongingsInv, IInv, AllocatorAhead
  <2> QED BY <2>1, <2>2, <2>3 DEF IInv
<1>10. \A e \in ids : Loose(e)'
  BY <1>5, <1>7, <1>8 DEF Loose
<1>11. BelongingsTyped'
  BY <1>1, <1>3, <1>4, <1>7 DEF BelongingsInv, BelongingsTyped, IsOpen
<1>12. FloorIsApart' /\ FloorIsAsAnnounced'
  BY <1>1, <1>6, <1>10 DEF BelongingsInv, FloorIsApart, FloorIsAsAnnounced
<1>13. ParkedIsApart' /\ InHandIsApart'
  BY <1>1, <1>3 DEF ParkedIsApart, InHandIsApart, Parked
<1> QED BY <1>9, <1>11, <1>12, <1>13 DEF BelongingsInv

-----------------------------------------------------------------------------
(* The theorems. *)

LEMMA InitHasBelongings == BInit => BelongingsInv
<1> SUFFICES ASSUME BInit PROVE BelongingsInv
  OBVIOUS
<1>1. IInv
  BY InitInvariant DEF BInit
<1>2. /\ drop_slots = [k \in DropSquares |-> 0] /\ floor = {} /\ pending = Nothing
      /\ task = Idle /\ Parked = {} /\ Nothing.what # "pickup"
  BY DEF BInit, Init, Parked, Nothing
<1>3. BelongingsTyped
  BY <1>2 DEF BelongingsTyped, Handlers
<1> QED BY <1>1, <1>2, <1>3
        DEF BelongingsInv, FloorIsApart, FloorIsAsAnnounced, ParkedIsApart, InHandIsApart

LEMMA BelongingsStep == BelongingsInv /\ [BNext]_bvars => BelongingsInv'
<1> SUFFICES ASSUME BelongingsInv, [BNext]_bvars PROVE BelongingsInv'
  OBVIOUS
<1>1. CASE UNCHANGED bvars
  <2>1. UNCHANGED vars /\ UNCHANGED <<slots, items, next_entity_id, task, drop_slots, floor,
                                      pending>>
    BY <1>1 DEF bvars, vars
  <2>2. IInv'
    BY <2>1, StandingKeepsInv DEF BelongingsInv
  <2>3. BelongingsTyped' /\ FloorIsApart' /\ FloorIsAsAnnounced'
    BY <2>1 DEF BelongingsInv, BelongingsTyped, FloorIsApart, FloorIsAsAnnounced, IsOpen,
                Parked, Loose
  <2>4. ParkedIsApart' /\ InHandIsApart'
    BY <2>1 DEF BelongingsInv, ParkedIsApart, InHandIsApart, Parked, Loose, OnFloor
  <2> QED BY <2>2, <2>3, <2>4 DEF BelongingsInv
<1>2. CASE BNext
  BY <1>2, ArriveSafe, MoveToDropSlotSafe, TakeFromDropSlotSafe, RepairSafe, PayOneSafe,
     FinishRepairSafe, DismantleSafe, ReturnMaterialSafe, FinishDismantleSafe, DropPickupSafe,
     OtherDropsSafe, CollectPickupSafe, OtherCollectsSafe, FinishPickupSafe, SessionSafe
     DEF BNext
<1> QED BY <1>1, <1>2

(* What is parked, on the floor or being picked up is in one place only,   *)
(* and the squares of the rucksack keep their invariant under all of it    *)
(* (move_to_drop_slot, drop_pickup, collect_pickup).                       *)
THEOREM BelongingsAreApart == BSpec => []BelongingsInv
BY InitHasBelongings, BelongingsStep, PTL DEF BSpec

(* A drop is the stack the session knows under its id, as large as it was  *)
(* announced and in nobody's rucksack (drop_pickup, collect_pickup).       *)
THEOREM TheFloorIsAsAnnounced == BSpec => []FloorIsAsAnnounced
<1>1. BelongingsInv => FloorIsAsAnnounced
  BY DEF BelongingsInv
<1> QED BY <1>1, BelongingsAreApart, PTL

-----------------------------------------------------------------------------
(* Repairs are paid.  A component is taken one at a time from what holds   *)
(* it, so what is left of the cost stays covered by what is carried; that  *)
(* each cost is checked by itself is enough because no two name the same   *)
(* component.                                                              *)

CostsAreApart ==
  pending.what = "repair" =>
    \A i, j \in DOMAIN pending.list : pending.list[i].name = pending.list[j].name => i = j

CostsInv == BelongingsInv /\ RepairsArePaid /\ CostsAreApart

LEMMA CarriedIsSum ==
  ASSUME IInv, NEW name
  PROVE  /\ IsFiniteSet(Holding(name))
         /\ \A sq \in Holding(name) : slots[sq] \in DOMAIN items /\ items[slots[sq]].count \in Nat
         /\ [sq \in Holding(name) |-> items[slots[sq]].count] \in [Holding(name) -> Nat]
         /\ Carried(name) \in Nat
<1>1. Holding(name) \in SUBSET (DOMAIN slots) /\ IsFiniteSet(DOMAIN slots)
  BY DEF Holding, SquaresOf, IInv, TypeOK
<1>2. IsFiniteSet(Holding(name))
  BY <1>1, FS_Subset
<1>3. \A sq \in Holding(name) : slots[sq] \in DOMAIN items /\ items[slots[sq]].count \in Nat
  <2>1. items \in [DOMAIN items -> Stack] /\ NoDanglingSlot
    BY DEF IInv, TypeOK
  <2> QED BY <2>1 DEF Holding, SquaresOf, NoDanglingSlot, Stack
<1>4. [sq \in Holding(name) |-> items[slots[sq]].count] \in [Holding(name) -> Nat]
  BY <1>3
<1> QED BY <1>2, <1>3, <1>4, SumIsNat DEF Carried

(* Of the component one is gone, and of no other. *)
LEMMA OneIsTaken ==
  ASSUME IInv, NEW name, NEW sq \in Holding(name), Destroy(sq, 1), NEW m
  PROVE  /\ Carried(m)' \in Nat
         /\ m = name => Carried(m)' + 1 >= Carried(m)
         /\ m # name => Carried(m)' = Carried(m)
<1> DEFINE item == slots[sq]
           f(n) == [q \in Holding(n) |-> items[slots[q]].count]
<1>1. /\ item # 0 /\ item \in DOMAIN items /\ items[item].name = name /\ items[item].count \in Nat
      /\ sq \in DOMAIN slots /\ slots \in [DOMAIN slots -> Nat]
      /\ items \in [DOMAIN items -> Stack]
  BY CarriedIsSum DEF Holding, SquaresOf, IInv, TypeOK
<1>2. \A q \in DOMAIN slots : q # sq /\ slots[q] # 0 => slots[q] # item
  BY <1>1 DEF IInv, NoSharedStack
<1>3. \A n : /\ IsFiniteSet(Holding(n)) /\ f(n) \in [Holding(n) -> Nat]
             /\ Carried(n) = SumFunction(f(n))
  BY CarriedIsSum DEF Carried
<1>4. CASE 1 < items[item].count /\ items' = [items EXCEPT ![item].count = @ - 1] /\ slots' = slots
  <2> DEFINE g(n) == [q \in Holding(n) |-> items'[slots'[q]].count]
  <2>1. \A n : Holding(n)' = Holding(n)
    BY <1>1, <1>4 DEF Holding, SquaresOf
  <2>2. \A n : Carried(n)' = SumFunction(g(n))
    BY <2>1 DEF Carried
  <2>3. \A n : \A q \in Holding(n) : slots[q] \in DOMAIN items /\ slots[q] # 0 /\ q \in DOMAIN slots
    BY CarriedIsSum DEF Holding, SquaresOf
  <2>4. \A n : \A q \in Holding(n) : q # sq => g(n)[q] = f(n)[q]
    BY <1>2, <1>4, <2>3
  <2>5. m = name => f(m)[sq] = items[item].count /\ g(m)[sq] = items[item].count - 1
    BY <1>1, <1>4
  <2>6. m # name => sq \notin Holding(m)
    BY <1>1 DEF Holding
  <2>7. CASE m = name
    <3>1. g(m) \in [Holding(m) -> Nat]
      <4>1. \A q \in Holding(m) : g(m)[q] \in Nat
        <5>1. \A q \in Holding(m) : f(m)[q] \in Nat
          BY <1>3
        <5> HIDE DEF f, g
        <5> QED BY <1>1, <1>4, <2>4, <2>5, <2>7, <5>1
      <4> QED BY <4>1
    <3>2. \A q \in Holding(m) \ {sq} : g(m)[q] = f(m)[q]
      BY <2>4
    <3>3. /\ IsFiniteSet(Holding(m)) /\ f(m) \in [Holding(m) -> Nat] /\ sq \in Holding(m)
          /\ Carried(m) = SumFunction(f(m)) /\ Carried(m)' = SumFunction(g(m))
          /\ f(m)[sq] = items[item].count /\ g(m)[sq] = items[item].count - 1
      BY <1>3, <2>2, <2>5, <2>7
    <3> HIDE DEF f, g, item
    <3>4. SumFunction(g(m)) + f(m)[sq] = SumFunction(f(m)) + g(m)[sq]
      BY <3>1, <3>2, <3>3, SumChanges
    <3>5. SumFunction(g(m)) \in Nat /\ SumFunction(f(m)) \in Nat
      BY <3>1, <3>3, SumIsNat
    <3> QED BY <1>1, <2>7, <3>3, <3>4, <3>5
  <2>8. CASE m # name
    <3>1. g(m) = f(m)
      BY <2>4, <2>6, <2>8
    <3> QED BY <1>3, <2>2, <2>8, <3>1, CarriedIsSum
  <2> QED BY <2>7, <2>8
<1>5. CASE /\ items[item].count <= 1 /\ items' = Without(item)
           /\ slots' = [slots EXCEPT ![sq] = 0]
  <2> DEFINE R == Holding(m) \ {sq}
             r == [q \in R |-> f(m)[q]]
  <2>1. Holding(m)' = R
    <3>1. DOMAIN slots' = DOMAIN slots /\ slots'[sq] = 0
          /\ \A q \in DOMAIN slots \ {sq} : slots'[q] = slots[q]
      BY <1>1, <1>5
    <3>2. \A x \in DOMAIN items \ {item} : items'[x] = items[x]
      BY <1>5 DEF Without
    <3>3. \A q \in DOMAIN slots \ {sq} : slots[q] # 0 => slots[q] \in DOMAIN items \ {item}
      BY <1>2 DEF IInv, NoDanglingSlot
    <3>4. SquaresOf(Player)' = SquaresOf(Player) /\ SquaresOf(Player) \subseteq DOMAIN slots
      BY <3>1 DEF SquaresOf
    <3>5. ASSUME NEW q
          PROVE  q \in Holding(m)' <=> q \in R
      BY <3>1, <3>2, <3>3, <3>4 DEF Holding
    <3> HIDE DEF R
    <3> QED BY <3>5 DEF Holding
  <2>2. Carried(m)' = SumFunction(r)
    <3>1. \A q \in R : items'[slots'[q]].count = f(m)[q]
      <4>1. \A q \in R : q \in DOMAIN slots /\ q # sq /\ slots[q] # 0 /\ slots[q] \in DOMAIN items
        BY CarriedIsSum DEF Holding, SquaresOf
      <4> QED BY <1>1, <1>2, <1>5, <4>1 DEF Without
    <3>2. [q \in R |-> items'[slots'[q]].count] = r
      BY <3>1
    <3> HIDE DEF R, r
    <3> QED BY <2>1, <3>2 DEF Carried
  <2>3. CASE m = name
    <3>1. sq \in Holding(m) /\ f(m)[sq] <= 1 /\ f(m)[sq] \in Nat
      BY <1>1, <1>5, <2>3
    <3>2. IsFiniteSet(Holding(m)) /\ f(m) \in [Holding(m) -> Nat] /\ Carried(m) = SumFunction(f(m))
      BY <1>3
    <3>3. r \in [R -> Nat] /\ IsFiniteSet(R)
      BY <3>2, FS_RemoveElement
    <3> HIDE DEF f
    <3>4. SumFunction(f(m)) = f(m)[sq] + SumFunction(r)
      BY <3>1, <3>2, SumWithout
    <3> HIDE DEF r, R
    <3>5. SumFunction(r) \in Nat
      BY <3>3, SumIsNat
    <3> QED BY <2>2, <2>3, <3>1, <3>2, <3>4, <3>5
  <2>4. CASE m # name
    <3>1. R = Holding(m)
      BY <1>1, <2>4 DEF Holding
    <3>2. r = f(m)
      BY <3>1
    <3> QED BY <1>3, <2>2, <2>4, <3>2, CarriedIsSum
  <2> QED BY <2>3, <2>4
<1> QED BY <1>1, <1>4, <1>5 DEF Destroy

(* What is carried changes only with squares and stacks. *)
LEMMA CarriedStays ==
  ASSUME UNCHANGED <<slots, items>>, NEW m
  PROVE  Carried(m)' = Carried(m)
BY DEF Carried, Holding, SquaresOf

LEMMA PayOneCovered ==
  ASSUME CostsInv, PayOne
  PROVE  RepairsArePaid' /\ CostsAreApart'
<1> DEFINE list == pending.list
           due  == Head(list)
<1>1. /\ pending.what = "repair" /\ list # <<>> /\ pending \in Handlers /\ IInv
  BY DEF PayOne, CostsInv, BelongingsInv, BelongingsTyped
<1>2. list \in Seq(Stack)
  BY <1>1 DEF Handlers, Nothing
<1>3. /\ due = list[1] /\ due \in Stack /\ 1 \in DOMAIN list
      /\ Tail(list) \in Seq(Stack) /\ Len(Tail(list)) = Len(list) - 1 /\ Len(list) \in Nat
      /\ \A i \in 1 .. Len(list) - 1 : Tail(list)[i] = list[i + 1]
  BY <1>1, <1>2
<1>4. /\ \A i, j \in DOMAIN list : list[i].name = list[j].name => i = j
      /\ \A i \in DOMAIN list : list[i].count <= Carried(list[i].name)
  BY <1>1 DEF CostsInv, CostsAreApart, RepairsArePaid, Carried
<1>5. \A i \in DOMAIN list : list[i].count \in Nat
  <2>1. \A i \in DOMAIN list : list[i] \in Stack
    BY <1>2
  <2> HIDE DEF list
  <2> QED BY <2>1 DEF Stack
<1>6. CASE /\ due.count > 0 /\ Holding(due.name) # {}
           /\ Destroy(First(Holding(due.name)), 1)
           /\ pending' = Repairing(<<[due EXCEPT !.count = @ - 1]>> \o Tail(list))
  <2> DEFINE less == [due EXCEPT !.count = @ - 1]
             left == <<less>> \o Tail(list)
  <2>1. less \in Stack /\ less.name = due.name /\ less.count = due.count - 1
    BY <1>3, <1>6 DEF Stack
  <2>2. left = [i \in DOMAIN list |-> IF i = 1 THEN less ELSE list[i]]
    <3> HIDE DEF less
    <3> QED BY <1>2, <1>3, <2>1
  <2>3. pending'.what = "repair" /\ pending'.list = left
    BY <1>6 DEF Repairing
  <2>4. \A i \in DOMAIN left : left[i].name = list[i].name
    BY <1>3, <2>1, <2>2
  <2>5. \A i \in DOMAIN list : i # 1 => left[i] = list[i] /\ list[i].name # due.name
    BY <1>3, <1>4, <2>2
  <2>6. First(Holding(due.name)) \in Holding(due.name)
    BY <1>1, <1>6, HoldingIsHeld
  <2>7. \A i \in DOMAIN left : \A m : m = left[i].name => left[i].count <= Carried(m)'
    <3> SUFFICES ASSUME NEW i \in DOMAIN list, NEW m, m = left[i].name
                 PROVE  left[i].count <= Carried(m)'
      BY <2>2
    <3>1. /\ Carried(m)' \in Nat /\ Carried(m) \in Nat
          /\ m = due.name => Carried(m)' + 1 >= Carried(m)
          /\ m # due.name => Carried(m)' = Carried(m)
      BY <1>1, <1>6, <2>6, OneIsTaken, CarriedIsSum
    <3>2. list[i].count <= Carried(m) /\ list[i].name = m
      BY <1>4, <2>2, <2>4
    <3> HIDE DEF left, less
    <3>3. CASE i = 1
      <4>1. left[i].count = list[i].count - 1 /\ m = due.name
        BY <1>3, <2>1, <2>2, <3>2, <3>3
      <4> QED BY <1>5, <3>1, <3>2, <4>1
    <3>4. CASE i # 1
      BY <2>5, <3>1, <3>2, <3>4
    <3> QED BY <3>3, <3>4
  <2>8. CostsAreApart'
    <3> HIDE DEF left, list
    <3> QED BY <1>4, <2>2, <2>3, <2>4 DEF CostsAreApart, list
  <2>9. RepairsArePaid'
    <3> HIDE DEF left
    <3> QED BY <2>3, <2>7 DEF RepairsArePaid, Carried, Holding, SquaresOf
  <2> QED BY <2>8, <2>9
<1>7. CASE pending' = Repairing(Tail(list)) /\ UNCHANGED vars
  <2>1. /\ pending'.what = "repair" /\ pending'.list = Tail(list)
        /\ slots' = slots /\ items' = items
    BY <1>7 DEF Repairing, vars
  <2>2. \A i \in DOMAIN Tail(list) : i + 1 \in DOMAIN list /\ Tail(list)[i] = list[i + 1]
    BY <1>2, <1>3
  <2>3. CostsAreApart'
    <3>1. \A i, j \in DOMAIN Tail(list) : i \in Nat /\ j \in Nat
      BY <1>3
    <3> QED BY <1>4, <2>1, <2>2, <3>1 DEF CostsAreApart
  <2>4. RepairsArePaid'
    <3>1. \A i \in DOMAIN Tail(list) : Tail(list)[i].count <= Carried(Tail(list)[i].name)
      BY <1>4, <2>2
    <3> HIDE DEF list
    <3> QED BY <2>1, <3>1 DEF RepairsArePaid, Carried, Holding, SquaresOf
  <2> QED BY <2>3, <2>4
<1> QED BY <1>6, <1>7 DEF PayOne

LEMMA CostsStep == CostsInv /\ [BNext]_bvars => CostsInv'
<1> SUFFICES ASSUME CostsInv, [BNext]_bvars PROVE CostsInv'
  OBVIOUS
<1>1. BelongingsInv /\ BelongingsInv'
  BY BelongingsStep DEF CostsInv
<1>2. CASE UNCHANGED bvars
  BY <1>1, <1>2 DEF CostsInv, bvars, RepairsArePaid, CostsAreApart, Holding, SquaresOf
<1>3. CASE PayOne
  BY <1>1, <1>3, PayOneCovered DEF CostsInv
<1>4. CASE Repair
  <2>1. PICK cost \in RepairCosts[items[drop_slots[RepairSlot]].name] :
          /\ \A i \in DOMAIN cost : Carried(cost[i].name) >= cost[i].count
          /\ pending' = Repairing(cost)
    BY <1>4 DEF Repair
  <2>2. UNCHANGED <<slots, items>>
    BY <1>4 DEF Repair, vars
  <2>3. items[drop_slots[RepairSlot]].name \in Names
    <3>1. RepairSlot \in Parked
      BY <1>4 DEF Repair, Parked, DropSquares
    <3>2. drop_slots[RepairSlot] \in DOMAIN items
      BY <1>1, <3>1 DEF BelongingsInv, ParkedIsApart, Loose
    <3> QED BY <1>1, <3>2 DEF BelongingsInv, IInv, TypeOK, Stack
  <2>4. cost \in Seq(Stack) /\ \A i, j \in DOMAIN cost : cost[i].name = cost[j].name => i = j
    BY <2>3, BelongingsAssumption, EachComponentOnce
  <2>5. pending'.what = "repair" /\ pending'.list = cost
    BY <2>1 DEF Repairing
  <2>6. CostsAreApart'
    BY <2>4, <2>5 DEF CostsAreApart
  <2>7. \A i \in DOMAIN cost : cost[i].count <= Carried(cost[i].name)
    <3>1. \A i \in DOMAIN cost : cost[i].count \in Nat /\ Carried(cost[i].name) \in Nat
      <4>1. \A i \in DOMAIN cost : cost[i] \in Stack
        BY <2>4
      <4> QED BY <1>1, <4>1, CarriedIsSum DEF BelongingsInv, Stack
    <3> QED BY <2>1, <3>1
  <2>8. RepairsArePaid'
    BY <2>2, <2>5, <2>7 DEF RepairsArePaid, Carried, Holding, SquaresOf
  <2> QED BY <1>1, <2>6, <2>8 DEF CostsInv
<1>5. CASE BNext /\ ~Repair /\ ~PayOne
  <2>1. pending'.what # "repair"
    <3>1. Nothing.what # "repair"
      BY DEF Nothing
    <3>2. CASE pending' = pending /\ Ready
      BY <3>1, <3>2 DEF Ready
    <3>3. CASE Arrive
      BY <1>1, <3>1, <3>3 DEF Arrive, BelongingsInv, BelongingsTyped
    <3>4. CASE \E list : pending' = Returning(list)
      BY <3>4 DEF Returning
    <3>5. CASE \E d : pending' = PickingUp(d)
      BY <3>5 DEF PickingUp
    <3>6. CASE pending' = Nothing
      BY <3>1, <3>6
    <3> QED
      BY <1>5, <3>2, <3>3, <3>4, <3>5, <3>6
         DEF BNext, MoveToDropSlot, TakeFromDropSlot, FinishRepair, Dismantle, ReturnMaterial,
             FinishDismantle, DropPickup, OtherDrops, CollectPickup, OtherCollects, FinishPickup,
             GetStack, UseSquares, belongings
  <2> QED BY <1>1, <2>1 DEF CostsInv, RepairsArePaid, CostsAreApart
<1> QED BY <1>2, <1>3, <1>4, <1>5

(* A repair that was accepted is paid in full (perform_drop_slot_action),  *)
(* whatever it costs and however the components are spread over squares.   *)
THEOREM RepairsPaid == BSpec => []RepairsArePaid
<1>1. BInit => CostsInv
  <2> SUFFICES ASSUME BInit PROVE CostsInv
    OBVIOUS
  <2>1. pending.what # "repair"
    BY DEF BInit, Nothing
  <2> QED BY <2>1, InitHasBelongings DEF CostsInv, RepairsArePaid, CostsAreApart
<1>2. CostsInv => RepairsArePaid
  BY DEF CostsInv
<1> QED BY <1>1, <1>2, CostsStep, PTL DEF BSpec

-----------------------------------------------------------------------------
(* Nothing is doubled.  Each stack is in one place at most, so what can    *)
(* come into somebody's hands is a sum over the stacks, and a step that    *)
(* takes a stack from one place to another is seen to change nothing.      *)

OnlyThePlayers == \A sq \in DOMAIN slots : sq[1] = Player

ReachInv == BelongingsInv /\ OnlyThePlayers

DropOf(e) == CHOOSE d \in floor : d.stack = e

InBag(e)    == \E sq \in DOMAIN slots : slots[sq] = e
OnSquare(e) == \E k \in DropSquares : drop_slots[k] = e
InHand(e)   == pending.what = "pickup" /\ pending.drop.stack = e
Held(e)     == InBag(e) \/ OnSquare(e) \/ InHand(e)

InReach(e, n) ==
  IF OnFloor(e) THEN HowMany(DropOf(e), n)
  ELSE IF Held(e) THEN CountOf(e, n) ELSE 0

LEMMA DropOfIs ==
  ASSUME BelongingsInv, NEW d \in floor
  PROVE  OnFloor(d.stack) /\ DropOf(d.stack) = d
BY DEF BelongingsInv, FloorIsApart, OnFloor, DropOf

LEMMA OnFloorHasDrop ==
  ASSUME NEW e, OnFloor(e)
  PROVE  DropOf(e) \in floor /\ DropOf(e).stack = e
BY DEF OnFloor, DropOf

(* One place at most. *)
LEMMA PlacesAreApart ==
  ASSUME BelongingsInv
  PROVE  /\ \A e : OnFloor(e) => ~Held(e) /\ e # 0
         /\ \A e : InBag(e) /\ e # 0 => ~OnSquare(e) /\ ~InHand(e)
         /\ \A e : OnSquare(e) /\ e # 0 => ~InHand(e)
         /\ \A e : Held(e) /\ e # 0 => e \in DOMAIN items
         /\ 0 \notin DOMAIN items
<1>1. /\ IInv /\ FloorIsApart /\ FloorIsAsAnnounced /\ ParkedIsApart /\ InHandIsApart
      /\ drop_slots \in [DropSquares -> Nat]
  BY DEF BelongingsInv, BelongingsTyped
<1>2. 0 \notin DOMAIN items /\ \A e : InBag(e) /\ e # 0 => e \in DOMAIN items /\ ~Loose(e)
  BY <1>1 DEF IInv, TypeOK, NoDanglingSlot, InBag, Loose
<1>3. \A e : OnSquare(e) /\ e # 0 => Loose(e) /\ ~OnFloor(e)
  BY <1>1 DEF ParkedIsApart, Parked, OnSquare
<1>4. \A e : InHand(e) => Loose(e) /\ ~OnFloor(e) /\ e # 0
  BY <1>1 DEF InHandIsApart, InHand
<1>5. \A e : OnFloor(e) => e # 0 /\ ~InBag(e)
  <2> SUFFICES ASSUME NEW e, OnFloor(e) PROVE e # 0 /\ ~InBag(e)
    OBVIOUS
  <2>1. e # 0 /\ (e \in DOMAIN items => Loose(e))
    BY <1>1 DEF OnFloor, FloorIsApart, FloorIsAsAnnounced
  <2> QED BY <1>2, <2>1
<1>6. \A e : OnSquare(e) /\ e # 0 => ~InHand(e)
  BY <1>1 DEF InHandIsApart, InHand, OnSquare, Parked
<1> QED BY <1>2, <1>3, <1>4, <1>5, <1>6 DEF Held, Loose

LEMMA InReachIsNat ==
  ASSUME BelongingsInv, NEW e, NEW n
  PROVE  /\ CountOf(e, n) \in Nat /\ InReach(e, n) \in Nat
         /\ Held(e) => InReach(e, n) = CountOf(e, n)
         /\ InReach(0, n) = 0 /\ CountOf(0, n) = 0
<1>1. CountOf(e, n) \in Nat
  BY DEF BelongingsInv, IInv, TypeOK, CountOf, HowMany, Stack
<1>2. OnFloor(e) => HowMany(DropOf(e), n) \in Nat
  <2>1. OnFloor(e) => DropOf(e) \in Drop
    BY OnFloorHasDrop DEF BelongingsInv, BelongingsTyped
  <2> QED BY <2>1 DEF HowMany, Drop
<1>3. Held(e) => ~OnFloor(e)
  BY PlacesAreApart
<1>4. ~OnFloor(0) /\ 0 \notin DOMAIN items
  BY PlacesAreApart
<1> QED BY <1>1, <1>2, <1>3, <1>4 DEF InReach, CountOf

LEMMA IdsAreBelow ==
  ASSUME BelongingsInv, NEW top \in Nat, next_entity_id <= top
  PROVE  /\ DOMAIN items \in SUBSET (0 .. top)
         /\ \A d \in floor : d.stack \in 0 .. top
         /\ 0 \in 0 .. top
<1>1. next_entity_id \in Nat /\ DOMAIN items \subseteq Nat
      /\ \A e \in DOMAIN items : e < next_entity_id
  BY DEF BelongingsInv, IInv, TypeOK, AllocatorAhead
<1>2. \A d \in floor : d.stack \in Nat /\ d.stack < next_entity_id
  BY DEF BelongingsInv, BelongingsTyped, FloorIsApart, Drop
<1> QED BY <1>1, <1>2

(* The same ids, from place to place. *)
LEMMA BagSum ==
  ASSUME ReachInv, NEW n, NEW top \in Nat, next_entity_id <= top
  PROVE  SumFunction([sq \in SquaresOf(Player) |-> CountOf(slots[sq], n)])
           = SumFunction([e \in 0 .. top |-> IF InBag(e) THEN CountOf(e, n) ELSE 0])
<1> DEFINE S == SquaresOf(Player)
           T == 0 .. top
           f == [sq \in S |-> CountOf(slots[sq], n)]
           g == [e \in T |-> IF InBag(e) THEN CountOf(e, n) ELSE 0]
           h == [sq \in S |-> slots[sq]]
<1>1. BelongingsInv /\ OnlyThePlayers /\ IInv
  BY DEF ReachInv, BelongingsInv
<1>2. \A e : CountOf(e, n) \in Nat /\ (CountOf(e, n) # 0 => e \in DOMAIN items /\ e # 0)
  BY <1>1, InReachIsNat DEF CountOf
<1>3. IsFiniteSet(S) /\ IsFiniteSet(T)
  <2>1. IsFiniteSet(DOMAIN slots) /\ S \in SUBSET DOMAIN slots
    BY <1>1 DEF IInv, TypeOK, SquaresOf
  <2> QED BY <2>1, FS_Subset, FS_Interval
<1>4. f \in [S -> Nat] /\ g \in [T -> Nat]
  BY <1>2
<1>5. \A sq \in S : f[sq] # 0 => h[sq] \in T /\ g[h[sq]] = f[sq]
  BY <1>1, <1>2, IdsAreBelow DEF InBag, SquaresOf
<1>6. \A x, y \in S : f[x] # 0 /\ f[y] # 0 /\ h[x] = h[y] => x = y
  BY <1>1, <1>2 DEF SquaresOf, IInv, NoSharedStack
<1>7. \A e \in T : g[e] # 0 => \E sq \in S : h[sq] = e /\ f[sq] # 0
  BY <1>1 DEF InBag, OnlyThePlayers, SquaresOf
<1> HIDE DEF S, T, f, g, h
<1>8. SumFunction(g) = SumFunction(f)
  BY ONLY <1>3, <1>4, <1>5, <1>6, <1>7, SumRenamed
<1> QED BY <1>8 DEF S, T, f, g

LEMMA SquareSum ==
  ASSUME ReachInv, NEW n, NEW top \in Nat, next_entity_id <= top
  PROVE  SumFunction([k \in DropSquares |-> CountOf(drop_slots[k], n)])
           = SumFunction([e \in 0 .. top |-> IF OnSquare(e) THEN CountOf(e, n) ELSE 0])
<1> DEFINE S == DropSquares
           T == 0 .. top
           f == [k \in S |-> CountOf(drop_slots[k], n)]
           g == [e \in T |-> IF OnSquare(e) THEN CountOf(e, n) ELSE 0]
           h == [k \in S |-> drop_slots[k]]
<1>1. BelongingsInv /\ ParkedIsApart
  BY DEF ReachInv, BelongingsInv
<1>2. \A e : CountOf(e, n) \in Nat /\ (CountOf(e, n) # 0 => e \in DOMAIN items /\ e # 0)
  BY <1>1, InReachIsNat DEF CountOf
<1>3. IsFiniteSet(S) /\ IsFiniteSet(T)
  <2>1. S = {RepairSlot} \cup {DismantleSlot}
    BY DEF DropSquares
  <2>2. IsFiniteSet(S)
    BY <2>1, FS_Singleton, FS_AddElement
  <2> QED BY <2>2, FS_Interval
<1>4. f \in [S -> Nat] /\ g \in [T -> Nat]
  BY <1>2
<1>5. \A k \in S : f[k] # 0 => h[k] \in T /\ g[h[k]] = f[k]
  BY <1>1, <1>2, IdsAreBelow DEF OnSquare
<1>6. \A x, y \in S : f[x] # 0 /\ f[y] # 0 /\ h[x] = h[y] => x = y
  BY <1>1, <1>2 DEF Parked, ParkedIsApart
<1>7. \A e \in T : g[e] # 0 => \E k \in S : h[k] = e /\ f[k] # 0
  BY DEF OnSquare
<1> HIDE DEF S, T, f, g, h
<1>8. SumFunction(g) = SumFunction(f)
  BY ONLY <1>3, <1>4, <1>5, <1>6, <1>7, SumRenamed
<1> QED BY <1>8 DEF S, T, f, g

LEMMA FloorSum ==
  ASSUME ReachInv, NEW n, NEW top \in Nat, next_entity_id <= top
  PROVE  SumFunction([d \in floor |-> HowMany(d, n)])
           = SumFunction([e \in 0 .. top |-> IF OnFloor(e) THEN HowMany(DropOf(e), n) ELSE 0])
<1> DEFINE S == floor
           T == 0 .. top
           f == [d \in S |-> HowMany(d, n)]
           g == [e \in T |-> IF OnFloor(e) THEN HowMany(DropOf(e), n) ELSE 0]
           h == [d \in S |-> d.stack]
<1>1. BelongingsInv /\ FloorIsApart /\ floor \subseteq Drop
  BY DEF ReachInv, BelongingsInv, BelongingsTyped
<1>2. \A d \in floor : HowMany(d, n) \in Nat
  BY <1>1 DEF HowMany, Drop
<1>3. h \in Injection(S, T) /\ IsFiniteSet(T)
  <2>1. \A d \in S : d.stack \in T
    BY <1>1, IdsAreBelow
  <2>2. \A d, other \in S : d.stack = other.stack => d = other
    BY <1>1 DEF FloorIsApart
  <2>3. h \in [S -> T] /\ \A d, other \in S : h[d] = h[other] => d = other
    BY <2>1, <2>2
  <2>4. IsFiniteSet(T)
    BY FS_Interval
  <2> HIDE DEF S, T, h
  <2> QED BY <2>3, <2>4 DEF Injection, IsInjective
<1>4. IsFiniteSet(S)
  <2> HIDE DEF S, T, h
  <2> QED BY <1>3, FS_Injection
<1>5. f \in [S -> Nat] /\ g \in [T -> Nat]
  BY <1>2, OnFloorHasDrop
<1>6. \A d \in S : f[d] # 0 => h[d] \in T /\ g[h[d]] = f[d]
  BY <1>1, DropOfIs, IdsAreBelow
<1>7. \A x, y \in S : f[x] # 0 /\ f[y] # 0 /\ h[x] = h[y] => x = y
  BY <1>1 DEF FloorIsApart
<1>8. \A e \in T : g[e] # 0 => \E d \in S : h[d] = e /\ f[d] # 0
  BY OnFloorHasDrop
<1> HIDE DEF S, T, f, g, h
<1>9. SumFunction(g) = SumFunction(f)
  BY ONLY <1>3, <1>4, <1>5, <1>6, <1>7, <1>8, SumRenamed
<1> QED BY <1>9 DEF S, T, f, g

LEMMA HandSum ==
  ASSUME ReachInv, NEW n, NEW top \in Nat, next_entity_id <= top
  PROVE  (IF pending.what = "pickup" THEN CountOf(pending.drop.stack, n) ELSE 0)
           = SumFunction([e \in 0 .. top |-> IF InHand(e) THEN CountOf(e, n) ELSE 0])
<1> DEFINE T == 0 .. top
           g == [e \in T |-> IF InHand(e) THEN CountOf(e, n) ELSE 0]
<1>1. BelongingsInv /\ InHandIsApart
  BY DEF ReachInv, BelongingsInv
<1>2. \A e : CountOf(e, n) \in Nat
  BY <1>1, InReachIsNat
<1>3. IsFiniteSet(T) /\ g \in [T -> Nat]
  BY <1>2, FS_Interval
<1>4. CASE pending.what = "pickup"
  <2>1. PICK e : e = pending.drop.stack
    OBVIOUS
  <2>2. e \in DOMAIN items
    BY <1>1, <1>4, <2>1 DEF InHandIsApart, Loose
  <2>3. e \in T
    BY <1>1, <2>2, IdsAreBelow
  <2>4. g[e] = CountOf(e, n) /\ \A x \in T \ {e} : g[x] = 0
    BY <1>4, <2>1, <2>3 DEF InHand
  <2> HIDE DEF g, T
  <2>5. SumFunction(g) = g[e]
    BY <1>3, <2>3, <2>4, SumOfOne
  <2> QED BY <1>4, <2>1, <2>4, <2>5 DEF g, T
<1>5. CASE pending.what # "pickup"
  <2>1. \A x \in T : g[x] = 0
    BY <1>5 DEF InHand
  <2> HIDE DEF g, T
  <2>2. SumFunction(g) = 0
    BY <1>3, <2>1, SumOfNothing
  <2> QED BY <1>5, <2>2 DEF g, T
<1> QED BY <1>4, <1>5

ReachIsSum ==
  \A n : \A top \in Nat :
    next_entity_id <= top =>
      /\ [e \in 0 .. top |-> InReach(e, n)] \in [0 .. top -> Nat]
      /\ Reach(n) = SumFunction([e \in 0 .. top |-> InReach(e, n)])

LEMMA ReachAddsUp == ReachInv => ReachIsSum
<1> SUFFICES ASSUME ReachInv, NEW n, NEW top \in Nat, next_entity_id <= top
             PROVE  /\ [e \in 0 .. top |-> InReach(e, n)] \in [0 .. top -> Nat]
                    /\ Reach(n) = SumFunction([e \in 0 .. top |-> InReach(e, n)])
  BY DEF ReachIsSum
<1> DEFINE T == 0 .. top
           a == [e \in T |-> IF InBag(e) THEN CountOf(e, n) ELSE 0]
           b == [e \in T |-> IF OnSquare(e) THEN CountOf(e, n) ELSE 0]
           c == [e \in T |-> IF OnFloor(e) THEN HowMany(DropOf(e), n) ELSE 0]
           p == [e \in T |-> IF InHand(e) THEN CountOf(e, n) ELSE 0]
           ab == [e \in T |-> a[e] + b[e]]
           cp == [e \in T |-> c[e] + p[e]]
           all == [e \in T |-> InReach(e, n)]
<1>1. BelongingsInv /\ IsFiniteSet(T)
  BY FS_Interval DEF ReachInv
<1>2. \A e : /\ CountOf(e, n) \in Nat /\ InReach(e, n) \in Nat /\ CountOf(0, n) = 0
             /\ OnFloor(e) => HowMany(DropOf(e), n) \in Nat
  BY <1>1, InReachIsNat DEF InReach
<1>3. /\ a \in [T -> Nat] /\ b \in [T -> Nat] /\ c \in [T -> Nat] /\ p \in [T -> Nat]
      /\ all \in [T -> Nat]
  BY <1>2
<1>4. \A e \in T : all[e] = ab[e] + cp[e]
  <2> SUFFICES ASSUME NEW e \in T PROVE all[e] = ab[e] + cp[e]
    OBVIOUS
  <2>1. /\ OnFloor(e) => ~InBag(e) /\ ~OnSquare(e) /\ ~InHand(e)
        /\ InBag(e) /\ e # 0 => ~OnSquare(e) /\ ~InHand(e)
        /\ OnSquare(e) /\ e # 0 => ~InHand(e)
    BY <1>1, PlacesAreApart DEF Held
  <2>2. CASE e = 0
    <3>1. a[e] = 0 /\ b[e] = 0 /\ c[e] = 0 /\ p[e] = 0 /\ all[e] = 0
      BY <1>1, <1>2, <2>2, PlacesAreApart, InReachIsNat
    <3> QED BY <3>1
  <2>3. CASE e # 0
    BY <1>2, <2>1, <2>3 DEF InReach, Held
  <2> QED BY <2>2, <2>3
<1>5. /\ ab \in [T -> Nat] /\ (\A e \in T : ab[e] = a[e] + b[e])
      /\ cp \in [T -> Nat] /\ (\A e \in T : cp[e] = c[e] + p[e])
  <2>1. \A e \in T : a[e] \in Nat /\ b[e] \in Nat /\ c[e] \in Nat /\ p[e] \in Nat
    BY <1>3
  <2> QED BY <2>1
<1>6. Reach(n) = ((SumFunction(a) + SumFunction(b)) + SumFunction(c)) + SumFunction(p)
  <2> DEFINE A == SumFunction([sq \in SquaresOf(Player) |-> CountOf(slots[sq], n)])
             B == SumFunction([k \in DropSquares |-> CountOf(drop_slots[k], n)])
             C == SumFunction([d \in floor |-> HowMany(d, n)])
             P == IF pending.what = "pickup" THEN CountOf(pending.drop.stack, n) ELSE 0
  <2>1. A = SumFunction(a)
    BY BagSum
  <2>2. B = SumFunction(b)
    BY SquareSum
  <2>3. C = SumFunction(c)
    BY FloorSum
  <2>4. P = SumFunction(p)
    BY HandSum
  <2>5. Reach(n) = ((A + B) + C) + P
    BY Zenon DEF Reach
  <2> HIDE DEF A, B, C, P, a, b, c, p
  <2> QED BY <2>1, <2>2, <2>3, <2>4, <2>5
<1> HIDE DEF T, a, b, c, p, ab, cp, all
<1>7. SumFunction(ab) = SumFunction(a) + SumFunction(b)
  BY <1>1, <1>3, <1>5, SumAdds
<1>8. SumFunction(cp) = SumFunction(c) + SumFunction(p)
  BY <1>1, <1>3, <1>5, SumAdds
<1>9. SumFunction(all) = SumFunction(ab) + SumFunction(cp)
  <2>1. /\ IsFiniteSet(T)
        /\ all \in [T -> Nat] /\ ab \in [T -> Nat] /\ cp \in [T -> Nat]
    BY <1>1, <1>3, <1>5
  <2> QED BY ONLY <1>4, <2>1, SumAdds
<1>10. /\ SumFunction(a) \in Nat /\ SumFunction(b) \in Nat
       /\ SumFunction(c) \in Nat /\ SumFunction(p) \in Nat
  BY <1>1, <1>3, SumIsNat
<1>11. Reach(n) = SumFunction(all)
  BY <1>6, <1>7, <1>8, <1>9, <1>10
<1> QED BY <1>3, <1>11 DEF T, all

InReachTyped ==
  \A e, n : /\ CountOf(e, n) \in Nat /\ InReach(e, n) \in Nat
            /\ ~OnFloor(e) => InReach(e, n) <= CountOf(e, n)
            /\ InReach(0, n) = 0

LEMMA InReachIsTyped == BelongingsInv => InReachTyped
<1> SUFFICES ASSUME BelongingsInv, NEW e, NEW n
             PROVE  /\ CountOf(e, n) \in Nat /\ InReach(e, n) \in Nat
                    /\ ~OnFloor(e) => InReach(e, n) <= CountOf(e, n)
                    /\ InReach(0, n) = 0
  BY DEF InReachTyped
<1>1. CountOf(e, n) \in Nat /\ InReach(e, n) \in Nat /\ InReach(0, n) = 0
  BY InReachIsNat
<1> QED BY <1>1 DEF InReach

(* Two sums over the same ids, before a step and after it. *)
LEMMA ReachBothWays ==
  ASSUME ReachInv, ReachInv', NEW n, NEW x \in Nat, NEW y \in Nat, x # y,
         InReach(x, n)' + InReach(y, n)' <= InReach(x, n) + InReach(y, n),
         \A z : z \notin {x, y} => InReach(z, n)' <= InReach(z, n)
  PROVE  Reach(n)' <= Reach(n)
<1>1. next_entity_id \in Nat /\ next_entity_id' \in Nat
  BY DEF ReachInv, BelongingsInv, IInv, TypeOK
<1>2. \A a, b, c, d \in Nat :
        \E top \in Nat : a <= top /\ b <= top /\ c \in 0 .. top /\ d \in 0 .. top
  <2> TAKE a, b, c, d \in Nat
  <2> WITNESS a + b + c + d \in Nat
  <2> QED OBVIOUS
<1>3. PICK top \in Nat : /\ next_entity_id <= top /\ next_entity_id' <= top
                         /\ x \in 0 .. top /\ y \in 0 .. top
  BY <1>1, <1>2, Zenon
<1>4. ReachIsSum /\ ReachIsSum'
  BY ReachAddsUp, PTL
<1> DEFINE T == 0 .. top
           f == [e \in T |-> InReach(e, n)]
           g == [e \in T |-> InReach(e, n)']
<1>5. f \in [T -> Nat] /\ Reach(n) = SumFunction(f)
  BY <1>3, <1>4 DEF ReachIsSum
<1>6. g \in [T -> Nat] /\ Reach(n)' = SumFunction(g)
  BY <1>3, <1>4 DEF ReachIsSum
<1>7. /\ g[x] + g[y] <= f[x] + f[y]
      /\ \A z \in T \ {x, y} : g[z] <= f[z]
      /\ x \in T /\ y \in T /\ IsFiniteSet(T)
  <2>1. x \in T /\ y \in T /\ IsFiniteSet(T)
    BY <1>3, FS_Interval
  <2>2. /\ f[x] = InReach(x, n) /\ f[y] = InReach(y, n)
        /\ g[x] = InReach(x, n)' /\ g[y] = InReach(y, n)'
    BY <2>1, Zenon
  <2>3. \A z \in T \ {x, y} : g[z] <= f[z]
    OBVIOUS
  <2> HIDE DEF T, f, g
  <2> QED BY <2>1, <2>2, <2>3
<1> HIDE DEF T, f, g
<1>8. SumFunction(g) <= SumFunction(f)
  BY <1>5, <1>6, <1>7, SumGivesNoMore
<1> QED BY <1>5, <1>6, <1>8

LEMMA ReachByPlace ==
  ASSUME ReachInv, ReachInv', NEW n, \A z : InReach(z, n)' <= InReach(z, n)
  PROVE  Reach(n)' <= Reach(n)
<1>1. /\ InReach(0, n)' <= InReach(0, n) /\ InReach(1, n)' <= InReach(1, n)
      /\ InReach(0, n) \in Nat /\ InReach(1, n) \in Nat
      /\ InReach(0, n)' \in Nat /\ InReach(1, n)' \in Nat
  <2>1. InReachTyped /\ InReachTyped'
    BY InReachIsTyped, PTL DEF ReachInv
  <2> QED BY <2>1 DEF InReachTyped
<1>2. InReach(0, n)' + InReach(1, n)' <= InReach(0, n) + InReach(1, n)
  BY <1>1
<1> QED BY <1>2, ReachBothWays

(* While the floor stays as it is, a step is judged by what is held. *)
LEMMA HeldNoMore ==
  ASSUME ReachInv, ReachInv', NEW n, floor' = floor,
         \A z : z # 0 /\ Held(z)' => Held(z) /\ CountOf(z, n)' <= CountOf(z, n)
  PROVE  Reach(n)' <= Reach(n)
<1>1. InReachTyped /\ InReachTyped' /\ BelongingsInv
  BY InReachIsTyped, PTL DEF ReachInv
<1>2. \A z : InReach(z, n)' <= InReach(z, n)
  <2> SUFFICES ASSUME NEW z PROVE InReach(z, n)' <= InReach(z, n)
    OBVIOUS
  <2>1. /\ InReach(z, n) \in Nat /\ InReach(z, n)' \in Nat /\ InReach(0, n)' = 0
        /\ Held(z) => InReach(z, n) = CountOf(z, n)
    BY <1>1, InReachIsNat DEF InReachTyped
  <2>2. OnFloor(z)' = OnFloor(z) /\ DropOf(z)' = DropOf(z)
    BY DEF OnFloor, DropOf
  <2>3. CASE OnFloor(z)
    BY <2>1, <2>2, <2>3 DEF InReach, HowMany
  <2>4. CASE ~OnFloor(z) /\ z # 0 /\ Held(z)'
    BY <2>1, <2>2, <2>4 DEF InReach
  <2>5. CASE ~OnFloor(z) /\ ~Held(z)'
    BY <2>1, <2>2, <2>5 DEF InReach
  <2>6. CASE z = 0
    BY <2>1, <2>6
  <2> QED BY <2>3, <2>4, <2>5, <2>6
<1> QED BY <1>2, ReachByPlace

LEMMA TwoNoMore ==
  ASSUME ReachInv, ReachInv', NEW n, NEW x \in Nat, NEW y \in Nat, x # y, floor' = floor,
         ~OnFloor(x), ~OnFloor(y),
         CountOf(x, n)' + CountOf(y, n)' <= InReach(x, n) + InReach(y, n),
         \A z : z \notin {0, x, y} /\ Held(z)' => Held(z) /\ CountOf(z, n)' <= CountOf(z, n)
  PROVE  Reach(n)' <= Reach(n)
<1>1. InReachTyped /\ InReachTyped' /\ BelongingsInv
  BY InReachIsTyped, PTL DEF ReachInv
<1>2. \A z : OnFloor(z)' = OnFloor(z) /\ DropOf(z)' = DropOf(z)
  BY DEF OnFloor, DropOf
<1>3. \A z : z \notin {x, y} => InReach(z, n)' <= InReach(z, n)
  <2> SUFFICES ASSUME NEW z, z \notin {x, y} PROVE InReach(z, n)' <= InReach(z, n)
    OBVIOUS
  <2>1. /\ InReach(z, n) \in Nat /\ InReach(z, n)' \in Nat /\ InReach(0, n)' = 0
        /\ Held(z) => InReach(z, n) = CountOf(z, n)
    BY <1>1, InReachIsNat DEF InReachTyped
  <2>3. CASE OnFloor(z)
    BY <1>2, <2>1, <2>3 DEF InReach, HowMany
  <2>4. CASE ~OnFloor(z) /\ z # 0 /\ Held(z)'
    BY <1>2, <2>1, <2>4 DEF InReach
  <2>5. CASE ~OnFloor(z) /\ ~Held(z)'
    BY <1>2, <2>1, <2>5 DEF InReach
  <2>6. CASE z = 0
    BY <2>1, <2>6
  <2> QED BY <2>3, <2>4, <2>5, <2>6
<1>4. InReach(x, n)' + InReach(y, n)' <= InReach(x, n) + InReach(y, n)
  <2>1. /\ InReach(x, n)' <= CountOf(x, n)' /\ InReach(y, n)' <= CountOf(y, n)'
        /\ InReach(x, n) \in Nat /\ InReach(y, n) \in Nat
        /\ InReach(x, n)' \in Nat /\ InReach(y, n)' \in Nat
        /\ CountOf(x, n)' \in Nat /\ CountOf(y, n)' \in Nat
    BY <1>1, <1>2 DEF InReachTyped
  <2> QED BY <2>1
<1> QED BY <1>3, <1>4, ReachBothWays

(* Into the rucksack, from a drop square or from the hand: what did not    *)
(* fit is in nobody's reach any more, and nothing is in two places.        *)
LEMMA CollectReach ==
  ASSUME ReachInv, ReachInv', NEW n, NEW e, e # 0, Loose(e), Held(e), Collect(Player, e),
         floor' = floor,
         \A z : OnSquare(z)' \/ InHand(z)' => z = 0 \/ OnSquare(z) \/ InHand(z)
  PROVE  Reach(n)' <= Reach(n)
<1>1. BelongingsInv /\ IInv /\ e \in DOMAIN items /\ DOMAIN items \subseteq Nat \ {0}
  BY DEF ReachInv, BelongingsInv, IInv, TypeOK, Loose
<1>2. CASE CollectMerging(Player, e)
  <2>1. PICK sq \in Mergeable(Player, e) : slots[sq] # e /\ Shares(e, slots[sq])
    BY <1>1, <1>2, CollectShares
  <2>2. PICK y : y = slots[sq]
    OBVIOUS
  <2>3. /\ y # 0 /\ InBag(y) /\ y # e /\ Shares(e, y)
    BY <2>1, <2>2 DEF Mergeable, SquaresOf, InBag
  <2>4. Held(y) /\ y \in DOMAIN items
    BY <1>1, <2>3, PlacesAreApart DEF Held
  <2>5. /\ ~OnFloor(e) /\ ~OnFloor(y)
        /\ InReach(e, n) = CountOf(e, n) /\ InReach(y, n) = CountOf(y, n)
    BY <1>1, <2>4, PlacesAreApart, InReachIsNat
  <2>6. /\ CountOf(e, n)' + CountOf(y, n)' = CountOf(e, n) + CountOf(y, n)
        /\ \A z : z \notin {e, y} => CountOf(z, n)' = CountOf(z, n)
    BY <2>3 DEF Shares, Worth, CountOf
  <2>7. slots' = slots
    BY <1>2 DEF CollectMerging
  <2>8. \A z : z # 0 /\ Held(z)' => Held(z)
    BY <2>7 DEF Held, InBag
  <2>9. \A z : CountOf(z, n) \in Nat /\ CountOf(z, n)' \in Nat
    <3>1. InReachTyped /\ InReachTyped'
      BY InReachIsTyped, PTL DEF ReachInv
    <3> QED BY <3>1 DEF InReachTyped
  <2>10. CountOf(e, n)' + CountOf(y, n)' <= InReach(e, n) + InReach(y, n)
    BY <2>5, <2>6, <2>9
  <2>11. \A z : z \notin {0, e, y} /\ Held(z)' => Held(z) /\ CountOf(z, n)' <= CountOf(z, n)
    BY <2>6, <2>8, <2>9
  <2>12. e \in Nat /\ y \in Nat
    BY <1>1, <2>4
  <2> QED BY <2>3, <2>5, <2>10, <2>11, <2>12, TwoNoMore
<1>3. CASE CollectIntoSquare(Player, e)
  <2>1. /\ items' = items
        /\ \E sq : slots' = [slots EXCEPT ![sq] = e]
    BY <1>3 DEF CollectIntoSquare
  <2>2. \A z : InBag(z)' => InBag(z) \/ z = e
    BY <2>1 DEF InBag
  <2>3. \A z : z # 0 /\ Held(z)' => Held(z)
    BY <2>2 DEF Held
  <2>4. \A z : CountOf(z, n)' = CountOf(z, n) /\ CountOf(z, n) \in Nat
    BY <1>1, <2>1, InReachIsNat DEF CountOf
  <2>5. \A z : z # 0 /\ Held(z)' => Held(z) /\ CountOf(z, n)' <= CountOf(z, n)
    BY <2>3, <2>4
  <2> QED BY <2>5, HeldNoMore
<1> QED BY <1>2, <1>3 DEF Collect

(* Using up, from a square or off it. *)
LEMMA SpentReach ==
  ASSUME ReachInv, ReachInv', NEW n, floor' = floor,
         \A z : OnSquare(z)' \/ InHand(z)' => z = 0 \/ OnSquare(z) \/ InHand(z),
         \A z : InBag(z)' => z = 0 \/ InBag(z),
         DOMAIN items' \subseteq DOMAIN items,
         \A z \in DOMAIN items' : items'[z].name = items[z].name /\ items'[z].count <= items[z].count
  PROVE  Reach(n)' <= Reach(n)
<1>1. \A z : z # 0 /\ Held(z)' => Held(z)
  BY DEF Held
<1>2. \A z : CountOf(z, n) \in Nat
  BY InReachIsNat DEF ReachInv
<1>3. \A z : CountOf(z, n)' <= CountOf(z, n)
  BY <1>2 DEF CountOf, HowMany
<1> QED BY <1>1, <1>3, HeldNoMore

(* What a destroy or a consume leaves of the stacks. *)
LEMMA SpendingLessens ==
  ASSUME IInv, \/ \E sq, c : c \in Nat /\ Destroy(sq, c)
               \/ \E e, c : c \in Nat /\ ConsumeLoose(e, c)
  PROVE  /\ DOMAIN items' \subseteq DOMAIN items
         /\ \A z \in DOMAIN items' : items'[z].name = items[z].name
                                     /\ items'[z].count <= items[z].count
         /\ \A z : InBag(z)' => z = 0 \/ InBag(z)
<1>1. /\ items \in [DOMAIN items -> Stack]
      /\ \A z \in DOMAIN items : items[z].count \in Nat
      /\ slots \in [DOMAIN slots -> Nat]
  BY DEF IInv, TypeOK, Stack
<1>2. ASSUME NEW item, NEW c \in Nat, item \in DOMAIN items, slots' = slots,
             items' = [items EXCEPT ![item].count = @ - c]
      PROVE  /\ DOMAIN items' \subseteq DOMAIN items
             /\ \A z \in DOMAIN items' : items'[z].name = items[z].name
                                         /\ items'[z].count <= items[z].count
             /\ \A z : InBag(z)' => z = 0 \/ InBag(z)
  BY <1>1, <1>2 DEF InBag, Stack
<1>3. ASSUME NEW item, items' = Without(item), slots' = slots \/ \E sq : slots' = [slots EXCEPT ![sq] = 0]
      PROVE  /\ DOMAIN items' \subseteq DOMAIN items
             /\ \A z \in DOMAIN items' : items'[z].name = items[z].name
                                         /\ items'[z].count <= items[z].count
             /\ \A z : InBag(z)' => z = 0 \/ InBag(z)
  BY <1>1, <1>3 DEF InBag, Without
<1>4. ASSUME NEW sq, NEW c \in Nat, Destroy(sq, c)
      PROVE  /\ DOMAIN items' \subseteq DOMAIN items
             /\ \A z \in DOMAIN items' : items'[z].name = items[z].name
                                         /\ items'[z].count <= items[z].count
             /\ \A z : InBag(z)' => z = 0 \/ InBag(z)
  <2>1. PICK item : item = slots[sq]
    OBVIOUS
  <2>2. item \in DOMAIN items
    BY <1>4, <2>1 DEF Destroy, Occupied, IInv, NoDanglingSlot
  <2>3. \/ items' = [items EXCEPT ![item].count = @ - c] /\ slots' = slots
        \/ items' = Without(item) /\ slots' = [slots EXCEPT ![sq] = 0]
    BY <1>4, <2>1 DEF Destroy
  <2> QED BY <1>2, <1>3, <2>2, <2>3
<1>5. ASSUME NEW e, NEW c \in Nat, ConsumeLoose(e, c)
      PROVE  /\ DOMAIN items' \subseteq DOMAIN items
             /\ \A z \in DOMAIN items' : items'[z].name = items[z].name
                                         /\ items'[z].count <= items[z].count
             /\ \A z : InBag(z)' => z = 0 \/ InBag(z)
  <2>1. /\ e \in DOMAIN items /\ slots' = slots
        /\ items' = [items EXCEPT ![e].count = @ - c] \/ items' = Without(e)
    BY <1>5 DEF ConsumeLoose
  <2> QED BY <1>2, <1>3, <2>1
<1> QED BY <1>4, <1>5

(* A drag within the rucksack. *)
LEMMA TransferReach ==
  ASSUME ReachInv, ReachInv', NEW n, NEW s \in DOMAIN slots, NEW t \in DOMAIN slots,
         NEW c \in Nat, TransferToSlot(s, t, c), UNCHANGED <<floor, drop_slots, pending>>
  PROVE  Reach(n)' <= Reach(n)
<1>1. BelongingsInv /\ IInv /\ DOMAIN items \subseteq Nat \ {0} /\ next_entity_id \in Nat
      /\ slots \in [DOMAIN slots -> Nat]
  BY DEF ReachInv, BelongingsInv, IInv, TypeOK
<1>2. PICK x : x = slots[s]
  OBVIOUS
<1>3. x # 0 /\ InBag(x)
  BY <1>2 DEF TransferToSlot, InBag
<1>4. Held(x) /\ x \in DOMAIN items /\ ~OnFloor(x) /\ InReach(x, n) = CountOf(x, n)
  BY <1>1, <1>3, PlacesAreApart, InReachIsNat DEF Held
<1>5. \A z : OnSquare(z)' = OnSquare(z) /\ InHand(z)' = InHand(z)
  BY DEF OnSquare, InHand
<1>6. \A z : CountOf(z, n) \in Nat /\ CountOf(z, n)' \in Nat /\ InReach(z, n) \in Nat
  <2>1. InReachTyped /\ InReachTyped'
    BY InReachIsTyped, PTL DEF ReachInv
  <2> QED BY <2>1 DEF InReachTyped
<1>7. CASE CanSplit(s, t, c) /\ TrySplit(s, t, c)
  <2>1. PICK y : y = next_entity_id
    OBVIOUS
  <2>2. x # y /\ Shares(x, y)
    BY <1>1, <1>2, <1>3, <1>7, <2>1, SplitShares
  <2>3. y \notin DOMAIN items /\ ~OnFloor(y)
    <3>1. \A d \in floor : d.stack < next_entity_id /\ d.stack \in Nat
      BY <1>1 DEF BelongingsInv, BelongingsTyped, FloorIsApart, Drop
    <3>2. ~OnFloor(y)
      BY <1>1, <2>1, <3>1 DEF OnFloor
    <3> QED BY <1>1, <2>1, <3>2, MintIsNew
  <2>4. /\ CountOf(x, n)' + CountOf(y, n)' = CountOf(x, n) + CountOf(y, n)
        /\ \A z : z \notin {x, y} => CountOf(z, n)' = CountOf(z, n)
        /\ CountOf(y, n) = 0
    BY <2>2, <2>3 DEF Shares, Worth, CountOf
  <2>5. slots' = [slots EXCEPT ![t] = y]
    BY <1>7, <2>1 DEF TrySplit
  <2>6. \A z : z # y /\ InBag(z)' => InBag(z)
    BY <2>5 DEF InBag
  <2>7. \A z : z \notin {0, x, y} /\ Held(z)' => Held(z) /\ CountOf(z, n)' <= CountOf(z, n)
    BY <1>5, <1>6, <2>4, <2>6 DEF Held
  <2>8. CountOf(x, n)' + CountOf(y, n)' <= InReach(x, n) + InReach(y, n)
    BY <1>4, <1>6, <2>4
  <2>9. x \in Nat /\ y \in Nat
    BY <1>1, <1>4, <2>1
  <2> QED BY <1>4, <2>2, <2>3, <2>7, <2>8, <2>9, TwoNoMore
<1>8. CASE CanMerge(s, t, c) /\ TryMerge(s, t, c, <<>>)
  <2>1. PICK y : y = slots[t]
    OBVIOUS
  <2>2. x # y /\ Shares(x, y)
    BY <1>1, <1>2, <1>8, <2>1, MergeShares
  <2>3. y # 0 /\ InBag(y)
    BY <1>8, <2>1 DEF CanMerge, Occupied, InBag
  <2>4. Held(y) /\ y \in DOMAIN items /\ ~OnFloor(y) /\ InReach(y, n) = CountOf(y, n)
    BY <1>1, <2>3, PlacesAreApart, InReachIsNat DEF Held
  <2>5. /\ CountOf(x, n)' + CountOf(y, n)' = CountOf(x, n) + CountOf(y, n)
        /\ \A z : z \notin {x, y} => CountOf(z, n)' = CountOf(z, n)
    BY <2>2 DEF Shares, Worth, CountOf
  <2>6. slots' = slots \/ slots' = [slots EXCEPT ![s] = 0]
    BY <1>8 DEF TryMerge
  <2>7. \A z : z # 0 /\ InBag(z)' => InBag(z)
    BY <2>6 DEF InBag
  <2>8. \A z : z \notin {0, x, y} /\ Held(z)' => Held(z) /\ CountOf(z, n)' <= CountOf(z, n)
    BY <1>5, <1>6, <2>5, <2>7 DEF Held
  <2>9. CountOf(x, n)' + CountOf(y, n)' <= InReach(x, n) + InReach(y, n)
    BY <1>4, <1>6, <2>4, <2>5
  <2>10. x \in Nat /\ y \in Nat
    BY <1>1, <1>4, <2>4
  <2> QED BY <1>4, <2>2, <2>4, <2>8, <2>9, <2>10, TwoNoMore
<1>9. CASE Exchange(s, t, <<>>)
  <2>1. items' = items /\ slots' = [slots EXCEPT ![s] = slots[t], ![t] = slots[s]]
    BY <1>9 DEF Exchange
  <2>2. \A z : InBag(z)' => InBag(z)
    <3>1. DOMAIN slots' = DOMAIN slots
          /\ \A q \in DOMAIN slots : slots'[q] = slots[q] \/ slots'[q] = slots[t] \/ slots'[q] = slots[s]
      BY <1>1, <2>1
    <3> QED BY <3>1 DEF InBag
  <2>3. \A z : CountOf(z, n)' = CountOf(z, n)
    BY <2>1 DEF CountOf
  <2>4. \A z : z # 0 /\ Held(z)' => Held(z) /\ CountOf(z, n)' <= CountOf(z, n)
    BY <1>5, <1>6, <2>2, <2>3 DEF Held
  <2> QED BY <2>4, HeldNoMore
<1> QED BY <1>7, <1>8, <1>9 DEF TransferToSlot

-----------------------------------------------------------------------------
(* Handler by handler. *)

(* Nothing moves. *)
LEMMA StandingReach ==
  ASSUME ReachInv, ReachInv', NEW n, UNCHANGED <<slots, items, floor, drop_slots>>,
         pending'.what # "pickup" \/ pending' = pending
  PROVE  Reach(n)' <= Reach(n)
<1>1. \A z : z # 0 /\ Held(z)' => Held(z)
  BY DEF Held, InBag, OnSquare, InHand
<1>2. \A z : CountOf(z, n)' = CountOf(z, n) /\ CountOf(z, n) \in Nat
  BY InReachIsNat DEF CountOf, ReachInv
<1>3. \A z : z # 0 /\ Held(z)' => Held(z) /\ CountOf(z, n)' <= CountOf(z, n)
  BY <1>1, <1>2
<1> QED BY <1>3, HeldNoMore

(* What was parked or in the hand before a player is there is nothing.     *)
LEMMA ArriveReach ==
  ASSUME ReachInv, ReachInv', NEW n, Arrive
  PROVE  Reach(n)' <= Reach(n)
<1>1. /\ Parked = {} /\ pending = Nothing /\ Nothing.what # "pickup"
      /\ UNCHANGED <<drop_slots, floor, pending>>
      /\ slots' = [sq \in {Player} \X (0 .. SizeOf[Player] - 1) |-> 0]
  BY DEF Arrive, ReachInv, BelongingsInv, BelongingsTyped, Nothing
<1>2. \A z : z # 0 => ~InBag(z)'
  BY <1>1 DEF InBag
<1>3. \A z : z # 0 => ~Held(z)'
  BY <1>1, <1>2 DEF Held, OnSquare, InHand, Parked
<1> QED BY <1>1, <1>3, HeldNoMore

LEMMA MoveToDropSlotReach ==
  ASSUME ReachInv, ReachInv', NEW n, NEW k \in DropSquares, NEW index, MoveToDropSlot(k, index)
  PROVE  Reach(n)' <= Reach(n)
<1>1. PICK sq : sq = <<Player, index>>
  OBVIOUS
<1>2. PICK e : e = slots[sq]
  OBVIOUS
<1>3. /\ drop_slots' = [drop_slots EXCEPT ![k] = e] /\ slots' = [slots EXCEPT ![sq] = 0]
      /\ sq \in DOMAIN slots /\ UNCHANGED <<items, floor, pending>>
  BY <1>1, <1>2 DEF MoveToDropSlot, Detach, Occupied
<1>4. InBag(e) /\ \A z : z # 0 /\ InBag(z)' => InBag(z)
  BY <1>2, <1>3 DEF InBag
<1>5. \A z : OnSquare(z)' => OnSquare(z) \/ z = e
  BY <1>3 DEF OnSquare, ReachInv, BelongingsInv, BelongingsTyped
<1>6. \A z : z # 0 /\ Held(z)' => Held(z)
  BY <1>3, <1>4, <1>5 DEF Held, InHand
<1>7. \A z : CountOf(z, n)' = CountOf(z, n) /\ CountOf(z, n) \in Nat
  BY <1>3, InReachIsNat DEF CountOf, ReachInv
<1>8. \A z : z # 0 /\ Held(z)' => Held(z) /\ CountOf(z, n)' <= CountOf(z, n)
  BY <1>6, <1>7
<1> QED BY <1>3, <1>8, HeldNoMore

LEMMA TakeOffReach ==
  ASSUME ReachInv, ReachInv', NEW n, NEW k \in DropSquares, TakeOff(k), floor' = floor,
         pending'.what # "pickup"
  PROVE  Reach(n)' <= Reach(n)
<1>1. PICK e : e = drop_slots[k]
  OBVIOUS
<1>2. /\ e # 0 /\ Loose(e) /\ Collect(Player, e)
      /\ drop_slots' = [drop_slots EXCEPT ![k] = 0]
  BY <1>1, ParkedIsLoose DEF TakeOff, ReachInv
<1>3. Held(e)
  BY <1>1 DEF Held, OnSquare
<1>4. \A z : OnSquare(z)' \/ InHand(z)' => z = 0 \/ OnSquare(z) \/ InHand(z)
  BY <1>2 DEF OnSquare, InHand, ReachInv, BelongingsInv, BelongingsTyped
<1> QED BY <1>2, <1>3, <1>4, CollectReach

LEMMA FinishRepairReach ==
  ASSUME ReachInv, ReachInv', NEW n, FinishRepair
  PROVE  Reach(n)' <= Reach(n)
<1>1. pending' = Nothing /\ Nothing.what # "pickup" /\ floor' = floor
      /\ RepairSlot \in DropSquares
  BY DEF FinishRepair, Nothing, DropSquares
<1>2. CASE TakeOff(RepairSlot)
  BY <1>1, <1>2, TakeOffReach
<1>3. CASE UNCHANGED <<vars, drop_slots>>
  BY <1>1, <1>3, StandingReach DEF vars
<1> QED BY <1>2, <1>3 DEF FinishRepair

LEMMA SpendingReach ==
  ASSUME ReachInv, ReachInv', NEW n, floor' = floor, pending'.what # "pickup",
         \A k \in DropSquares : drop_slots'[k] = 0 \/ drop_slots'[k] = drop_slots[k],
         \/ \E sq, c : c \in Nat /\ Destroy(sq, c)
         \/ \E e, c : c \in Nat /\ ConsumeLoose(e, c)
  PROVE  Reach(n)' <= Reach(n)
<1>1. IInv
  BY DEF ReachInv, BelongingsInv
<1>2. \A z : OnSquare(z)' \/ InHand(z)' => z = 0 \/ OnSquare(z) \/ InHand(z)
  BY DEF OnSquare, InHand
<1> QED BY <1>1, <1>2, SpendingLessens, SpentReach

LEMMA PayOneReach ==
  ASSUME ReachInv, ReachInv', NEW n, PayOne
  PROVE  Reach(n)' <= Reach(n)
<1>1. floor' = floor /\ drop_slots' = drop_slots /\ pending'.what # "pickup"
  BY DEF PayOne, Repairing
<1>2. CASE Destroy(First(Holding(Head(pending.list).name)), 1)
  BY <1>1, <1>2, SpendingReach
<1>3. CASE UNCHANGED vars
  BY <1>1, <1>3, StandingReach DEF vars
<1> QED BY <1>2, <1>3 DEF PayOne

LEMMA DismantleReach ==
  ASSUME ReachInv, ReachInv', NEW n, Dismantle
  PROVE  Reach(n)' <= Reach(n)
<1>1. PICK item : item = drop_slots[DismantleSlot]
  OBVIOUS
<1>2. PICK made : made = MaxOf(Made[items[item].name], 1)
  OBVIOUS
<1>3. /\ items[item].name \in DOMAIN Made /\ ConsumeLoose(item, made) /\ floor' = floor
      /\ pending'.what # "pickup"
  BY <1>1, <1>2 DEF Dismantle, Returning
<1>4. made \in Nat
  BY <1>2, <1>3, BelongingsAssumption DEF MaxOf
<1>5. \A k \in DropSquares : drop_slots'[k] = 0 \/ drop_slots'[k] = drop_slots[k]
  BY DEF Dismantle, ReachInv, BelongingsInv, BelongingsTyped
<1> QED BY <1>3, <1>4, <1>5, SpendingReach

LEMMA UseSquaresReach ==
  ASSUME ReachInv, ReachInv', NEW n, UseSquares
  PROVE  Reach(n)' <= Reach(n)
<1>1. /\ UNCHANGED <<floor, drop_slots, pending>> /\ pending = Nothing
      /\ Nothing.what # "pickup" /\ Counts \subseteq Nat
  BY InventoriesAssumption DEF UseSquares, Ready, belongings, Nothing
<1>2. ASSUME NEW s \in DOMAIN slots, NEW t \in DOMAIN slots, NEW c \in Counts,
             TransferToSlot(s, t, c)
      PROVE  Reach(n)' <= Reach(n)
  BY <1>1, <1>2, TransferReach
<1>3. ASSUME NEW sq \in DOMAIN slots, NEW c \in Counts, Destroy(sq, c)
      PROVE  Reach(n)' <= Reach(n)
  BY <1>1, <1>3, SpendingReach
<1> QED BY <1>2, <1>3 DEF UseSquares

(* Off the floor, into somebody else's rucksack. *)
LEMMA OtherCollectsReach ==
  ASSUME ReachInv, ReachInv', NEW n, NEW d \in floor, OtherCollects(d)
  PROVE  Reach(n)' <= Reach(n)
<1>1. /\ floor' = floor \ {d} /\ UNCHANGED <<slots, items, drop_slots, pending>>
      /\ BelongingsInv /\ FloorIsApart
  BY DEF OtherCollects, vars, ReachInv, BelongingsInv
<1>2. InReachTyped /\ InReachTyped'
  BY InReachIsTyped, PTL DEF ReachInv
<1>3. \A z : Held(z)' = Held(z) /\ CountOf(z, n)' = CountOf(z, n)
  BY <1>1 DEF Held, InBag, OnSquare, InHand, CountOf
<1>4. \A z : InReach(z, n)' <= InReach(z, n)
  <2> SUFFICES ASSUME NEW z PROVE InReach(z, n)' <= InReach(z, n)
    OBVIOUS
  <2>1. InReach(z, n) \in Nat /\ InReach(z, n)' \in Nat
    BY <1>2 DEF InReachTyped
  <2>2. CASE OnFloor(z)'
    <3>1. PICK other \in floor' : other.stack = z
      BY <2>2 DEF OnFloor
    <3>2. OnFloor(z) /\ DropOf(z) = other
      BY <1>1, <3>1, DropOfIs
    <3>3. DropOf(z)' = other
      BY <1>1, <3>1 DEF DropOf, FloorIsApart
    <3> QED BY <2>1, <2>2, <3>2, <3>3 DEF InReach, HowMany
  <2>3. CASE ~OnFloor(z)' /\ Held(z)'
    <3>1. ~OnFloor(z)
      BY <1>1, <1>3, <2>3, PlacesAreApart
    <3> QED BY <1>3, <2>1, <2>3, <3>1 DEF InReach
  <2>4. CASE ~OnFloor(z)' /\ ~Held(z)'
    BY <2>1, <2>4 DEF InReach
  <2> QED BY <2>2, <2>3, <2>4
<1> QED BY <1>4, ReachByPlace

(* Off the floor and into the hand, as many as lay there. *)
LEMMA CollectPickupReach ==
  ASSUME ReachInv, ReachInv', NEW n, NEW d \in floor, CollectPickup(d)
  PROVE  Reach(n)' <= Reach(n)
<1>1. /\ floor' = floor \ {d} /\ UNCHANGED <<slots, drop_slots>> /\ pending = Nothing
      /\ pending' = PickingUp(d) /\ Nothing.what # "pickup"
      /\ BelongingsInv /\ FloorIsApart /\ CreateLooseWithId(d.stack, d.name, d.count)
  BY DEF CollectPickup, CreateLooseWithId, ReachInv, BelongingsInv, Ready, Nothing
<1>2. InReachTyped /\ InReachTyped'
  BY InReachIsTyped, PTL DEF ReachInv
<1>3. PICK e : e = d.stack
  OBVIOUS
<1>4. /\ pending'.what = "pickup" /\ pending'.drop = d
      /\ e \in DOMAIN items' /\ items'[e] = [name |-> d.name, count |-> d.count]
  <2>1. pending'.what = "pickup" /\ pending'.drop = d
    BY <1>1 DEF PickingUp
  <2> QED BY <1>3, <2>1 DEF ReachInv, BelongingsInv, InHandIsApart, Loose
<1>5. \A z : z # e => CountOf(z, n)' = CountOf(z, n)
  <2>1. \/ items' = items
        \/ items' = [x \in DOMAIN items \cup {e} |->
                       IF x = e THEN [name |-> d.name, count |-> d.count] ELSE items[x]]
    BY <1>1, <1>3 DEF CreateLooseWithId
  <2> QED BY <2>1 DEF CountOf
<1>6. \A z : z # e => Held(z)' = Held(z)
  BY <1>1, <1>3, <1>4 DEF Held, InBag, OnSquare, InHand
<1>7. \A z : InReach(z, n)' <= InReach(z, n)
  <2> SUFFICES ASSUME NEW z PROVE InReach(z, n)' <= InReach(z, n)
    OBVIOUS
  <2>1. InReach(z, n) \in Nat /\ InReach(z, n)' \in Nat
    BY <1>2 DEF InReachTyped
  <2>2. CASE z = e
    <3>1. OnFloor(z) /\ DropOf(z) = d
      BY <1>1, <1>3, <2>2, DropOfIs
    <3>2. ~OnFloor(z)'
      BY <1>1, <1>3, <2>2 DEF OnFloor, FloorIsApart
    <3>3. CountOf(z, n)' = HowMany(d, n)
      BY <1>4, <2>2 DEF CountOf, HowMany
    <3>4. InReach(z, n)' <= HowMany(d, n) /\ InReach(z, n) = HowMany(d, n)
      BY <1>2, <2>1, <3>1, <3>2, <3>3 DEF InReach, InReachTyped
    <3> QED BY <3>4
  <2>3. CASE z # e /\ OnFloor(z)'
    <3>1. PICK other \in floor' : other.stack = z
      BY <2>3 DEF OnFloor
    <3>2. OnFloor(z) /\ DropOf(z) = other
      BY <1>1, <3>1, DropOfIs
    <3>3. DropOf(z)' = other
      BY <1>1, <3>1 DEF DropOf, FloorIsApart
    <3> QED BY <2>1, <2>3, <3>2, <3>3 DEF InReach, HowMany
  <2>4. CASE z # e /\ ~OnFloor(z)' /\ Held(z)'
    <3>1. ~OnFloor(z)
      BY <1>1, <1>6, <2>4, PlacesAreApart
    <3> QED BY <1>5, <1>6, <2>1, <2>4, <3>1 DEF InReach
  <2>5. CASE ~OnFloor(z)' /\ ~Held(z)'
    BY <2>1, <2>5 DEF InReach
  <2> QED BY <2>2, <2>3, <2>4, <2>5
<1> QED BY <1>7, ReachByPlace

(* Into the rucksack, or back on the floor, as many as there are. *)
LEMMA FinishPickupReach ==
  ASSUME ReachInv, ReachInv', NEW n, FinishPickup
  PROVE  Reach(n)' <= Reach(n)
<1>1. PICK d : d = pending.drop
  OBVIOUS
<1>2. PICK e : e = d.stack
  OBVIOUS
<1>3. /\ pending.what = "pickup" /\ pending' = Nothing /\ Nothing.what # "pickup"
      /\ drop_slots' = drop_slots /\ BelongingsInv /\ FloorIsApart
      /\ e # 0 /\ Loose(e) /\ ~OnFloor(e) /\ items[e] = [name |-> d.name, count |-> d.count]
  BY <1>1, <1>2 DEF FinishPickup, Nothing, ReachInv, BelongingsInv, InHandIsApart
<1>4. Held(e) /\ e \in DOMAIN items
  BY <1>1, <1>2, <1>3 DEF Held, InHand, Loose
<1>5. CASE Collect(Player, e) /\ floor' = floor
  <2>1. \A z : OnSquare(z)' \/ InHand(z)' => z = 0 \/ OnSquare(z) \/ InHand(z)
    BY <1>3 DEF OnSquare, InHand
  <2> QED BY <1>3, <1>4, <1>5, <2>1, CollectReach
<1>6. CASE floor' = floor \cup {d} /\ UNCHANGED vars
  <2>1. InReachTyped /\ InReachTyped'
    BY InReachIsTyped, PTL DEF ReachInv
  <2>2. \A z : /\ Held(z)' => Held(z)
               /\ CountOf(z, n)' = CountOf(z, n)
    BY <1>3, <1>6 DEF Held, InBag, OnSquare, InHand, CountOf, vars
  <2>3. OnFloor(e)' /\ DropOf(e)' = d /\ CountOf(e, n) = HowMany(d, n)
    <3>1. d \in floor' /\ FloorIsApart'
      BY <1>6 DEF ReachInv, BelongingsInv
    <3>2. OnFloor(e)' /\ DropOf(e)' = d
      BY <1>2, <3>1 DEF OnFloor, DropOf, FloorIsApart
    <3> QED BY <1>3, <1>4, <3>2 DEF CountOf, HowMany
  <2>4. \A z : InReach(z, n)' <= InReach(z, n)
    <3> SUFFICES ASSUME NEW z PROVE InReach(z, n)' <= InReach(z, n)
      OBVIOUS
    <3>1. InReach(z, n) \in Nat /\ InReach(z, n)' \in Nat
      BY <2>1 DEF InReachTyped
    <3>2. CASE z = e
      BY <1>3, <1>4, <2>3, <3>1, <3>2 DEF InReach
    <3>3. CASE z # e /\ OnFloor(z)'
      <4>1. PICK other \in floor : other.stack = z
        BY <1>2, <1>6, <3>3 DEF OnFloor
      <4>2. OnFloor(z) /\ DropOf(z) = other
        BY <1>3, <4>1, DropOfIs
      <4>3. other \in floor' /\ FloorIsApart'
        BY <1>6, <4>1 DEF ReachInv, BelongingsInv
      <4>4. DropOf(z)' = other
        BY <4>1, <4>3 DEF DropOf, FloorIsApart
      <4> QED BY <3>1, <3>3, <4>2, <4>4 DEF InReach, HowMany
    <3>4. CASE ~OnFloor(z)' /\ Held(z)'
      <4>1. ~OnFloor(z)
        BY <1>6, <3>4 DEF OnFloor
      <4> QED BY <2>2, <3>1, <3>4, <4>1 DEF InReach
    <3>5. CASE ~OnFloor(z)' /\ ~Held(z)'
      BY <3>1, <3>5 DEF InReach
    <3> QED BY <3>2, <3>3, <3>4, <3>5
  <2> QED BY <2>4, ReachByPlace
<1> QED BY <1>1, <1>2, <1>5, <1>6 DEF FinishPickup

(* A session has the player's squares and nobody else's. *)
LEMMA OnlyThePlayersSafe ==
  ASSUME ReachInv, BNext
  PROVE  OnlyThePlayers'
<1>1. CASE Arrive
  BY <1>1 DEF Arrive, OnlyThePlayers
<1>2. CASE DOMAIN slots' = DOMAIN slots
  BY <1>2 DEF ReachInv, OnlyThePlayers
<1>3. \/ Arrive
      \/ DOMAIN slots' = DOMAIN slots
  <2>1. \A sq, c : Destroy(sq, c) => DOMAIN slots' = DOMAIN slots
    BY DEF Destroy
  <2>2. \A sq, n, c : Give(sq, n, c) => DOMAIN slots' = DOMAIN slots
    BY DEF Give
  <2>3. \A s, t, c : TransferToSlot(s, t, c) => DOMAIN slots' = DOMAIN slots
    BY DEF TransferToSlot, TrySplit, TryMerge, Exchange
  <2>4. \A e : Collect(Player, e) => DOMAIN slots' = DOMAIN slots
    BY DEF Collect, CollectMerging, CollectIntoSquare
  <2>5. \A e, c : ConsumeLoose(e, c) => DOMAIN slots' = DOMAIN slots
    BY DEF ConsumeLoose
  <2>6. \A k : TakeOff(k) => DOMAIN slots' = DOMAIN slots
    BY <2>4 DEF TakeOff
  <2>7. \A k, i : MoveToDropSlot(k, i) => DOMAIN slots' = DOMAIN slots
    BY DEF MoveToDropSlot, Detach
  <2>8. PayOne \/ Dismantle \/ ReturnMaterial => DOMAIN slots' = DOMAIN slots
    BY <2>1, <2>2, <2>5 DEF PayOne, Dismantle, ReturnMaterial, vars
  <2>9. Repair \/ FinishRepair \/ FinishDismantle => DOMAIN slots' = DOMAIN slots
    BY <2>6 DEF Repair, FinishRepair, FinishDismantle, vars
  <2>10. \A d : CollectPickup(d) \/ OtherCollects(d) => DOMAIN slots' = DOMAIN slots
    BY DEF CollectPickup, CreateLooseWithId, OtherCollects, vars
  <2>11. \A n, c : DropPickup(n, c) \/ OtherDrops(n, c) => DOMAIN slots' = DOMAIN slots
    BY DEF DropPickup, OtherDrops
  <2>12. FinishPickup => DOMAIN slots' = DOMAIN slots
    BY <2>4 DEF FinishPickup, vars
  <2>13. GetStack \/ UseSquares => DOMAIN slots' = DOMAIN slots
    BY <2>1, <2>2, <2>3 DEF GetStack, UseSquares
  <2>14. \A k : TakeFromDropSlot(k) => DOMAIN slots' = DOMAIN slots
    BY <2>6 DEF TakeFromDropSlot
  <2> QED BY <2>7, <2>8, <2>9, <2>10, <2>11, <2>12, <2>13, <2>14 DEF BNext
<1> QED BY <1>1, <1>2, <1>3

LEMMA ReachStep == ReachInv /\ [BNext]_bvars => ReachInv'
<1> SUFFICES ASSUME ReachInv, [BNext]_bvars PROVE ReachInv'
  OBVIOUS
<1>1. BelongingsInv'
  BY BelongingsStep DEF ReachInv
<1>2. CASE BNext
  BY <1>1, <1>2, OnlyThePlayersSafe DEF ReachInv
<1>3. CASE UNCHANGED bvars
  BY <1>1, <1>3 DEF ReachInv, OnlyThePlayers, bvars
<1> QED BY <1>2, <1>3

HandsOut ==
  GetStack \/ ReturnMaterial
    \/ \E n \in Names, c \in StackSizes : DropPickup(n, c) \/ OtherDrops(n, c)

LEMMA NoHandlerDoubles ==
  ReachInv /\ ReachInv' /\ [BNext]_bvars =>
    [(\E n \in Names : Reach(n)' > Reach(n)) => HandsOut]_bvars
<1> SUFFICES ASSUME ReachInv, ReachInv', BNext, ~HandsOut, NEW n \in Names
             PROVE  ~(Reach(n)' > Reach(n))
  OBVIOUS
<1>1. Nothing.what # "pickup"
  BY DEF Nothing
<1>2. ASSUME NEW k \in DropSquares, TakeFromDropSlot(k) PROVE Reach(n)' <= Reach(n)
  <2>1. TakeOff(k) /\ floor' = floor /\ pending'.what # "pickup"
    BY <1>1, <1>2 DEF TakeFromDropSlot, Ready
  <2> QED BY <2>1, TakeOffReach
<1>3. ASSUME Repair PROVE Reach(n)' <= Reach(n)
  <2>1. UNCHANGED <<slots, items, floor, drop_slots>> /\ pending'.what # "pickup"
    BY <1>3 DEF Repair, Repairing, vars
  <2> QED BY <2>1, StandingReach
<1>4. ASSUME FinishDismantle PROVE Reach(n)' <= Reach(n)
  <2>1. UNCHANGED <<slots, items, floor, drop_slots>> /\ pending'.what # "pickup"
    BY <1>1, <1>4 DEF FinishDismantle, vars
  <2> QED BY <2>1, StandingReach
<1>5. Reach(n)' <= Reach(n)
  BY <1>2, <1>3, <1>4, ArriveReach, MoveToDropSlotReach, PayOneReach, FinishRepairReach,
     DismantleReach, CollectPickupReach, OtherCollectsReach, FinishPickupReach,
     UseSquaresReach DEF BNext, HandsOut
<1>6. Reach(n) \in Int /\ Reach(n)' \in Int
  <2>1. ReachIsSum /\ ReachIsSum'
    BY ReachAddsUp, PTL
  <2>2. next_entity_id \in Nat /\ next_entity_id' \in Nat
    BY DEF ReachInv, BelongingsInv, IInv, TypeOK
  <2>3. PICK top \in Nat : next_entity_id <= top
    BY <2>2
  <2>4. PICK top2 \in Nat : next_entity_id' <= top2
    BY <2>2
  <2> DEFINE f == [e \in 0 .. top |-> InReach(e, n)]
             g == [e \in 0 .. top2 |-> InReach(e, n)']
  <2>5. f \in [0 .. top -> Nat] /\ Reach(n) = SumFunction(f)
    BY <2>1, <2>3 DEF ReachIsSum
  <2>6. g \in [0 .. top2 -> Nat] /\ Reach(n)' = SumFunction(g)
    BY <2>1, <2>4 DEF ReachIsSum
  <2>7. IsFiniteSet(0 .. top) /\ IsFiniteSet(0 .. top2)
    BY FS_Interval
  <2> HIDE DEF f, g
  <2> QED BY <2>5, <2>6, <2>7, SumIsNat
<1> QED BY <1>5, <1>6

(* Parking, taking back, picking up, dropping and being refused never make *)
(* a second one of anything, whoever drops or takes in between             *)
(* (move_to_drop_slot, take_from_drop_slot, drop_pickup, collect_pickup).  *)
THEOREM NoSecondOne == BSpec => NothingIsDoubled
<1>1. BInit => ReachInv
  BY InitHasBelongings DEF BInit, Init, ReachInv, OnlyThePlayers
<1>2. BSpec => []ReachInv
  BY <1>1, ReachStep, PTL DEF BSpec
<1>3. BSpec => [][(\E n \in Names : Reach(n)' > Reach(n)) => HandsOut]_bvars
  BY <1>2, NoHandlerDoubles, PTL DEF BSpec
<1> QED BY <1>3 DEF NothingIsDoubled, HandsOut

-----------------------------------------------------------------------------
(* What is written down. *)

(* The place of a number in a set of them, counted from one.               *)
Place(S, i) == Cardinality({j \in S : j < i}) + 1

LEMMA RanksAreApart ==
  ASSUME NEW S, S \subseteq Nat, IsFiniteSet(S), NEW i \in S, NEW k \in S
  PROVE  /\ Place(S, i) \in Nat \ {0}
         /\ i < k => Place(S, i) < Place(S, k)
         /\ Place(S, i) = Place(S, k) => i = k
<1> DEFINE Below(x) == {j \in S : j < x}
<1>1. \A x : IsFiniteSet(Below(x)) /\ Cardinality(Below(x)) \in Nat
  BY FS_Subset, FS_CardinalityType
<1>2. ASSUME NEW x \in S, NEW y \in S, x < y
      PROVE  Cardinality(Below(x)) < Cardinality(Below(y))
  <2>1. Below(x) \in SUBSET Below(y) /\ x \in Below(y) /\ x \notin Below(x)
    <3>1. \A z \in S : z \in Int
      OBVIOUS
    <3>2. ~(x < x) /\ \A z \in S : z < x => z < y
      BY <1>2, <3>1
    <3> QED BY <1>2, <3>2
  <2> HIDE DEF Below
  <2>2. /\ Cardinality(Below(x)) <= Cardinality(Below(y))
        /\ Cardinality(Below(y)) = Cardinality(Below(x)) => Below(y) = Below(x)
    BY <1>1, <2>1, FS_Subset
  <2> QED BY <1>1, <2>1, <2>2
<1>3. \A x : Place(S, x) = Cardinality(Below(x)) + 1
  BY DEF Place
<1>4. i \in Nat /\ k \in Nat
  OBVIOUS
<1> HIDE DEF Below
<1>5. i < k \/ k < i \/ i = k
  BY <1>4
<1> QED BY <1>1, <1>2, <1>3, <1>5

LEMMA FirstRanks ==
  ASSUME NEW S, S \subseteq Nat
  PROVE  /\ S # {} => \E i \in S : Place(S, i) = 1
         /\ (\E x, y \in S : x # y) => \E i \in S : Place(S, i) = 2
<1>1. ASSUME S # {} PROVE \E i \in S : Place(S, i) = 1
  <2>1. PICK i \in S : \A y \in S : i <= y
    BY <1>1, LeastIs
  <2>2. {j \in S : j < i} = {}
    <3>1. \A z \in S : z \in Int
      OBVIOUS
    <3>2. \A z \in S : ~(z < i)
      BY <2>1, <3>1
    <3> QED BY <3>2
  <2> QED BY <2>2, FS_EmptySet DEF Place
<1>2. ASSUME NEW x \in S, NEW y \in S, x # y PROVE \E i \in S : Place(S, i) = 2
  <2>1. PICK a \in S : \A z \in S : a <= z
    BY LeastIs
  <2>2. S \ {a} # {} /\ S \ {a} \subseteq Nat
    BY <1>2
  <2>3. PICK b \in S \ {a} : \A z \in S \ {a} : b <= z
    BY <2>2, LeastIs
  <2>4. {j \in S : j < b} = {a}
    <3>1. \A z \in S : z \in Int
      OBVIOUS
    <3>2. a < b
      BY <2>1, <3>1
    <3>3. ASSUME NEW z \in S, z < b PROVE z = a
      BY <2>3, <3>1, <3>3
    <3> QED BY <3>2, <3>3
  <2>5. Cardinality({a}) = 1
    BY FS_Singleton
  <2> QED BY <2>3, <2>4, <2>5 DEF Place
<1> QED BY <1>1, <1>2

(* What the layout says of each square: what is there, or, in the order of *)
(* the squares, what is parked.                                            *)
ParkedInOrder ==
  IF drop_slots[RepairSlot] = 0 THEN <<drop_slots[DismantleSlot]>>
  ELSE <<drop_slots[RepairSlot], drop_slots[DismantleSlot]>>

FreeIndexes == {sq[2] : sq \in FreeRucksack(Player)}
HeldIndexes == {sq[2] : sq \in {q \in SquaresOf(Player) : slots[q] # 0}}
Borrowed    == {i \in FreeIndexes : Place(FreeIndexes, i) <= Cardinality(Parked)}

LEMMA LayoutSays ==
  ASSUME BelongingsInv
  PROVE  /\ StoredLayout = [i \in HeldIndexes \cup Borrowed |->
                              IF i \in HeldIndexes THEN slots[<<Player, i>>]
                              ELSE ParkedInOrder[Place(FreeIndexes, i)]]
         /\ HeldIndexes \cap FreeIndexes = {} /\ FreeIndexes \subseteq Nat
         /\ IsFiniteSet(FreeIndexes) /\ IsFiniteSet(HeldIndexes)
         /\ \A sq \in SquaresOf(Player) : sq = <<Player, sq[2]>> /\ sq[2] \in Nat
<1>1. StoredLayout = [i \in HeldIndexes \cup Borrowed |->
                       IF i \in HeldIndexes THEN slots[<<Player, i>>]
                       ELSE ParkedInOrder[Place(FreeIndexes, i)]]
  BY DEF StoredLayout, HeldIndexes, Borrowed, FreeIndexes, Place, ParkedInOrder
<1>2. \A sq \in SquaresOf(Player) : sq = <<Player, sq[2]>> /\ sq[2] \in Nat
  BY DEF SquaresOf, BelongingsInv, IInv, TypeOK, Square
<1>3. \A sq \in FreeRucksack(Player) : sq \in SquaresOf(Player) /\ slots[sq] = 0
  BY DEF FreeRucksack
<1>4. HeldIndexes \cap FreeIndexes = {} /\ FreeIndexes \subseteq Nat
  BY <1>2, <1>3 DEF HeldIndexes, FreeIndexes
<1>5. IsFiniteSet(SquaresOf(Player))
  BY FS_Subset DEF BelongingsInv, IInv, TypeOK, SquaresOf
<1>6. ASSUME NEW T, T \subseteq SquaresOf(Player) PROVE IsFiniteSet({sq[2] : sq \in T})
  <2>1. IsFiniteSet(T)
    BY <1>5, <1>6, FS_Subset
  <2>2. [sq \in T |-> sq[2]] \in Surjection(T, {sq[2] : sq \in T})
    BY DEF Surjection
  <2> QED BY <2>1, <2>2, FS_Surjection
<1>7. IsFiniteSet(FreeIndexes) /\ IsFiniteSet(HeldIndexes)
  BY <1>3, <1>6 DEF FreeIndexes, HeldIndexes
<1> QED BY <1>1, <1>2, <1>4, <1>7

(* The drop squares in order, with what they hold and nothing twice.       *)
LEMMA ParkedIsInOrder ==
  ASSUME BelongingsInv
  PROVE  /\ Cardinality(Parked) \in 0 .. 2
         /\ Cardinality({drop_slots[k] : k \in Parked}) = Cardinality(Parked)
         /\ \A r \in 1 .. Cardinality(Parked) :
              /\ ParkedInOrder[r] \in {drop_slots[k] : k \in Parked}
              /\ \A s \in 1 .. Cardinality(Parked) :
                   ParkedInOrder[r] = ParkedInOrder[s] => r = s
         /\ \A k \in Parked : \E r \in 1 .. Cardinality(Parked) :
              ParkedInOrder[r] = drop_slots[k]
<1> DEFINE a == drop_slots[RepairSlot]
           b == drop_slots[DismantleSlot]
<1>1. /\ RepairSlot # DismantleSlot
      /\ Parked = {k \in {RepairSlot, DismantleSlot} : drop_slots[k] # 0}
      /\ ParkedInOrder = IF a = 0 THEN <<b>> ELSE <<a, b>>
  BY BelongingsAssumption DEF Parked, DropSquares, ParkedInOrder
<1>2. a # 0 /\ b # 0 => a # b
  BY <1>1, ParkedIsLoose DEF DropSquares
<1>3. \A x, y : x # y => Cardinality({x, y}) = 2
  <2> SUFFICES ASSUME NEW x, NEW y, x # y PROVE Cardinality({x, y}) = 2
    OBVIOUS
  <2>1. {x, y} = {x} \cup {y} /\ y \notin {x}
    OBVIOUS
  <2>2. IsFiniteSet({x}) /\ Cardinality({x}) = 1
    BY FS_Singleton
  <2>3. Cardinality({x} \cup {y}) = Cardinality({x}) + 1
    BY <2>1, <2>2, FS_AddElement
  <2> QED BY <2>1, <2>2, <2>3
<1>4. CASE a = 0 /\ b = 0
  <2>1. Parked = {} /\ {drop_slots[k] : k \in Parked} = {}
    BY <1>1, <1>4
  <2> QED BY <2>1, FS_EmptySet
<1>5. CASE a = 0 /\ b # 0
  <2>1. Parked = {DismantleSlot} /\ {drop_slots[k] : k \in Parked} = {b}
    BY <1>1, <1>5
  <2>2. Cardinality(Parked) = 1 /\ Cardinality({b}) = 1
    BY <2>1, FS_Singleton
  <2>3. ParkedInOrder[1] = b
    BY <1>1, <1>5
  <2> QED BY <2>1, <2>2, <2>3
<1>6. CASE a # 0 /\ b = 0
  <2>1. Parked = {RepairSlot} /\ {drop_slots[k] : k \in Parked} = {a}
    BY <1>1, <1>6
  <2>2. Cardinality(Parked) = 1 /\ Cardinality({a}) = 1
    BY <2>1, FS_Singleton
  <2>3. ParkedInOrder[1] = a
    BY <1>1, <1>6
  <2> QED BY <2>1, <2>2, <2>3
<1>7. CASE a # 0 /\ b # 0
  <2>1. Parked = {RepairSlot, DismantleSlot} /\ {drop_slots[k] : k \in Parked} = {a, b}
    BY <1>1, <1>7
  <2>2. Cardinality(Parked) = 2 /\ Cardinality({a, b}) = 2
    <3> HIDE DEF a, b
    <3>1. Cardinality({RepairSlot, DismantleSlot}) = 2
      BY <1>1, <1>3
    <3>2. Cardinality({a, b}) = 2
      BY <1>2, <1>3, <1>7
    <3> QED BY <2>1, <3>1, <3>2
  <2>3. ParkedInOrder[1] = a /\ ParkedInOrder[2] = b
    BY <1>1, <1>7
  <2>4. 1 .. 2 = {1, 2} /\ 2 \in 0 .. 2
    OBVIOUS
  <2>5. ParkedInOrder[1] # ParkedInOrder[2]
    BY <1>2, <1>7, <2>3
  <2>6. \A r \in 1 .. 2 : ParkedInOrder[r] \in {a, b}
    BY <2>3, <2>4
  <2>7. \A r, s \in 1 .. 2 : ParkedInOrder[r] = ParkedInOrder[s] => r = s
    BY <2>4, <2>5
  <2>8. \A x \in {a, b} : \E r \in 1 .. 2 : ParkedInOrder[r] = x
    BY <2>3, <2>4
  <2>9. \A k \in Parked : drop_slots[k] \in {a, b}
    BY <2>1
  <2> HIDE DEF a, b
  <2> QED BY <2>1, <2>2, <2>4, <2>6, <2>7, <2>8, <2>9
<1> QED BY <1>4, <1>5, <1>6, <1>7

(* No stack is written down twice, none that is carried is left out, and   *)
(* what is parked is there as well when there is room for it.              *)
LEMMA LayoutForgetsNothing == BelongingsInv => NothingIsForgotten
<1> SUFFICES ASSUME BelongingsInv PROVE NothingIsForgotten
  OBVIOUS
<1> DEFINE n       == Cardinality(Parked)
           F       == FreeIndexes
           owned   == {slots[sq] : sq \in {q \in SquaresOf(Player) : slots[q] # 0}}
           parked  == {drop_slots[k] : k \in Parked}
           written == {StoredLayout[i] : i \in DOMAIN StoredLayout}
<1>1. /\ DOMAIN StoredLayout = HeldIndexes \cup Borrowed
      /\ Borrowed = {i \in F : Place(F, i) <= n}
      /\ \A i \in HeldIndexes : StoredLayout[i] = slots[<<Player, i>>]
      /\ \A i \in Borrowed : StoredLayout[i] = ParkedInOrder[Place(F, i)]
  BY LayoutSays DEF Borrowed
<1>2. /\ F \subseteq Nat /\ IsFiniteSet(F) /\ IsFiniteSet(HeldIndexes)
      /\ \A sq \in SquaresOf(Player) : sq = <<Player, sq[2]>> /\ sq[2] \in Nat
  BY LayoutSays
<1>3. /\ n \in 0 .. 2 /\ Cardinality(parked) = n
      /\ \A r \in 1 .. n : ParkedInOrder[r] \in parked
      /\ \A r, s \in 1 .. n : ParkedInOrder[r] = ParkedInOrder[s] => r = s
      /\ \A k \in Parked : \E r \in 1 .. n : ParkedInOrder[r] = drop_slots[k]
  BY ParkedIsInOrder
<1>4. \A i \in HeldIndexes :
         /\ <<Player, i>> \in SquaresOf(Player) /\ slots[<<Player, i>>] # 0
         /\ <<Player, i>> \in DOMAIN slots
  BY <1>2 DEF HeldIndexes, SquaresOf
<1>5. \A i \in Borrowed : Place(F, i) \in 1 .. n
  <2> SUFFICES ASSUME NEW i \in Borrowed PROVE Place(F, i) \in 1 .. n
    OBVIOUS
  <2>1. Place(F, i) \in Nat \ {0}
    BY <1>1, <1>2, RanksAreApart
  <2> QED BY <1>1, <1>3, <2>1
<1>6. \A x \in parked : Loose(x)
  BY ParkedIsLoose DEF Parked
<1> HIDE DEF n, F, owned, parked, written
<1>7. ASSUME NEW i \in DOMAIN StoredLayout, NEW k \in DOMAIN StoredLayout,
             StoredLayout[i] = StoredLayout[k]
      PROVE  i = k
  <2>1. CASE i \in HeldIndexes /\ k \in HeldIndexes
    <3>1. slots[<<Player, i>>] = slots[<<Player, k>>]
      BY <1>1, <1>7, <2>1
    <3>2. \A x, y \in DOMAIN slots : slots[x] = slots[y] /\ slots[x] # 0 => x = y
      BY DEF BelongingsInv, IInv, NoSharedStack
    <3>3. <<Player, i>> = <<Player, k>>
      BY <1>4, <2>1, <3>1, <3>2
    <3> QED BY <3>3
  <2>2. CASE i \in Borrowed /\ k \in Borrowed
    <3>1. Place(F, i) = Place(F, k)
      BY <1>1, <1>3, <1>5, <1>7, <2>2
    <3> QED BY <1>1, <1>2, <2>2, <3>1, RanksAreApart
  <2>3. \A x \in HeldIndexes, y \in Borrowed : StoredLayout[x] # StoredLayout[y]
    <3> SUFFICES ASSUME NEW x \in HeldIndexes, NEW y \in Borrowed
                 PROVE  StoredLayout[x] # StoredLayout[y]
      OBVIOUS
    <3>1. StoredLayout[y] \in parked
      BY <1>1, <1>3, <1>5
    <3>2. \A sq \in DOMAIN slots : slots[sq] # StoredLayout[y]
      BY <1>6, <3>1 DEF Loose
    <3>3. <<Player, x>> \in DOMAIN slots /\ StoredLayout[x] = slots[<<Player, x>>]
      BY <1>1, <1>4
    <3> QED BY <3>2, <3>3
  <2> QED BY <1>1, <1>7, <2>1, <2>2, <2>3
<1>8. Cardinality(written) = Cardinality(DOMAIN StoredLayout)
  <2>1. IsFiniteSet(DOMAIN StoredLayout)
    BY <1>1, <1>2, FS_Subset, FS_Union
  <2>2. StoredLayout \in Bijection(DOMAIN StoredLayout, written)
    <3>1. StoredLayout = [i \in DOMAIN StoredLayout |-> StoredLayout[i]]
      BY LayoutSays
    <3> QED BY <1>7, <3>1 DEF Bijection, Injection, Surjection, IsInjective, written
  <2>3. ExistsBijection(DOMAIN StoredLayout, written)
    BY <2>2 DEF ExistsBijection
  <2> QED BY <2>1, <2>3, FS_Bijection
<1>9. owned \subseteq written
  <2> SUFFICES ASSUME NEW sq \in SquaresOf(Player), slots[sq] # 0
               PROVE  slots[sq] \in written
    BY DEF owned
  <2>1. sq[2] \in HeldIndexes /\ sq = <<Player, sq[2]>>
    BY <1>2 DEF HeldIndexes
  <2>2. StoredLayout[sq[2]] = slots[sq] /\ sq[2] \in DOMAIN StoredLayout
    BY <1>1, <2>1
  <2> QED BY <2>2 DEF written
<1>10. written \subseteq owned \cup parked
  <2>1. \A i \in HeldIndexes : StoredLayout[i] \in owned
    BY <1>1, <1>4 DEF owned
  <2>2. \A i \in Borrowed : StoredLayout[i] \in parked
    BY <1>1, <1>3, <1>5
  <2> QED BY <1>1, <2>1, <2>2 DEF written
<1>11. ASSUME Cardinality(FreeRucksack(Player)) >= Cardinality(parked)
       PROVE  parked \subseteq written
  <2> SUFFICES ASSUME NEW k \in Parked PROVE drop_slots[k] \in written
    BY DEF parked
  <2>1. PICK r \in 1 .. n : ParkedInOrder[r] = drop_slots[k]
    BY <1>3
  <2>2. F = {sq[2] : sq \in FreeRucksack(Player)}
    BY DEF F, FreeIndexes
  <2>3. FreeRucksack(Player) \subseteq SquaresOf(Player)
    BY DEF FreeRucksack
  <2>4. r = 1 \/ r = 2
    BY <1>3
  <2>5. Cardinality(FreeRucksack(Player)) >= n
    BY <1>3, <1>11
  <2>6. \E i \in F : Place(F, i) = r
    <3>1. F # {}
      <4>1. CASE FreeRucksack(Player) = {}
        <5>1. Cardinality(FreeRucksack(Player)) = 0
          BY <4>1, FS_EmptySet
        <5> QED BY <1>3, <2>5, <5>1
      <4> QED BY <2>2, <4>1
    <3>2. CASE r = 2
      <4>1. n = 2
        BY <1>3, <3>2
      <4>2. PICK x \in FreeRucksack(Player) : TRUE
        BY <2>2, <3>1
      <4>3. CASE FreeRucksack(Player) = {x}
        <5>1. Cardinality(FreeRucksack(Player)) = 1
          BY <4>3, FS_Singleton
        <5> QED BY <2>5, <4>1, <5>1
      <4>4. CASE FreeRucksack(Player) # {x}
        <5>1. PICK y \in FreeRucksack(Player) : y # x
          BY <4>2, <4>4
        <5>2. x[2] \in F /\ y[2] \in F
          BY <2>2
        <5>3. x = <<Player, x[2]>> /\ y = <<Player, y[2]>>
          BY <1>2, <2>3
        <5>4. x[2] # y[2]
          BY <5>1, <5>3
        <5> QED BY <1>2, <3>2, <5>2, <5>4, FirstRanks
      <4> QED BY <4>3, <4>4
    <3> QED BY <1>2, <2>4, <3>1, <3>2, FirstRanks
  <2>7. PICK i \in F : Place(F, i) = r
    BY <2>6
  <2>8. i \in Borrowed
    BY <1>1, <1>3, <2>7
  <2> QED BY <1>1, <2>1, <2>7, <2>8 DEF written
<1> QED BY <1>8, <1>9, <1>10, <1>11 DEF NothingIsForgotten, owned, parked, written

(* The stored layout names every stack in the rucksack once, and the       *)
(* parked ones as well when there are free squares for them                *)
(* (inventory_layout).                                                     *)
THEOREM TheLayoutForgetsNothing == BSpec => []NothingIsForgotten
BY LayoutForgetsNothing, BelongingsAreApart, PTL
=============================================================================
