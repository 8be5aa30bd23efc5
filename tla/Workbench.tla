------------------------------ MODULE Workbench ------------------------------
(***************************************************************************)
(* Crafting in one session (crates/skysaga-game/src/lib.rs): recipes are   *)
(* queued on a station, paid for at once, ready after a while, announced   *)
(* by the server's tick and collected by the client.                       *)
(*                                                                         *)
(* The rucksack is what Inventories says of the player's squares, with the *)
(* entity ids left out.  The player's own hands are a station like any     *)
(* other, and what a station can make by hand can be asked of any station. *)
(***************************************************************************)
EXTENDS Integers, Sequences, FiniteSets, FiniteSetsExt, SequencesExt

CONSTANTS
  Goods,          \* what can lie in the rucksack
  Recipes,
  Needs,          \* recipe -> its materials in order, each [name, count]
  Makes,          \* recipe -> [name, count]
  StationOf,      \* recipe -> the station that makes it
  Stations,       \* entities that are stations: the player, a device, a chest
  KindOf,         \* station -> what a recipe calls it
  HAND_CRAFTING,
  MaxSlots,       \* station -> how many crafts it takes at once
  Duration,       \* recipe -> how long it takes
  COLLECT_GRACE,  \* how early a client may collect
  Pockets,        \* rucksack squares
  Bundles,        \* the sizes materials are found in
  MaxClock, MaxFinds

ASSUME WorkbenchAssumption ==
  /\ IsFiniteSet(Goods) /\ "nothing" \notin Goods
  /\ IsFiniteSet(Recipes) /\ IsFiniteSet(Stations)
  /\ Needs \in [Recipes -> Seq([name : Goods, count : Nat])]
  /\ Makes \in [Recipes -> [name : Goods, count : Nat \ {0}]]
  /\ MaxSlots \in [Stations -> Nat] /\ Duration \in [Recipes -> Nat]
  /\ Bundles \subseteq Nat \ {0}
  /\ {COLLECT_GRACE, Pockets, MaxClock, MaxFinds} \subseteq Nat

(* So the game's recipes are.  Nothing in the code insists on it, and the  *)
(* code relies on it: each need is checked by itself.                      *)
ASSUME EachMaterialOnce ==
  \A r \in Recipes : \A i, j \in DOMAIN Needs[r] :
    Needs[r][i].name = Needs[r][j].name => i = j

VARIABLES
  pockets,    \* rucksack square -> [name, count], or Vacant
  crafting,   \* station -> the crafts queued there
  now,        \* the wall clock
  finds,      \* history: how much of each thing was found
  accepted,   \* history: recipe -> crafts paid for
  delivered,  \* history: recipe -> crafts handed over
  spoiled     \* history: recipe -> crafts lost to a full rucksack or with the session

bench_vars == <<pockets, crafting, now, finds, accepted, delivered, spoiled>>

Vacant == [name |-> "nothing", count |-> 0]
Amount(square, name) == IF square.name = name THEN square.count ELSE 0

(* The count over every stack. *)
carried(name) == SumFunction([i \in 1 .. Pockets |-> Amount(pockets[i], name)])

OneLess(square) == IF square.count = 1 THEN Vacant ELSE [square EXCEPT !.count = @ - 1]

(* One item, from the first square that has any; nothing when none has.    *)
take_one(load, name) ==
  LET having == {i \in 1 .. Pockets : load[i].name = name}
  IN  IF having = {} THEN load
      ELSE [load EXCEPT ![Min(having)] = OneLess(@)]

(* One at a time: the squares are emptied from the front.                  *)
take(load, name, quantity) == FoldLeft(take_one, load, [n \in 1 .. quantity |-> name])

Paid(load, need) == take(load, need.name, need.count)

(* A fresh stack in the first free square; a full rucksack refuses.        *)
FreePockets == {i \in 1 .. Pockets : pockets[i] = Vacant}

give(name, count) ==
  pockets' = [pockets EXCEPT ![Min(FreePockets)] = [name |-> name, count |-> count]]

(* The game hands out materials. *)
FindGoods(name, count) ==
  /\ FreePockets # {}
  /\ SumFunction(finds) + count <= MaxFinds
  /\ give(name, count)
  /\ finds' = [finds EXCEPT ![name] = @ + count]
  /\ UNCHANGED <<crafting, now, accepted, delivered, spoiled>>

-----------------------------------------------------------------------------
made_here(station, recipe) == StationOf[recipe] \in {KindOf[station], HAND_CRAFTING}

(* Mutant: each material is looked for when its turn comes to be taken.    *)
AnyMaterial(recipe) == \E i \in DOMAIN Needs[recipe] : carried(Needs[recipe][i].name) > 0

enough_materials(recipe) ==
  \A i \in DOMAIN Needs[recipe] : carried(Needs[recipe][i].name) >= Needs[recipe][i].count

(* Anything else is refused with CraftingFailed, and nothing changes.      *)
queue_recipe(station, recipe) ==
  /\ made_here(station, recipe)
  /\ Len(crafting[station]) < MaxSlots[station]
  /\ enough_materials(recipe)
  /\ pockets' = FoldLeft(Paid, pockets, Needs[recipe])
  /\ crafting' = [crafting EXCEPT ![station] =
                    Append(@, [recipe |-> recipe, timer |-> now,
                               ready |-> now + Duration[recipe], announced |-> FALSE])]
  /\ accepted' = [accepted EXCEPT ![recipe] = @ + 1]
  /\ UNCHANGED <<now, finds, delivered, spoiled>>

(* saturating_sub, twice. *)
Less(a, b) == IF a < b THEN 0 ELSE a - b

finished(slot) == Less(now, slot.timer) >= Less(Duration[slot.recipe], COLLECT_GRACE)

Collected(queue, at) == RemoveAt(queue, at)

(* The slot goes first.  A product that finds no square is lost.           *)
collect_craft(station, at) ==
  /\ at \in DOMAIN crafting[station]
  /\ finished(crafting[station][at])
  /\ crafting' = [crafting EXCEPT ![station] = Collected(@, at)]
  /\ LET recipe == crafting[station][at].recipe
     IN  \/ /\ FreePockets # {}
            /\ give(Makes[recipe].name, Makes[recipe].count)
            /\ delivered' = [delivered EXCEPT ![recipe] = @ + 1]
            /\ UNCHANGED spoiled
         \/ /\ FreePockets = {}
            /\ spoiled' = [spoiled EXCEPT ![recipe] = @ + 1]
            /\ UNCHANGED <<pockets, delivered>>
  /\ UNCHANGED <<now, finds, accepted>>

CraftSlots == UNION {{<<s, i>> : i \in DOMAIN crafting[s]} : s \in Stations}

(* Mutant: only the player's own hands are looked at.                      *)
DueByHand == {s \in CraftSlots : /\ KindOf[s[1]] = HAND_CRAFTING
                                 /\ crafting[s[1]][s[2]].ready <= now}

(* The crafts whose time is up.                                            *)
Due == {s \in CraftSlots : crafting[s[1]][s[2]].ready <= now}

Unannounced == {s \in Due : ~crafting[s[1]][s[2]].announced}

(* Every tick of the server, whether or not the client says anything.      *)
crafting_announcements ==
  /\ Unannounced # {}
  /\ crafting' = [s \in Stations |-> [i \in DOMAIN crafting[s] |->
                    [crafting[s][i] EXCEPT !.announced = @ \/ <<s, i>> \in Due]]]
  /\ UNCHANGED <<pockets, now, finds, accepted, delivered, spoiled>>

InQueue(queue, recipe) == Cardinality({i \in DOMAIN queue : queue[i].recipe = recipe})

Queued(recipe) == SumFunction([s \in Stations |-> InQueue(crafting[s], recipe)])

(* The queues are the session's: nothing writes them down, and what was    *)
(* paid for goes with the connection.  The rucksack comes back.            *)
LeaveBench ==
  /\ crafting' = [s \in Stations |-> <<>>]
  /\ spoiled' = [r \in Recipes |-> spoiled[r] + Queued(r)]
  /\ UNCHANGED <<pockets, now, finds, accepted, delivered>>

Elapse ==
  /\ now < MaxClock
  /\ now' = now + 1
  /\ UNCHANGED <<pockets, crafting, finds, accepted, delivered, spoiled>>

BenchInit ==
  /\ pockets = [i \in 1 .. Pockets |-> Vacant]
  /\ crafting = [s \in Stations |-> <<>>]
  /\ now = 0
  /\ finds = [n \in Goods |-> 0]
  /\ accepted = [r \in Recipes |-> 0]
  /\ delivered = [r \in Recipes |-> 0] /\ spoiled = [r \in Recipes |-> 0]

BenchNext ==
  \/ \E n \in Goods, c \in Bundles : FindGoods(n, c)
  \/ \E s \in Stations, r \in Recipes : queue_recipe(s, r)
  \/ \E s \in Stations : \E at \in DOMAIN crafting[s] : collect_craft(s, at)
  \/ crafting_announcements
  \/ LeaveBench
  \/ Elapse

BenchFairness == WF_bench_vars(crafting_announcements)

BenchSpec == BenchInit /\ [][BenchNext]_bench_vars /\ BenchFairness

-----------------------------------------------------------------------------
(* Properties.                                                             *)

Needed(recipe, name) ==
  SumFunction([i \in DOMAIN Needs[recipe] |-> Amount(Needs[recipe][i], name)])

Produced(recipe, name) == delivered[recipe] * Amount(Makes[recipe], name)

(* The books balance over any number of crafts on any number of stations:  *)
(* all that was found or made is in the rucksack or paid for a craft that  *)
(* was accepted, and every craft that was paid for is in its slot, handed  *)
(* over, or was lost: collected into a full rucksack, or left in its slot  *)
(* by a player who went away.                                              *)
CraftingBooksBalance ==
  /\ \A n \in Goods :
       finds[n] + SumFunction([r \in Recipes |-> Produced(r, n)])
         = carried(n) + SumFunction([r \in Recipes |-> accepted[r] * Needed(r, n)])
  /\ \A r \in Recipes : accepted[r] = Queued(r) + delivered[r] + spoiled[r]

(* A craft whose time is up is announced, on whatever station it lies and  *)
(* however silent the client is: "their craft finished, the announcement   *)
(* sat in the queue, and the panel waited for a packet" (server.rs).       *)
Overdue == {s \in CraftSlots : /\ crafting[s[1]][s[2]].ready <= now
                               /\ ~crafting[s[1]][s[2]].announced}
FinishedCraftsAreAnnounced == Overdue # {} ~> Overdue = {}
=============================================================================
