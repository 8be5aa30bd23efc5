------------------------------ MODULE Keepsakes ------------------------------
(***************************************************************************)
(* What a player's stacks carry besides a name and a count                 *)
(* (crates/skysaga-game/src/lib.rs and server.rs): how worn a tool is,     *)
(* when a portal stone began to expire, which recipe a scroll and which    *)
(* title a deed teaches.                                                   *)
(*                                                                         *)
(* The session keeps these by stack.  A stack is minted anew in every      *)
(* session, so they are written down by square, in a record of their own:  *)
(* the rucksack first and the "progress" after it, two changes on their    *)
(* way to a database that may refuse either, or both, and that a crash may *)
(* fall between.                                                           *)
(***************************************************************************)
EXTENDS Integers, Sequences, FiniteSets, FiniteSetsExt, SequencesExt

CONSTANTS
  Durables,       \* stacks that wear (stacks are told apart by the history)
  Stones,         \* stacks that expire
  Scrolls, Deeds, \* stacks that teach a recipe, or a home title
  Lore,           \* the recipes and titles there are to teach
  RackSize,       \* rucksack squares
  DurabilityMax,
  LIFETIME, HEAD_START,
  MaxTime,
  Kits,           \* the sets of stacks a player may come by
  MaxSessions,    \* connections, all in all
  Nobody, Unset

Pieces   == Durables \cup Stones \cup Scrolls \cup Deeds
Teachers == Scrolls \cup Deeds
Slots    == 1 .. RackSize

ASSUME KeepsakesAssumption ==
  /\ {RackSize, DurabilityMax, LIFETIME, HEAD_START, MaxTime, MaxSessions} \subseteq Nat
  /\ RackSize > 0 /\ Lore # {} /\ Kits \subseteq SUBSET Pieces
  /\ Nobody \notin Pieces /\ Unset \notin Nat \cup Lore

VARIABLES
  rack,        \* rucksack square -> stack, or Nobody
  parked,      \* the stack on the repair square, or Nobody
  wear,        \* stack -> what is left of it, or Unset: as new
  minted,      \* stack -> when it began to expire, or Unset
  taught,      \* stack -> what it was stored with, or Unset
  by_id,       \* stack -> what this session's entity id would make it teach
  learned,     \* the recipes read from scrolls
  island,      \* the title of the home island
  phase,       \* "away", "playing" (not restored yet) or "restored"
  clock,
  shelf,       \* AppState: the rucksack record and the progress record
  pipeline,    \* changes on their way to the database
  archive,     \* what the database holds
  truth,       \* history: what every stack has really been through
  refused,     \* history: the records whose last write the database refused
  torn,        \* history: a restart has found records of two ticks
  sessions,
  kit          \* the stacks of this behaviour

keep_vars == <<kit, rack, parked, wear, minted, taught, by_id, learned, island, phase,
               clock, shelf, pipeline, archive, truth, refused, torn, sessions>>
maps  == <<wear, minted, taught, by_id>>
store == <<shelf, pipeline, archive, refused>>

AllUnset == [p \in Pieces |-> Unset]
Inventory == {rack[i] : i \in Slots} \ {Nobody}
Owned == Inventory \cup ({parked} \ {Nobody})
FreeSlots == {i \in Slots : rack[i] = Nobody}

NothingTrue == [left |-> AllUnset, born |-> AllUnset, lore |-> AllUnset,
                given |-> {}]
NothingKept == [items |-> [i \in {} |-> Nobody],
                progress |-> [details |-> [i \in {} |-> Unset], recipes |-> {},
                              truth |-> NothingTrue]]

(* What it was stored with outlives the id it happens to have.             *)
teaches(p) == IF p \notin Teachers THEN Unset
              ELSE IF taught[p] # Unset THEN taught[p] ELSE by_id[p]

Unread == [p \in Teachers |-> CHOOSE lore \in Lore : TRUE]

-----------------------------------------------------------------------------
(* A session.                                                              *)

Here == phase = "restored"

(* A reduction: the writer can put what it has been sent to bed before the *)
(* player does anything.  What a tick has sent cannot change any more, and *)
(* a crash or a disconnect in between undoes what the player did since, so *)
(* the orders left out lead to the same states.                            *)
Free == Here /\ pipeline = <<>>

(* A fresh stack, as new; the id it gets is as good as any.                *)
Obtain(p, lore) ==
  /\ Free
  /\ p \in kit \ truth.given
  /\ FreeSlots # {}
  /\ rack' = [rack EXCEPT ![Min(FreeSlots)] = p]
  /\ IF p \in Teachers
       THEN /\ by_id' = [by_id EXCEPT ![p] = lore]
            /\ truth' = [truth EXCEPT !.given = @ \cup {p}, !.lore[p] = lore]
       ELSE /\ truth' = [truth EXCEPT !.given = @ \cup {p}]
            /\ UNCHANGED by_id
  /\ UNCHANGED <<parked, wear, minted, taught, learned, island, phase, clock, store,
                 torn, sessions, kit>>

MoveStack(i, j) ==
  /\ Free
  /\ i # j /\ rack[i] # Nobody
  /\ rack' = [rack EXCEPT ![i] = rack[j], ![j] = rack[i]]
  /\ UNCHANGED <<parked, maps, learned, island, phase, clock, store, truth, torn, sessions, kit>>

Park(i) ==
  /\ Free
  /\ parked = Nobody /\ rack[i] # Nobody
  /\ parked' = rack[i]
  /\ rack' = [rack EXCEPT ![i] = Nobody]
  /\ UNCHANGED <<maps, learned, island, phase, clock, store, truth, torn, sessions, kit>>

Unpark ==
  /\ Free
  /\ parked # Nobody /\ FreeSlots # {}
  /\ rack' = [rack EXCEPT ![Min(FreeSlots)] = parked]
  /\ parked' = Nobody
  /\ UNCHANGED <<maps, learned, island, phase, clock, store, truth, torn, sessions, kit>>

Left(p) == IF wear[p] = Unset THEN DurabilityMax ELSE wear[p]

(* A tool stops at zero and stays where it is.                             *)
wear_held(p) ==
  /\ Free
  /\ p \in Inventory \cap Durables
  /\ Left(p) > 0
  /\ wear' = [wear EXCEPT ![p] = Left(p) - 1]
  /\ truth' = [truth EXCEPT !.left[p] = Left(p) - 1]
  /\ UNCHANGED <<rack, parked, minted, taught, by_id, learned, island, phase, clock,
                 store, torn, sessions, kit>>

(* What a repair does to the tool; Belongings has what it costs.           *)
Mend ==
  /\ Free
  /\ parked \in Durables /\ wear[parked] # Unset
  /\ wear' = [wear EXCEPT ![parked] = Unset]
  /\ truth' = [truth EXCEPT !.left[parked] = Unset]
  /\ UNCHANGED <<rack, parked, minted, taught, by_id, learned, island, phase, clock,
                 store, torn, sessions, kit>>

Spent(p) == [i \in Slots |-> IF rack[i] = p THEN Nobody ELSE rack[i]]

(* A scroll for a recipe that is known is kept.                            *)
learn_recipe(p) ==
  /\ Free
  /\ p \in Inventory \cap Scrolls
  /\ teaches(p) \notin learned
  /\ rack' = Spent(p)
  /\ learned' = learned \cup {teaches(p)}
  /\ UNCHANGED <<parked, maps, island, phase, clock, store, truth, torn, sessions, kit>>

(* The title this session's id of the stack picks: after a reconnect not   *)
(* always the one its tooltip shows, which is the stored one (teaches).    *)
learn_home_title(p) ==
  /\ Free
  /\ p \in Inventory \cap Deeds
  /\ island' = by_id[p]
  /\ rack' = Spent(p)
  /\ UNCHANGED <<parked, maps, learned, phase, clock, store, truth, torn, sessions, kit>>

-----------------------------------------------------------------------------
(* The tick: expiry, then what was stored comes back, then the records.    *)

Lasting == Inventory \cap Stones
Began(p) == IF minted[p] = Unset THEN clock ELSE minted[p]

(* A little before the client would.                                       *)
TimeUp(p) == clock + HEAD_START >= Began(p) + LIFETIME
Expired == {p \in Lasting : TimeUp(p)}

(* Every stack that is the player's, under the square it will come back to. *)
stored_layout(r, spare) ==
  LET free == {i \in Slots : r[i] = Nobody}
      back == IF spare = Nobody \/ free = {} THEN {} ELSE {Min(free)}
  IN  [i \in {j \in Slots : r[j] # Nobody} \cup back |->
         IF r[i] = Nobody THEN spare ELSE r[i]]

(* Mutant: details are looked up for what is in the rucksack alone.        *)
RucksackDetails ==
  [p \in Pieces |->
     IF p \in Inventory THEN [left |-> wear[p], born |-> minted[p], lore |-> teaches(p)]
                        ELSE [left |-> Unset, born |-> Unset, lore |-> Unset]]

(* What the progress record says of a stack.                               *)
details_of ==
  [p \in Pieces |-> [left |-> wear[p], born |-> minted[p], lore |-> teaches(p)]]

(* A detail lands on whatever stack came back to its square.               *)
FromDetails(items, details, field, unset) ==
  [p \in Pieces |->
     IF \E i \in DOMAIN items \cap DOMAIN details : items[i] = p
       THEN details[CHOOSE i \in DOMAIN items \cap DOMAIN details : items[i] = p][field]
       ELSE unset[p]]

(* Mutant: the moment a stack began to expire does not come back.          *)
StampedAnew(items, details) == AllUnset

RestoredStamps(items, details) == FromDetails(items, details, "born", AllUnset)

restore_items ==
  LET items   == shelf.items
      details == shelf.progress.details
  IN  /\ rack' = [i \in Slots |-> IF i \in DOMAIN items THEN items[i] ELSE Nobody]
      /\ wear' = FromDetails(items, details, "left", AllUnset)
      /\ minted' = RestoredStamps(items, details)
      /\ taught' = FromDetails(items, details, "lore", AllUnset)
      /\ learned' = shelf.progress.recipes
      /\ \E ids \in [Teachers \cap Range(items) -> Lore] :
           by_id' = [p \in Teachers |-> IF p \in Range(items) THEN ids[p] ELSE Unread[p]]
      /\ phase' = "restored"
      /\ UNCHANGED truth

expire_items ==
  /\ rack' = [i \in Slots |-> IF rack[i] \in Expired THEN Nobody ELSE rack[i]]
  /\ minted' = [p \in Pieces |-> IF p \in Expired THEN Unset
                                 ELSE IF p \in Lasting THEN Began(p) ELSE minted[p]]
  /\ truth' = [truth EXCEPT
                 !.born = [p \in Pieces |-> IF p \in Lasting /\ @[p] = Unset
                                            THEN clock ELSE @[p]]]
  /\ UNCHANGED <<wear, taught, by_id, learned, phase>>

Entry(field, value, paired) == [field |-> field, value |-> value, paired |-> paired]

(* The rucksack, and then the details; what has not changed is not sent.   *)
record(new) ==
  LET items    == new.items # shelf.items
      progress == new.progress # shelf.progress
  IN  /\ shelf' = new
      /\ pipeline' = pipeline
           \o (IF items THEN <<Entry("items", new.items, FALSE)>> ELSE <<>>)
           \o (IF progress THEN <<Entry("progress", new.progress, items)>> ELSE <<>>)

KeepTick ==
  /\ phase # "away"
  /\ pipeline = <<>>
  /\ IF phase = "playing" THEN restore_items ELSE expire_items
  /\ LET layout == stored_layout(rack', parked)
         details == [i \in DOMAIN layout |-> details_of'[layout[i]]]
     IN  record([items |-> layout,
                 progress |-> [details |-> details, recipes |-> learned',
                               truth |-> truth']])
  /\ UNCHANGED <<parked, island, clock, archive, refused, torn, sessions, kit>>

Pass ==
  /\ clock < MaxTime /\ pipeline = <<>>
  /\ clock' = clock + 1
  /\ UNCHANGED <<rack, parked, maps, learned, island, phase, store, truth, torn, sessions, kit>>

-----------------------------------------------------------------------------
(* Connections, the writer and a crash.                                    *)

GoneWith(record_) ==
  /\ phase' = "away"
  /\ rack' = [i \in Slots |-> Nobody] /\ parked' = Nobody
  /\ wear' = AllUnset /\ minted' = AllUnset /\ taught' = AllUnset
  /\ by_id' = Unread
  /\ learned' = {}
  /\ truth' = record_.progress.truth
  /\ UNCHANGED <<island, clock, sessions, kit>>

(* What a player did since the last tick goes with the session.            *)
KeepLeave ==
  /\ phase # "away"
  /\ GoneWith(shelf)
  /\ UNCHANGED <<store, torn>>

KeepJoin ==
  /\ phase = "away"
  /\ sessions < MaxSessions
  /\ sessions' = sessions + 1
  /\ phase' = "playing"
  /\ UNCHANGED <<rack, parked, maps, learned, island, clock, store, truth, torn, kit>>

(* The database takes a record or refuses it; a refusal is logged and the  *)
(* writer goes on with the next one.                                       *)
KeepWrite ==
  /\ pipeline # <<>>
  /\ \/ /\ archive' = [archive EXCEPT ![Head(pipeline).field] = Head(pipeline).value]
        /\ refused' = refused \ {Head(pipeline).field}
     \/ /\ refused' = refused \cup {Head(pipeline).field}
        /\ UNCHANGED archive
  /\ pipeline' = Tail(pipeline)
  /\ UNCHANGED <<rack, parked, maps, learned, island, phase, clock, shelf, truth,
                 torn, sessions, kit>>

KeepCrash ==
  /\ GoneWith(archive)
  /\ shelf' = archive /\ pipeline' = <<>>
  /\ torn' = (torn \/ refused # {} \/ (pipeline # <<>> /\ Head(pipeline).paired))
  /\ refused' = {}
  /\ UNCHANGED archive

KeepInit ==
  /\ rack = [i \in Slots |-> Nobody] /\ parked = Nobody
  /\ wear = AllUnset /\ minted = AllUnset /\ taught = AllUnset /\ by_id = Unread
  /\ learned = {} /\ island = Unset
  /\ phase = "away" /\ clock = 0 /\ sessions = 0
  /\ shelf = NothingKept /\ pipeline = <<>> /\ archive = NothingKept
  /\ truth = NothingTrue /\ refused = {} /\ torn = FALSE
  /\ kit \in Kits

KeepNext ==
  \/ \E p \in Pieces, lore \in Lore : Obtain(p, lore)
  \/ \E i, j \in Slots : MoveStack(i, j)
  \/ \E i \in Slots : Park(i)
  \/ Unpark
  \/ \E p \in Durables : wear_held(p)
  \/ Mend
  \/ \E p \in Scrolls : learn_recipe(p)
  \/ \E p \in Deeds : learn_home_title(p)
  \/ KeepTick
  \/ Pass
  \/ KeepLeave \/ KeepJoin
  \/ KeepWrite \/ KeepCrash

KeepFairness == WF_keep_vars(KeepTick) /\ WF_keep_vars(KeepWrite)

KeepSpec == KeepInit /\ [][KeepNext]_keep_vars /\ KeepFairness

-----------------------------------------------------------------------------
(* Properties.                                                             *)

(* However its stack was moved, parked or minted anew, a tool is as worn,  *)
(* a stone as old and a scroll or a deed shows what it did, over sessions  *)
(* and over restarts.  Only a restart that finds records of two ticks can  *)
(* mix the details up: after a crash between the two, or while the last    *)
(* write of either was refused.  (What the tooltip of a deed shows is not  *)
(* what reading it gives, though lib.rs says that it is: learn_home_title.)*)
DetailsFollowTheirStack ==
  Here /\ ~torn =>
    \A p \in Owned :
      /\ p \in Durables => wear[p] = truth.left[p]
      /\ p \in Stones   => minted[p] = truth.born[p]
      /\ p \in Teachers => teaches(p) = truth.lore[p]

(* A stone in the rucksack goes when its time is up, counted from the      *)
(* first session it was in: neither a reconnect nor a restart gives it     *)
(* another day.                                                            *)
Overripe(p) == /\ Here /\ ~torn
               /\ p \in Inventory \cap Stones
               /\ truth.born[p] # Unset
               /\ clock + HEAD_START >= truth.born[p] + LIFETIME
StonesExpire == \A p \in Stones : Overripe(p) ~> ~Overripe(p)
=============================================================================
