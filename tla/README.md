# A formal model of the SkySaga server

TLA+ modules, TLC configurations and TLAPS proofs for the server in `src/`: a
rewrite in Rust of the servers of SkySaga: Infinite Isles. One process runs a
web API, a login server, a chat server and a game server over one shared state;
the game server speaks RakNet to the game's own client, which believes what it
is told and cannot be repaired when it has been told wrong. Most of what can go
wrong is therefore about *bookkeeping over time*: which stack is in which
square, which entity has which id, what the client has been told, what has been
written down, and who a connection belongs to.

## The system

| Component | State | Operations | Interacts with |
|---|---|---|---|
| inventory model (`skysaga-world/src/inventory.rs`) | `slots`, `items`, `limits`, `next_entity_id` | open, close, give, create_loose(_with_id), collect, detach, consume_loose, transfer_to_slot, swap, transfer_all, destroy, equip, unequip | returns *effects* to the session |
| session (`skysaga-game/src/lib.rs`) | an inventory model, drop squares, inbox, crafting queues, hotbar, learned recipes, wear, what was last recorded | one handler per client packet; `apply` turns effects into packets; `restore_*` and `*_to_record` | game loop, world |
| game loop (`skysaga-game/src/server.rs`) | `sessions`, `bodies`, `destinations`, `adventures`, `next_entity_id` | `tick`: drain, commands, restores, records, expiry, snapshot | RakNet, shared state, world |
| world (`skysaga-game/src/world.rs`) | terrain edits, devices, floor drops, dead creatures, portals, title, behind one lock | drop_item, take_floor_drop, mark_dead, set_block, place | every session in it |
| shared state (`skysaga-state`) | accounts, characters, inventories, mail, hotbars, progress, blocks, devices, photos, reservations, commands | setters that change memory under a write lock and then record a `Change` | all servers; the sink |
| store (`skysaga-store`) | an unbounded channel, SQLite | `record`, the writer task's `apply`, `load` at start | shared state |
| web (`skysaga-web`) | none of its own | conductor, characters, sign-in, photos, admin, debug | shared state |
| auth (`skysaga-auth`) | none of its own | one login per connection | shared state |
| chat (`skysaga-chat`) | connected clients, channels | greet, join, say, whisper, `/give` | shared state's command queue |
| codec (`skysaga-proto`), values (`skysaga-core`), data (`geodata.rs`, `definitions.rs`, `skysaga-datapc`) | none | pure functions | everything |
| transport (`raknet`, `raknet-sys`) | a native library | send, receive | game loop |
| tools (`skysaga-probe`, `skysagactl`, `launcher`) | none of the server's | | |

What is hard about it:

* **Interleaving.** HTTP handlers, login handlers and the game thread change one
  `AppState`. Every setter releases the lock before it records.
* **Ordering.** The client draws what it is told in the order it is told. A tick
  carries out packets, then commands, then restores, then records, and a player
  can get something before the restore and leave before the record.
* **Ids.** Every session mints entity ids from an allocator of its own that is
  kept in step with the server's by hand.
* **Partial results.** A stack can fit in part. Callers read "some effects" as
  "it worked".
* **Failure.** A failed write is logged and forgotten; a crash loses what is in
  the channel; a connection that times out may live on beside its successor.

What makes each component correct:

* inventory: nothing is lost or doubled by moving, no stack in two squares, no
  square without its stack, no id twice, limits respected when stacks grow;
* sync: the client never sees a dangling or doubly announced entity, and ends up
  with the server's picture;
* drop squares and floor: a thing is in one place, and somebody can reach it;
* shared world: whoever is in it sees it, whenever they came; no block is had
  twice, and the store has the island as it stands;
* crafting: what is made was paid for, and a craft that is finished is announced;
* mail: an attachment that was written down is not lost, a message is drawn
  with what is attached, and no two are taken for one another;
* item details: a tool stays as worn and a stone as old as it is, whatever square
  it is in and however often its stack is minted anew;
* accounts: a connection is who made it, in the world it set off for;
* chat: what is said is heard, by everyone in the same order;
* codec: a packet is read as it was written, or not at all;
* the screen: hotbar, hearts and tasks are what the session has;
* game loop: ids are unique across sessions, a record never erases what was not
  used up, a restore gives back what there was, every player is served;
* shared state and store: the store follows memory, in order, whatever fails.

## The modules

| Module | Models | State and actions |
|---|---|---|
| `Inventories` | `inventory.rs` | `slots` is flat, from squares `<<owner, index>>` to ids; one action per method. `effects` is the returned `Vec<Effect>`. `transfer_all` is a loop and goes through `task`, one action per branch of its body. `named` is history: every id the model has ever held. |
| `InventorySync` | `Session::apply`, `packet_for`, the client | Extends `Inventories`. `Operate` is any operation followed by turning its effects into packets *from the state after the whole operation*; `Deliver` hands one to the client, whose entity table is `known` and whose drawn slots are `view`. The packet that is not sent, for an effect whose stack is gone, is `NoPacket`, which the client ignores. |
| `Belongings` | the handlers for the drop squares and the floor | Extends `Inventories`. `drop_slots` and `floor` name the stacks that are in no square. A handler that changes the inventory more than once (repair, dismantle, pickup) goes through `pending`, and nothing else happens meanwhile. `OtherDrops` and `OtherCollects` are the other players of the world. |
| `WriteBehind` | what the store promises | The abstract specification: `stored` follows `now` through the states it was in, `behind` is the way it has to go. |
| `Persistence` | `AppState`'s setters, the channel, the writer task, SQLite, restart | A thread's handler is two actions: the change under the lock, and `Record`, after it. `ensure_character` is two locks, hence two actions. `memory` and `db` have the same shape; "documents" stand for the seven kinds of thing kept whole under a key. |
| `GameServer` | `server.rs` and the restore/record half of a session | `phase` is how far a tick is, `todo` which sessions the current loop has yet to visit. A rucksack is a set of ids; the shared state keeps only how many. Sessions carry their own allocator, `next`. |
| `SharedWorld` | `world.rs`, and what sessions and the server tell clients of it | One action per stage of the handshake and per thing a player does to the world. `known` is what a client holds, `queue` what a session has yet to tell the others; `Handled` is what follows every packet. Each world has its own devices, creatures, drops, dead and title. |
| `Mailbox` | the mail handlers, `restore_mail`, `mail_to_record` | One player's `mailbox` over sessions (`Join`, `Enter`, `Leave`), ticks (`Tick`: give back, then write down), the writer (`WriteOne`: the database takes a change or refuses it) and crashes (`CrashAndRestart`). `told` is what the client knows, `dangled` that the last it was sent named something it did not know, `disk` what the database has taken, `offered` the last rucksack it was given. A uuid stands for the first message that has it (`Named`), as in `mail()`. |
| `Workbench` | the crafting handlers, `crafting_announcements` | `crafting` is a queue to a station, `pockets` the rucksack's squares. `accepted`, `delivered`, `spoiled` and `finds` are history, for the books to balance. |
| `Keepsakes` | what a stack carries besides name and count, the progress record | `wear`, `minted` and what a scroll or deed `teaches`, by stack; `details_of` lays them out by square. `KeepWrite` is a record the database takes or refuses, and `refused` those whose last write it refused. `truth` is history: what a piece really went through. |
| `Island` | blocks, devices, lids and windows; their record and restart | Terrain is one axis of one chunk, `placement_voxel` a sum in a machine word. `stored`, `pipeline` and `disk` are the shared state, the channel and the database. `terrain` is what each client holds. |
| `Accounts` | login, sign-in, characters, conductor, line and connections | One action per request, per packet and per arrival. `line` is the order in which clients were sent to the game server, `reservations` the code's own; `heading` and `chosen` are what each client meant. |
| `Chat` | `skysaga-chat` | A task to a connection, cut where it waits: reading, enrolling, relaying to one member after the other under the lock. `writers` are the unbounded channels to the sockets, `screen` what a client has drawn. |
| `Hud` | hotbar, hearts, tasks, toasts | `session_hud` and `screen_hud` are the two copies, `asks` and `answers` the packets between them. |
| `Wire` | `skysaga-proto`, `ClientPacket::parse` | Each packet has the order it is written in and the order it is read in; each form of field a writer and a reader of its own. `body` is what was sent, `read` what came of it, `cut` the bytes that were lost. |
| `Facts` | | Lemmas that the proofs of several components rest on: numbers, queues, sums, folds, ranks. |
| `InventoriesProofs` | | The theorems about `Inventories`: squares, ids, what moves conserve; and about `Belongings`: the floor, the drop squares, the stored layout, what a repair is paid with, that nothing is doubled. |
| `GameServerProofs` | | The theorems about `GameServer`: ids, who is served, and what is written down. |
| `WorldProofs` | | The theorems about `SharedWorld`: what is seen; and about `Island`: what is written down, had, and opened. |
| `RuntimeProofs` | | The theorems about `Persistence`: documents settle, and the store follows memory; about `Chat`: everybody hears one order; and about `Workbench`: the books balance. |
| `RecordsProofs` | | The theorems about `Accounts`: who arrives, and where; and about `Keepsakes`: details follow their stack. |
| `InventorySyncProofs` | | The theorems about `InventorySync`: what the client is shown, and what it ends up with. |
| `PlayerProofs` | | The theorems about `Hud`: what the screen settles on, and the saved hotbar; and about `Mailbox`: what the client is told, and what is written down. |
| `MC*` | | Constants for TLC, and the composition of modules that share a run. |

`MCClient`, `MCPlayer`, `MCRecords`, `MCRuntime` and `MCWorld` put two to four
modules side by side: what they model is different state of the same processes
that does not meet, so a run is in one `part` from its initial state on and the
others stay as they began. Their specifications say for each part what is said
in its module, fairness included; the products of independent parts, which would
show nothing more, are not explored.

Mutants stand just before what they mutate, marked `Mutant`: each is the
definition with one plausible mistake, and the property it is paired with in
`PROJECT.json` fails when it takes the definition's place.

### What is abstracted

* In `Inventories` an item is a name and a count. Wear, materials, uuids,
  lifetimes and recipes an item teaches never decide where a stack goes; they
  are in `Keepsakes`.
* In `GameServer` an item is only an id. What a stack holds matters in
  `Inventories`; what matters here is how many stacks there are, which are new,
  and what ids they have. A message is one id there, though the code gives its
  container and attachments an id each from the same allocator.
* Adventure worlds are left out of `GameServer`; the id of the title of a world
  that is opened is one more step of the same counter.
* In `SharedWorld` a swing lands on any creature of the world that is alive:
  what is armed, how far away it is and what the loot table says are the choice
  of which swings there are. A drop is one thing, though it is a pickup and a
  stack.
* `Island` has one axis of one chunk; the other two and the neighbouring chunks
  are the same arithmetic. The worlds behind portals are left out.
* `Keepsakes` and `Workbench` treat the rucksack as squares and piles of their
  own; that stacks merge and split is `Inventories`'. A player of `Keepsakes`
  does something only when the writer has caught up: what a tick has sent cannot
  change any more, and a crash undoes what the player did since (`Free`).
* `Accounts` has one client to an account, all behind one address. `Orderly`
  says that clients arrive in the order they were sent and `ResetsWhilePlaying`
  that a character may be reset under its player; the run takes the first to be
  true and the second false, which is where the code says it is right.
* `Chat` leaves out what is answered and changes nothing (PING, MODE, CTCP).
  The client is external; `Settled` are the connections that have joined before.
* `Hud` leaves out the uuid of the stack a binding points at: the client is told
  the item, and any stack of it will do.
* `Wire` sends every packet that has both an encoder and a decoder, with a
  handful of values for each form of field: the ends of its range, the list
  lengths around a default, and words whose bytes are all different. A text is
  "long" from 3 bytes on instead of 255 (`MAX_SHORT_STRING`), and a list's
  default is 2 where it is 32 (`TaskListDefault`).
* `Persistence` treats names, biomes and appearances as one value, the
  character, since that is what is recorded.
* Salvage draws what a repair costs and a dismantle returns from the recipe, the
  wear and a seed; `Belongings` takes any result from a given set.

### What is external

The client's handling of `EntityAdd`, `EntitySync`, `EntityRemoved` and RakNet's
ordered channel (`Receive`, `Deliver`) are not in the repository. They are what
the comments on `apply`, `packet_for`, `sync_mailbox` and `next_entity_id` say
the client does: a slot list that names an unknown entity draws an empty square,
a second `EntityAdd` destroys the entity and builds another.

## The runs

| Run | What it shows | Bounds |
|---|---|---|
| `inventories` | all operations: no square without its stack, no stack in two squares, moving conserves, "take all" ends and is thorough | 2 + 2 squares, one kind of item, 3 ids, stacks of 2 with a limit of 3 that the table lowers to 1: every merge is a partial or a full one |
| `client` | the client's picture of the inventories; the screen agrees with the session; packets are read as written; over the ticks of the game loop ids minted by sessions never meet, every player is served before a tick records anything, the record is what they have and erases nothing | 3 + 2 squares, 2 ids, operations wait while more than one packet is on the way; 2 hotbar squares, 3 packets, 2 sessions; up to 6 bytes lost; 2 connections and 2 accounts, one live session of each, 2 new stacks or messages, 2 reservations |
| `player` | parked, dropped, repaired and dismantled things; the inbox | a hand and one rucksack square, so that it is full at once, and 4 ids; an inbox of up to 2 messages, a rucksack of one square, 6 ids over sessions and restarts: in the part `mail` 2 attachments of which one wears, every message with something in it, an inbox refused only for a repeated uuid; in `letters` one attachment, messages with nothing in them, so that a third may follow a delete, and any write refused |
| `records` | the store implements `WriteBehind` when one thread changes things; who arrives where; details stay with their stack and stones expire | 2 accounts, 2 documents, 5 changes; 2 clients, 5 arrivals; 2 squares, 3 kits, 2 sessions, a lifetime of 2, one of the two records refused at a time |
| `runtime` | documents settle despite races, failures and restarts, and the channel drains; chat; crafting | 2 threads, 4 changes, 1 failure; 4 connections of which 2 talk and 1 may go; 2 stations, 2 recipes, 2 squares, 6 things found, a clock to 5 |
| `world` | a client past its burst sees the players and the things of its world; deaths are seen; blocks, devices, lids | 3 connections in 2 worlds, 1 creature the worlds are built with, 1 thing made later; 2 players, 2 voxels, 2 changes, 1 restart |
| `partial`, `race`, `ids`, `early`, `edits`, `letters` | disagreements, below | |

The bounds are as small as they can be with every branch still taken: three ids
are what a partial merge into one stack with another to spare needs; two
sessions are what a collision needs, and what a player and the successor of a
session that ended need; three connections in `world` are one that acts, one
that watches and one that comes late; four in `runtime` are two that talk, whose
lines may cross, and two that hear them, of which one may go. Two changes of the
island are a block and the device, or the edit, that meets it. What the
environment does is bounded by the constants that begin with `Max`;
`MaxEntityId` and `MaxReservations` stand for bounds the code has too.
Where a run switches the deadlock check off the environment has used up what it
may do, or the player has nothing left to do anything with.

### Fairness

* `TransferAllStep` is weakly fair: it is a loop in a function that has been
  called. Nothing else in `Inventories` has to happen.
* `Write` and `Record` are weakly fair: the writer task runs until the process
  ends, and a handler that has released the lock reaches the next line.
  `Restart` may still happen at any time, and empties the channel.
* In `Chat` each connection's task goes on with the line it has read (`Serve`),
  each writer writes what it has been handed (`WriteLine`), and the game loop
  takes its commands: tasks of a multi-threaded runtime, and a lock whose holder
  never waits for anything but the lock. Clients need not read or say anything.
* `crafting_announcements` is weakly fair, and so are the expiry and the records
  of a tick (`KeepTick`) and the writer (`KeepWrite`): the game loop does not end.
  Time need not pass.
* Of the phases of a tick nothing is assumed. `drain` returns only when the
  socket has nothing to read, and no code bounds how long that takes: a client
  that never pauses keeps everybody from being served. `PlayersAreServed` is
  therefore a statement about what a tick has done by the time it records, not
  about whether it comes to that.

### What the runs disagree with

1. `race`: two threads that change one character, a reset over HTTP and an
   update from the game loop, may record in the opposite order. The store ends
   with the older change. The documentation promises the opposite.
2. `edits`: a block one player digs or places is not seen by another, neither
   when it happens nor by who comes later, and not by the digger after a
   reconnect: the world has the edit, the clients are not told. The tests say
   the holes are seen by everybody; README.md:313 of the repository says edits
   are per session, which is no longer so either.
3. `ids`: `restore_inventories` mints from an allocator that is not in step.
   `restore_mailboxes` right after it repairs the server's allocator
   (`AllocatorCaughtUp` is proved), so the collision needs another session to mint
   between this session's last packet and the restore, in one tick; it is then
   permanent.
4. `early`: something given before the restore makes the stored rucksack go.
5. `partial`: a stack of which only part fits in the rucksack loses the rest,
   whether it comes off a drop square or off the floor.
6. `letters`: a message's uuid is made from the length of the inbox, so the one
   composed after a delete may get the uuid of one that is still there (compose
   two, delete the first, compose a third). `announce_attachments` takes a uuid
   and finds the first message that has it: the older container is announced a
   second time, which the comment on `mail` in `server.rs` says must not happen,
   the new one never, and the next mail list names it. A restore of two such
   messages goes wrong the same way. No such restore comes from the database: its
   table has the uuid in its key and refuses the whole inbox, which is logged,
   and nothing of that inbox is written until one of the two is deleted
   (`CanBeWritten`).

What changed in the drain in which a player leaves is lost as well: `drain`
removes the session before the records of the tick are made. The loss is one
the documentation accepts for a crash, so it is a hazard in the list and not a
disagreement.

`RecordIsCurrent` and `RecordErasesNothing` are checked under two assumptions
that 4 and the overlap of a timed-out session with its successor would break:
nothing is given before the restore (`Early`), and an account has one live
session at a time (`Overlap`). What the same run checks of ids, and of who is
served, is proved without either. `InboxNeverDangles` is checked of inboxes that
repeat no uuid, which is what 6 is about.

One more disagreement is in the model and has no run. Reading a title deed gives
the island the title that this session's id of the stack picks
(`learn_home_title` in `Keepsakes`), while the tooltip shows the one the deed was
stored with (`teaches`): after a reconnect they may differ, although
`lib.rs:5343` says the title "is the deed's own, the one its tooltip shows".
`DetailsFollowTheirStack` is about what a deed shows.

`SharedWorld` shows four things no property asks for, since they are not so. A
creature the island was built with is sent to later players after it was killed,
from the frozen entity list, although the comment on the set of the dead says a
joiner must not be sent it (`Burst`). A creature the mob command makes is told
to the others after its player's next packet, and in the world that player is
in (`Mob`). A pickup is removed for its collector only (`CollectPickup`). And a
player who arrives while another is in the handshake is told to that client
twice, by the announcement and by the burst.

## The proofs

Every theorem is for all values of the constants that the assumption of its
module allows. Two assumptions are about data the code takes as it comes:
`EachMaterialOnce` (a recipe of the workbench lists a material once) and
`EachComponentOnce` (so does the cost of a repair). Nothing in the code insists
on either, and the code relies on both, since it checks each line of such a list
by itself; only `BooksBalance` and `RepairsPaid` use them.

`Facts` is what several components needed. The provers know no induction over
data, so it is argued from a least counterexample in the naturals (`LeastIs`,
`CountingUp`). A sum over a finite function is as many pairs of an argument and a
number not above its value (`ColumnsSplit`, `SumOfColumns`), from which follow
what one change, one more argument, two functions added or a renaming do to it
(`SumChanges`, `SumOverMore`, `SumAdds`, `SumRenamed`). A fold over a sequence is
the value its equation has once there is a solution (`FoldHasValue`). The last
one said in a queue of a place is what its writing leaves there (`LatestOfAppend`,
`LatestOfConcat`, `LatestOfTail`).

`InventoriesProofs` proves, for every set of owners, names, sizes, limits and
ids the assumption `InventoriesAssumption` allows:

* `TypeCorrect`: `TypeOK` is an invariant;
* `SlotsNameLiveStacks`, `StacksAreNotShared`, `AllocatorStaysAhead`: the three
  structural invariants;
* `IdsAreNeverReused`: no id ever comes to name a second stack;
* `NothingIsMadeOrLost`: `MovesConserve`, how many there are of a thing changes
  only when the game hands one out or one is used up.

None of the three structural invariants is inductive alone. A stack that is
minted is new to every square only because the allocator is ahead of every id
held *and* squares name only ids that are held; a stack that is removed leaves
no square behind only because no other square names it; and a "take all" in its
second half relies on the square under its cursor being occupied. The inductive
invariant is therefore the conjunction of the four with the state of the cursor
(`CursorSafe`). `Init` establishes it, `[Next]_vars` preserves it with one lemma
per family of actions, and the theorems follow by temporal reasoning. The action
property needs one step more: what a step adds to `items` is either an id at or
past the allocator, or an id the caller brings that is new or already held.
What a move conserves is a sum over the stacks. A move leaves every stack as it
is, or lets two of one name share what they had (`Shares`): a split shares with
a new one, a merge with one that is there, and a merge that fits whole leaves the
other with nothing (`SplitShares`, `MergeShares`, `CollectShares`). Two stacks
that share keep the sum (`SharedConserves`), and a "take all" is one of these in
each step of its loop.

Of `Belongings` the same module proves, for every rucksack, recipe and cost, and
however many drops there are:

* `BelongingsAreApart`: what is parked, on the floor or in the hand of a pickup
  is in no square and in none of the other places (`BelongingsInv`);
* `TheFloorIsAsAnnounced`: `FloorIsAsAnnounced`;
* `TheLayoutForgetsNothing`: `NothingIsForgotten`;
* `RepairsPaid`: `RepairsArePaid`;
* `NoSecondOne`: `NothingIsDoubled`.

Its invariant adds to that of `Inventories` where everything is that is in no
square. Each handler calls an operation of `Inventories` and moves one stack, so
what the operations do to *other* loose stacks is proved once: nothing
(`LeavesLoose`, `Operates`), the one it is called for excepted. Hence a handler
has to answer only for the stack it moves, and `OperatingKeepsInv` does the rest
for all that put nothing on the floor. That a drop on the floor is never minted
over needs the allocator to be past its id (`FloorIsApart`), which is what
raising it past the other players' drops before each packet is for (`OtherDrops`).
The stored layout follows
from the invariant alone: what is parked is in no square, so it takes free ones,
one each in their order, and that the r-th free square exists when there are r is
`FirstRanks`.

A repair is paid one stack at a time, and the property speaks of every moment in
between: what is left of the cost is covered by what is carried. It is kept
because using up a stack takes the same from both (`CostsInv`), and because no
two lines of a cost name one component (`CostsAreApart`). Nothing is doubled
since each stack is in one place at most (`ReachInv`): what can come into
somebody's hands is then a sum over ids, of what the place an id is in says it
has (`ReachAddsUp`), and a handler that takes a stack from a square to the floor
changes where its summand is found and not what it is. Each handler is shown to
change only the summands of the stack it was called for and of those it merged
into.

`GameServerProofs` proves, for every set of connections and accounts and every
bound, with sessions of one account overlapping and stacks given before the
restore or not:

* `TypeCorrect`: `ServerTypeOK` is an invariant;
* `IdsAreMintedOnce`: ids that sessions mint never meet, the stacks a restore
  minted apart;
* `AllocatorCatchesUp`: whenever packets or commands are handled the server's
  allocator is past all there is;
* `EveryPlayerIsServed`: `PlayersAreServed`.

The last is about the loops of a tick alone: whoever a loop has passed is due
nothing (`ServedSoFar`), and between the first restore and the last record nobody
comes to play. The other two need each other. An id a session mints is new to
everyone because the server's allocator is past everything others hold
(`ServerAhead`) and the session's is raised to it first; but the server's allocator is *not* past what
the restore of a rucksack has just minted. `CatchingUp` says of whom that may be
true: a player whose inbox the next loop of the same tick has yet to restore.
That such a player is indeed still due its inbox is `RucksackFirst` and the part
of `Sound` by which an inbox is never restored before the rucksack; that nobody
is left when the socket is read again is `LoopsAreOver`. A step that replaces
one session by another is covered once, by `Follows`: each handler is then shown
to make only such a replacement.

Of what is written down the same module proves:

* `RecordsAreCurrent`: `RecordIsCurrent`, assuming `~Overlap`;
* `RecordsEraseNothing`: `RecordErasesNothing`, assuming `~Overlap` and
  `~Early`.

The assumptions are hypotheses of the theorems, not of the model: the run
`early` shows what happens without the second. A session decides whether to
write by comparing with what it wrote last, so what it remembers has to be what
is written (`Remembered`), which is so only as long as no other session writes
the same account's (`OneEach`); with that, each visit of the loop makes the
shared state current (`Written`). Nothing is erased because a session has no
stack before its restore (`NothingBefore`), is given at least what is written by
it, and then falls below it only by using something up (`NotLess`).

Of `SharedWorld`, `WorldProofs` proves, for every number of connections, worlds, creatures
and things:

* `TypeCorrect`: `TypeOK` is an invariant;
* `PlayersAreSeen` and `TheWorldIsSeen`: what a client past its burst holds;
* `DeathsAreSeen`: the action property `DeathIsSeen`.

A client learns of a thing by what was sent when it was made or by the burst, so
the invariant is `WorldIsSeen` for all clients at once, with two facts added:
whoever is not connected holds nothing (`Absent`), and a thing is one thing, so
that removing a dead creature or a collected drop takes nothing else away
(`OneThing`). `Handled` is treated once (`HandledPlayers`, `HandledThings`);
each action shows that what it sends is what it changed.

Of `Island` it proves, for any number of players, voxels and changes, and however
often the process restarts:

* `WrittenDownAlways`: `IslandIsWrittenDown`;
* `NothingIsHadTwice`: `NoBlockIsHadTwice`;
* `OneKey`: the action property `OneKeyOpens`.

The first compares the island with what a restart would read once everything
underway is written. A place has two *slots*, what stands there as a block and
as a device, and both are treated at once: the invariant (`IslandInv`) says of
each slot that the last that was said of it, of what is not drained yet after
what is in the channel after what is on the disk, is what the island has there
(`BlocksFollow`, `DevicesFollow`, `Reaches`). A drain and a write move what was
said along and leave the last of it the last. A restart takes the island back to
the disk and forgets what was said; the devices get new ids, one for each place
on record, so the last said of each place is what the record says.

Of a block the sum is of what stands, lies about and is carried. A dig takes one
that stands and drops at most one, a block that is placed is taken from the hand
before, and a place that had another loses it (`OneBlock`, `OneCarried`); of the
bag it is a sum over the players. After a restart the floor is gone and bags are
recorded elsewhere, so the property is about one life of the process.

A press of the key closes one panel and opens another, and the client shows what
the syncs say one after the other (`ShownOne`, `ShownTwo`). One press is enough
because what the session thinks is open is what the client was told last, and
that shows unless it was shut at the client, which a loot chest cannot be
(`PanelsAgree`).

Of `Persistence`, `RuntimeProofs` proves, for every set of threads, accounts, characters,
documents and values:

* `StoresAreTyped`: memory, the database, the channel and the handlers keep
  their types;
* `DocumentsAreSettled`: `DocumentsSettle`, for any number of HTTP handlers,
  failed writes and restarts, assuming one game thread;
* `StoreFollowsMemory`: `Init` is one of `WriteBehind`'s and every step is one of
  its steps or a stutter, assuming that one thread makes all the changes, that no
  write fails by itself and that there are no photos (the one setter that does
  not ask for the account it writes under).

That the channel is empty says nothing of how it came to be, so the first is
proved from where the last change of a document is: in the hand of a thread
(`InHandIsLatest`), in the channel (`QueuedIsLatest`), or written or refused
(`WrittenIsLatest`), and wherever it is it says what memory says. Two threads
that write one document would break the first part; the hypothesis is what the
code has, for only the game thread writes documents, and characters, which
others write too, do not settle (the run `race`). The refinement rests on
`Chain`: the states memory has been in since are what comes of applying to the
database, one by one, what is in the channel and in hand, and SQLite accepts
each of them where it stands, so no write is refused and none is skipped.

Of `Accounts`, `RecordsProofs` proves, for any number of clients that the line has room for:

* `AccountsAreTyped`: every variable keeps its type;
* `LineIsKept`: the inductive invariant, `AInv`;
* `PlayersArriveAsThemselves` and `PlayersArriveWhereSent`: `ArriveAsThemselves`
  and `ArriveWhereSent`.

All but the first assume `InOrder`: anybody may sign in, clients connect in the
order they were sent, no character is reset under its player, and there are at
most `MAX_RESERVATIONS` clients. The last is what makes the line never drop the
oldest (with one account to a client); the second is what the code says of itself
("This is ordering, not identity"). Under these the reservations *are* the
clients on their way (`LineIsTheWaiting`), so that the head of the one is the
head of the other. That gives a connection the right account; that it also plays
the right character needs the character on record to be what the client chose
(`AsChosen`), through a session that learns of it one property at a time
(`Tells`), and the right world needs a destination to be kept just as long as
its client is on the way (`BoundForHeading`).

Of `Keepsakes` it proves, for every rucksack and every set of stacks:

* `KeepsakesAreTyped`: every variable keeps its type;
* `RecordsBelongTogether`: the inductive invariant, `KeepInv`;
* `DetailsFollow`: `DetailsFollowTheirStack`.

Nothing is assumed: a restart that finds records of two ticks, after a crash
between them or because the last write of one was refused, sets `torn`, and the
properties say what is so until then. The details of a stack are kept by
square, so they are right only together with the layout of the same moment. The
invariant says so of the shared state (`Whole`), and follows the pair through the
channel (`OnTheWay`): of a record that is not underway the database has what the
shared state has unless it refused just that one (`UpToDate`), and as long as it
has refused neither it is whole at every point except between the two
(`ArchiveIsWhole`). A refused record is put right by the next write of it that is
taken (`WriteBringsUpToDate`).
Of the session it says that each stack is in one place and as its details say
(`TrueTo`); a restore reads the record back square by square, which gives each
stack its own details because no two squares had the same stack.

`InventorySyncProofs` proves, for any owners, items and limits, and however many
packets are on their way:

* `PacketsSettle`: the inductive invariant, `ClientInv`;
* `TheClientNeverDangles` and `TheClientCatchesUp`: `ClientNeverDangles` and
  `ClientCatchesUp`.

Neither property is about the model's own state, so the invariant is about the
queue and the effects an operation has reported but not yet sent (`Owed`). Every
stack that is held is known, told by a packet on its way, or reported as made
before any list that names it (`HeldIsTold`); what a packet tells of it wrongly a
later one puts right (`StacksSettle`), and the same for each square
(`SquaresSettle`). A stack is only ever removed for good, and by then a new list
has replaced every list that shows it (`GoneIsHidden`), which needs where it is
shown to be where it is (`SeenIsHeld`): this is what makes the order *slots, then
removal* in `try_merge`, `destroy` and the others matter, and the packets being
built from the state after the whole operation not matter. Three lemmas carry
it: what an operation reports is honest (`Honest`, with one lemma for each
operation of `Inventories`, `OpenTold` to `TaskTold`), what is sent says what was
reported (`PacketsSay`, `SendingSettles`), and reading the first packet keeps the
rest right (`ReadingKeepsOwed`).

`PlayerProofs` proves of `Hud`, for any items, hotbar, health and number of packets:

* `HudHolds`: the inductive invariant, `HudInv`;
* `ScreenSettlesRight`, `NothingIsShownTwice` and `SavedBarIsKept`:
  `ScreenIsRight`, `ShownOnce` and `BarErasesNothing`.

`ScreenIsRight` speaks of the moment when nothing is on its way; the invariant of
all others. Of each of hearts, death, tasks and hotbar it says what the last
packet about it in the queue says, or the screen when there is none: what the
session holds (`Settles`). A client that drags or selects in its hotbar, or takes
a task off, changes its screen first, and then this is so again once the server
has heard of it (`Pending`): its answer is a packet about it too. That a death is
announced once and an item toasted once is a property of the queue as well
(`NoSecondDeath`, `NewIsNew`). The four are kept by two lemmas on queues, one for
what is sent and one for what is read, and each action shows only what it sends.
The saved hotbar is right because the session has nothing in a hand that nobody
touched until the bar is restored, and does not write before (`BarKept`).

And of `Mailbox`, for any attachments, inbox and rucksack, any bound on the
changes underway and any number of sessions and crashes:

* `MailInvHolds`: types, that every list of messages is numbered by place
  (`AllNumbered`), and that the client knows what it can be told of
  (`ClientKnows`);
* `InboxIsAnnounced` and `MessagesStayApart`: `InboxNeverDangles` and
  `UuidsAreUnique`;
* `RecordedMailStays` and `StoredMailStays`: the invariant behind
  `StoredMailIsKept`, and the property itself.

What is sent is groups of packets, and two lemmas say when one group after the
other dangles and what it tells of (`JoinGroups`, `JoinedEntities`); what a
restore sends is three of them (`RestoreTells`). An announcement is of the first
message that has a uuid, so what the client has been told of is the first of each
(`FirstsAreTold`), in an inbox that may repeat them; a list dangles only if it
has a message that is not the first, which is what `Repeats` is. A delete takes
every message of its uuid, and what was first among the rest stays first
(`DeleteKeeps`).

`StoredMailIsKept` speaks of the disk alone, and holds because of what is still
to reach it. The invariant says of each change in the queue what there was before
it is made (`BagAt`, `MailAt`, `FlagAt`): a rucksack keeps what earlier rucksacks
had (`BagGrows`), taken or refused, which is why it is told by `offered` and not
by the disk; an inbox keeps what earlier inboxes had, or a rucksack offered ahead
of it has that, or it was deleted (`StackIsKept`); a message keeps its flags
(`FlagIsKept`); and a session that was handed what was stored has everything that
was recorded (`SessionHas`). So what an inbox gives up is in the last rucksack
offered before it, and gone only if that one was refused. The rucksack being
recorded before the inbox is used in one place, where a tick adds both
(`TickKeepsKept`). Flags are compared by uuid and kept by place, which
is where `AllNumbered` comes in again. These two theorems assume `~Hasty`: a
message that is composed before the restore does replace the stored inbox, as
listed below.

Of `Chat`, `RuntimeProofs` proves, for any finite set of channels and any number of connections
and lines, whoever leaves or hangs up in between:

* `RelaysAreInOrder`: the inductive invariant, `ChatInv`;
* `EveryoneHearsOneOrder`: `OneOrderForAll`.

The order of what is said is fixed when a line is handed to the writers, so the
invariant is about what a client has been sent and will be sent together
(`Hearing`): every two of these are in one order (`InOneOrder`). For that to last,
a line that is handed over must be new to whoever gets it and not stand before
another anywhere else. The senders number their lines, so what has been handed to
somebody was sent before all that is still unread (`InboundNumbered`,
`InHandNumbered`, `SentEarlier`); and the line that is being relayed is the last
wherever it already is, because a relay holds the lock from its first member to
its last (`BeingSaid`, `Locked`). All steps but that of handing a line over say
nothing (`QuietStep`), and that one is `NewLineKeepsOrder`.

And of `Workbench`, for any goods, recipes, stations and number of squares:

* `BenchIsKept`: the inductive invariant, `BenchInv`;
* `BooksBalance`: `CraftingBooksBalance`.

The books are two sums. Every thing that was found or made is carried or was used
for a craft that was accepted (`GoodsBalance`), and every craft that was accepted
is queued, handed over or spoiled (`CraftsBalance`); the first of them needs the
second when a slot is collected. Paying for a craft is a fold of folds, over what
the recipe lists and, for each, over the squares it is taken from; that it takes
just what is listed needs that there was enough of each material when the craft
was queued, and that no two lines are of one material, so that paying one leaves
the others covered.

Model-checked only:

* `ReadsAsWritten` and `NothingIsMadeUp` of `Wire`, whose forms are recursive
  operators: the provers do without SMT where there is one, and what a recursive
  reader computes needs induction over data;
* liveness, which is out of the provers' reach: `Drains`, `SaidIsHeard`,
  `FinishedCraftsAreAnnounced`, `TakeAllIsThorough`,
  `StonesExpire`, and of `FollowsMemory` the fairness of `WriteBehind` (its
  initial states and its steps are `StoreFollowsMemory`).

`AllocatorAhead`, `IdsNeverReused` and `AllocatorCaughtUp` are proved and no
longer run.

## What no property asks for, since it is not so

Besides what is said above, seen while modelling:

* `ensure_character` looks under one lock and creates under another, so it can
  replace a character (`CreateMissing` in `Persistence`); and a character that is
  reset while its player is connected comes back with the next packet
  (`ResetsWhilePlaying` in `Accounts`).
* A message composed before the inbox was given back replaces the stored inbox,
  as in 4 (`Hasty` in `Mailbox`).
* A claim and a crash may double an attachment. One that was claimed into a
  rucksack the database refuses is gone from the database once the inbox after it
  is written, until a later rucksack is (`offered` in `Mailbox`); and a restart
  after a crash between the rucksack and the progress record, or after one of them
  was refused, may mix the details of items up (`torn` in `Keepsakes`).
* A craft collected into a full rucksack is gone, and so are the crafts of a
  player who leaves (`spoiled` in `Workbench`).
* A text of 255 bytes or more is written in a form no reader accepts
  (`Legible` in `Wire`).
* The line of reservations has names in it and not clients: two that arrive in
  the other order swap accounts (`Orderly` in `Accounts`).

## Not modelled

* **Game data** (`geodata.rs`, `definitions.rs`, `skysaga-datapc`) and the
  generation of terrain: parsing and tables, no state. What the models need of
  them is a constant.
* **Core values**: name hashing and fixed-width text, pure functions the tests
  compare with vectors of the original.
* **Packets the server only writes**, or only reads: `Wire` compares a writer
  with a reader, and there is only one of them.
* **Web requests that only answer** (lists, prices, leaderboards, photos'
  contents), JSON and HTTP, the command line, the launcher, the test client, and
  the native transport, which is taken as the reliable ordered channel it is
  asked to be.
* **Adventure worlds** have no island of their own in `Island`, and their ids
  are one more step of a counter in `GameServer`.

What would come next: the composition of `Keepsakes` with the merging and
splitting of `Inventories`, and the forms of `Wire` written as functions of
positions instead of recursive operators, so that the codec can be proved about
as well.
