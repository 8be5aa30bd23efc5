---------------------------- MODULE Persistence ----------------------------
(***************************************************************************)
(* The shared state and the store behind it (crates/skysaga-state/src/     *)
(* lib.rs, crates/skysaga-store/src/persistence.rs and sqlite.rs).         *)
(*                                                                         *)
(* Web handlers and the game thread change one AppState.  Every setter     *)
(* takes the write lock, changes memory and releases the lock; only then   *)
(* does it hand the change to the sink.  The sink is an unbounded channel; *)
(* one task takes changes from it and writes each to SQLite.  A failed     *)
(* write is logged and forgotten.  A restart loads memory from SQLite.     *)
(*                                                                         *)
(* A "document" is anything kept whole under a key: a rucksack, an inbox,  *)
(* a hotbar, what was learned, a block, a device, the title, a photo.      *)
(***************************************************************************)
EXTENDS Naturals, Sequences, FiniteSets

CONSTANTS
  WebThreads,   \* HTTP and login handlers
  GameThreads,  \* the game loop: one thread
  Accounts,
  Characters,   \* uuid, name, biome and looks, as one value
  Documents,    \* the keys documents are kept under
  Photos,       \* the documents HTTP handlers write
  Values,       \* what a document may say
  OwnerOf,      \* the account a document belongs to, or World
  World, None,
  MaxChanges,   \* how many changes threads make, all in all
  MaxFailures   \* how many writes SQLite fails by itself

ASSUME PersistenceAssumption ==
  /\ OwnerOf \in [Documents -> Accounts \cup {World}]
  /\ Photos \subseteq Documents
  /\ World \notin Accounts
  /\ None \notin Accounts \cup Characters \cup Values
  /\ MaxChanges \in Nat
  /\ MaxFailures \in Nat

Threads == WebThreads \cup GameThreads

VARIABLES
  memory,    \* what AppState holds
  at,        \* where each thread stands in its handler
  queue,     \* the channel to the writer task
  db,        \* what SQLite holds
  lost,      \* history: what the last write of failed, since the last start
  ahead,     \* history: the states of memory the store has yet to reach
  changes, failures

vars == <<memory, at, queue, db, lost, ahead, changes, failures>>

-----------------------------------------------------------------------------
(* Stores and changes. *)

Store == [accounts  : SUBSET Accounts,
          character : [Accounts -> Characters \cup {None}],
          held      : [Documents -> Values \cup {None}]]

Empty == [accounts  |-> {},
          character |-> [a \in Accounts |-> None],
          held      |-> [d \in Documents |-> None]]

AccountChange(a)      == [kind |-> "account",   key |-> a]
CharacterChange(a, c) == [kind |-> "character", key |-> a, value |-> c]
DeleteChange(a)       == [kind |-> "delete",    key |-> a, value |-> None]
DocumentChange(d, v)  == [kind |-> "document",  key |-> d, value |-> v]

Change == [kind : {"account"}, key : Accounts]
            \cup [kind : {"character"}, key : Accounts, value : Characters]
            \cup [kind : {"delete"}, key : Accounts, value : {None}]
            \cup [kind : {"document"}, key : Documents, value : Values]

(* A whole value under its key: an upsert, or a delete and an insert.      *)
After(store, change) ==
  CASE change.kind = "account"  -> [store EXCEPT !.accounts = @ \cup {change.key}]
    [] change.kind = "document" -> [store EXCEPT !.held[change.key] = change.value]
    [] OTHER                    -> [store EXCEPT !.character[change.key] = change.value]

(* What the foreign keys on accounts let through. *)
Accepts(store, change) ==
  /\ change.kind = "character" => change.key \in store.accounts
  /\ change.kind = "document" =>
       OwnerOf[change.key] \in store.accounts \cup {World}

Subject(change) ==
  <<IF change.kind = "delete" THEN "character" ELSE change.kind, change.key>>

-----------------------------------------------------------------------------
(* The handlers.  A thread between the lock and the sink is "recording".   *)

Idle            == [step |-> "idle"]
Creating(a)     == [step |-> "creating", account |-> a]
Recording(c)    == [step |-> "recording", change |-> c]

(* Under the write lock. *)
Apply(t, change) ==
  /\ changes < MaxChanges
  /\ changes' = changes + 1
  /\ memory' = After(memory, change)
  /\ ahead' = Append(ahead, memory')
  /\ at' = [at EXCEPT ![t] = Recording(change)]
  /\ UNCHANGED <<queue, db, lost, failures>>

(* A login registers an unknown account and records it every time. *)
Authenticate(t, a) ==
  /\ at[t] = Idle
  /\ Apply(t, AccountChange(a))

CreateCharacter(t, a, c) ==
  /\ at[t] = Idle
  /\ a \in memory.accounts
  /\ Apply(t, CharacterChange(a, c))

(* The character is looked up under one lock and created under another.    *)
EnsureCharacter(t, a) ==
  /\ at[t] = Idle
  /\ a \in memory.accounts
  /\ memory.character[a] = None
  /\ at' = [at EXCEPT ![t] = Creating(a)]
  /\ UNCHANGED <<memory, queue, db, lost, ahead, changes, failures>>

CreateMissing(t, c) ==
  /\ at[t].step = "creating"
  /\ Apply(t, CharacterChange(at[t].account, c))

(* A name, a biome or an appearance for the character there is.            *)
UpdateCharacter(t, a, c) ==
  /\ at[t] = Idle
  /\ memory.character[a] # None
  /\ Apply(t, CharacterChange(a, c))

DeleteCharacter(t, a) ==
  /\ at[t] = Idle
  /\ memory.character[a] # None
  /\ Apply(t, DeleteChange(a))

(* set_inventory, set_mail, set_progress, set_hotbar, set_block, ...: a    *)
(* value that does not differ is not recorded.                             *)
SetDocument(t, d, v) ==
  /\ at[t] = Idle
  /\ OwnerOf[d] \in memory.accounts \cup {World}
  /\ memory.held[d] # v
  /\ Apply(t, DocumentChange(d, v))

(* A second upload is recorded like the first. *)
SavePhoto(t, d, v) ==
  /\ at[t] = Idle
  /\ Apply(t, DocumentChange(d, v))

(* Mutants: the newest change goes first; the change goes nowhere.         *)
RecordFirst(t) ==
  /\ at[t].step = "recording"
  /\ queue' = <<at[t].change>> \o queue
  /\ at' = [at EXCEPT ![t] = Idle]
  /\ UNCHANGED <<memory, db, lost, ahead, changes, failures>>

RecordNothing(t) ==
  /\ at[t].step = "recording"
  /\ at' = [at EXCEPT ![t] = Idle]
  /\ UNCHANGED <<memory, queue, db, lost, ahead, changes, failures>>

(* The lock is long released when the change reaches the channel.          *)
Record(t) ==
  /\ at[t].step = "recording"
  /\ queue' = Append(queue, at[t].change)
  /\ at' = [at EXCEPT ![t] = Idle]
  /\ UNCHANGED <<memory, db, lost, ahead, changes, failures>>

-----------------------------------------------------------------------------
(* The writer, and a crash. *)

WriteSucceeds ==
  /\ Accepts(db, Head(queue))
  /\ db' = After(db, Head(queue))
  /\ lost' = lost \ {Subject(Head(queue))}
  /\ UNCHANGED failures

WriteFails ==
  /\ \/ ~Accepts(db, Head(queue)) /\ UNCHANGED failures
     \/ failures < MaxFailures /\ failures' = failures + 1
  /\ lost' = lost \cup {Subject(Head(queue))}
  /\ UNCHANGED db

(* Mutant: a write that fails is tried again before anything else.         *)
WriteAgain ==
  /\ queue # <<>>
  /\ \/ WriteSucceeds /\ queue' = Tail(queue) /\ ahead' = Tail(ahead)
     \/ WriteFails /\ UNCHANGED <<queue, ahead>>
  /\ UNCHANGED <<memory, at, changes>>

Write ==
  /\ queue # <<>>
  /\ WriteSucceeds \/ WriteFails
  /\ queue' = Tail(queue)
  /\ ahead' = Tail(ahead)
  /\ UNCHANGED <<memory, at, changes>>

(* The process ends, by a crash or by ctrl-c, and starts again from the    *)
(* database: the handlers, the channel and what was in it are gone.        *)
Restart ==
  /\ memory' = db
  /\ at' = [t \in Threads |-> Idle]
  /\ queue' = <<>>
  /\ ahead' = <<>>
  /\ lost' = {}
  /\ UNCHANGED <<db, changes, failures>>

-----------------------------------------------------------------------------
Init ==
  /\ memory = Empty
  /\ db = Empty
  /\ at = [t \in Threads |-> Idle]
  /\ queue = <<>>
  /\ lost = {}
  /\ ahead = <<>>
  /\ changes = 0
  /\ failures = 0

Handle(t) ==
  \/ \E a \in Accounts : EnsureCharacter(t, a)
  \/ \E c \in Characters : CreateMissing(t, c)
  \/ Record(t)

HandleWeb(t) ==
  \/ \E a \in Accounts : Authenticate(t, a) \/ DeleteCharacter(t, a)
  \/ \E a \in Accounts, c \in Characters : CreateCharacter(t, a, c)
  \/ \E d \in Photos, v \in Values : SavePhoto(t, d, v)

HandleGame(t) ==
  \/ \E a \in Accounts, c \in Characters : UpdateCharacter(t, a, c)
  \/ \E d \in Documents \ Photos, v \in Values : SetDocument(t, d, v)

Next ==
  \/ \E t \in Threads : Handle(t)
  \/ \E t \in WebThreads : HandleWeb(t)
  \/ \E t \in GameThreads : HandleGame(t)
  \/ Write
  \/ Restart

Spec == /\ Init /\ [][Next]_vars
        /\ WF_vars(Write) /\ \A t \in Threads : WF_vars(Record(t))

-----------------------------------------------------------------------------
(* Properties. *)

Quiet == queue = <<>> /\ \A t \in Threads : at[t] = Idle

(* Once the writer has caught up, the store says of every rucksack, inbox  *)
(* and block what memory says, except where the last write of it was       *)
(* refused: a failed write costs its own change and the next whole value   *)
(* of the same thing makes up for it.  HTTP handlers do not get in between:*)
(* only the game thread writes these.                                      *)
DocumentsSettle ==
  Quiet => \A d \in Documents \ Photos :
             <<"document", d>> \in lost \/ db.held[d] = memory.held[d]

(* "create character" cannot overtake "delete character" (persistence.rs): *)
(* once the writer has caught up the store has the character memory has.   *)
CharactersSettle ==
  Quiet => \A a \in Accounts :
             <<"character", a>> \in lost \/ db.character[a] = memory.character[a]

(* The store goes through the states memory went through, one after the    *)
(* other, so a restart is never into a state the program was not in.       *)
Promise == INSTANCE WriteBehind
             WITH now <- memory, behind <- ahead, stored <- db, States <- Store
FollowsMemory == Promise!Spec

(* What was changed comes to be written, or was overtaken by a restart: the*)
(* channel never stays full with the writer idle.                          *)
Drains == queue # <<>> ~> queue = <<>>
=============================================================================
