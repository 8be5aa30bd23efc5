----------------------------- MODULE GameServer -----------------------------
(***************************************************************************)
(* The game loop (crates/skysaga-game/src/server.rs): connections, the     *)
(* accounts they are attributed to, entity ids, and what a player owns on  *)
(* its way from the shared state into a session and back.                  *)
(*                                                                         *)
(* One thread runs tick() for ever.  A tick drains the socket, carries out *)
(* the admin commands, gives newly arrived players their rucksack and then *)
(* their inbox back, and then writes down what changed; `phase' says how   *)
(* far it is, and `todo' which sessions the loop of this phase has yet to  *)
(* visit (a HashMap: in any order).                                        *)
(*                                                                         *)
(* A session has an id allocator of its own.  It is raised to the server's *)
(* before the session may mint, and the server's to the session's after.   *)
(* A rucksack is a set of stacks and an inbox a set of messages, each by   *)
(* its entity id; the store keeps neither ids nor squares, only how many.  *)
(***************************************************************************)
EXTENDS Naturals, Sequences, FiniteSets

CONSTANTS
  Guids,            \* connections; each is made once
  Accounts,
  None,             \* no account; nothing recorded yet
  FirstFreeId,      \* the first id past the world's own entities
  MaxReservations,  \* 8 in the code
  MaxRucksack,      \* how many stacks a rucksack holds
  MaxMints,         \* how many stacks and messages are newly made, all in all
  MaxReserves,      \* how many times a client asks where to connect
  Early,            \* may a player get items before the restore has happened?
  Overlap           \* may an account connect while a session of it is alive?

ASSUME GameServerAssumption ==
  /\ FirstFreeId \in Nat \ {0}
  /\ MaxReservations \in Nat \ {0}
  /\ MaxRucksack \in Nat /\ MaxMints \in Nat /\ MaxReserves \in Nat
  /\ None \notin Accounts \cup Nat
  /\ Early \in BOOLEAN /\ Overlap \in BOOLEAN

VARIABLES
  phase, todo,
  next_free_id,    \* the server's allocator
  sessions,        \* connection -> session
  gone,            \* the connections that have ended
  reservations,    \* accounts expected to connect, oldest first
  inventories,     \* the shared state: how many stacks each account has
  mail,            \* the shared state: how many messages
  mints, reserves,
  spent            \* history: accounts that used up a stack not yet written off

server_vars == <<phase, todo, next_free_id, sessions, gone, reservations,
          inventories, mail, mints, reserves, spent>>

-----------------------------------------------------------------------------
Session == [account        : Accounts \cup {None},
            playing        : BOOLEAN,
            body           : Nat,
            next           : Nat,           \* the session's own allocator
            stacks         : SUBSET Nat,
            from_store     : SUBSET Nat,    \* history: stacks a restore minted
            inbox          : SUBSET Nat,
            items_restored : BOOLEAN,
            mail_restored  : BOOLEAN,
            recorded_items : Nat \cup {None},
            recorded_mail  : Nat \cup {None}]

(* A session's allocator is started just past the player's own id.         *)
FreshSession(entity, account) ==
  [account |-> account, playing |-> FALSE, body |-> entity, next |-> entity + 1,
   stacks |-> {}, from_store |-> {}, inbox |-> {},
   items_restored |-> FALSE, mail_restored |-> FALSE,
   recorded_items |-> None, recorded_mail |-> None]

Live == DOMAIN sessions

Ids(g) == {sessions[g].body} \cup sessions[g].stacks \cup sessions[g].inbox

Larger(a, b) == IF a >= b THEN a ELSE b

(* Mutant: the session mints from its own allocator.                       *)
OutOfStep(session) == session

(* reserve_ids_from, before a session may mint. *)
InStep(session) == [session EXCEPT !.next = Larger(@, next_free_id)]

(* The session is put back and the server's allocator raised to its own.   *)
TakeBack(g, session) ==
  /\ sessions' = [sessions EXCEPT ![g] = session]
  /\ next_free_id' = Larger(next_free_id, session.next)

(* The n ids a session mints next. *)
Minted(session, n) == session.next .. session.next + n - 1

WithStack(session) ==
  [session EXCEPT !.stacks = @ \cup Minted(session, 1), !.next = @ + 1]

WithMessage(session) ==
  [session EXCEPT !.inbox = @ \cup Minted(session, 1), !.next = @ + 1]

-----------------------------------------------------------------------------
(* Reservations. *)

(* The newest few are kept. *)
Reserve(account) ==
  LET all == Append(reservations, account)
  IN  reservations' = IF Len(all) > MaxReservations THEN Tail(all) ELSE all

(* HTTP: a client asks the conductor where to connect. *)
RetrieveConductor(a) ==
  /\ reserves < MaxReserves
  /\ reserves' = reserves + 1
  /\ Reserve(a)
  /\ UNCHANGED <<phase, todo, next_free_id, sessions, gone, inventories,
                 mail, mints, spent>>

-----------------------------------------------------------------------------
(* The socket. *)

Connect(g) ==
  LET account == IF reservations = <<>> THEN None ELSE Head(reservations)
  IN  /\ phase = "drain"
      /\ g \notin Live \cup gone
      /\ Overlap \/ account = None \/ \A h \in Live : sessions[h].account # account
      /\ reservations' = IF reservations = <<>> THEN <<>> ELSE Tail(reservations)
      /\ sessions' = [h \in Live \cup {g} |->
                        IF h = g THEN FreshSession(next_free_id, account)
                                 ELSE sessions[h]]
      /\ next_free_id' = next_free_id + 1
      /\ UNCHANGED <<phase, todo, gone, inventories, mail, mints, reserves, spent>>

(* A notification or a timeout.  What changed since the last tick goes too.*)
Disconnect(g) ==
  /\ phase = "drain"
  /\ g \in Live
  /\ sessions' = [h \in Live \ {g} |-> sessions[h]]
  /\ gone' = gone \cup {g}
  /\ UNCHANGED <<phase, todo, next_free_id, reservations, inventories, mail,
                 mints, reserves, spent>>

(* The four packets of the handshake, the last of which is ReadyToPlay.    *)
ReadyToPlay(g) ==
  /\ phase = "drain"
  /\ g \in Live /\ ~sessions[g].playing
  /\ TakeBack(g, [InStep(sessions[g]) EXCEPT !.playing = TRUE])
  /\ UNCHANGED <<phase, todo, gone, reservations, inventories, mail, mints,
                 reserves, spent>>

(* A packet that makes a stack: a split, a craft, a pickup. *)
GainStack(g) ==
  /\ phase = "drain"
  /\ g \in Live
  /\ sessions[g].items_restored \/ (Early /\ sessions[g].playing)
  /\ mints < MaxMints /\ mints' = mints + 1
  /\ Cardinality(sessions[g].stacks) < MaxRucksack
  /\ TakeBack(g, WithStack(InStep(sessions[g])))
  /\ UNCHANGED <<phase, todo, gone, reservations, inventories, mail, reserves,
                 spent>>

(* A packet that uses a stack up: the bin, a merge, a craft. *)
SpendStack(g, e) ==
  /\ phase = "drain"
  /\ g \in Live /\ e \in sessions[g].stacks
  /\ TakeBack(g, [InStep(sessions[g]) EXCEPT !.stacks = @ \ {e}])
  /\ spent' = spent \cup {sessions[g].account}
  /\ UNCHANGED <<phase, todo, gone, reservations, inventories, mail, mints,
                 reserves>>

(* CreateHomeworld, or a portal: the client is sent away to connect again, *)
(* without asking the conductor, so its slot is reserved here.             *)
SetOff(g) ==
  /\ phase = "drain"
  /\ g \in Live
  /\ sessions[g].account # None
  /\ reserves < MaxReserves /\ reserves' = reserves + 1
  /\ TakeBack(g, InStep(sessions[g]))
  /\ Reserve(sessions[g].account)
  /\ UNCHANGED <<phase, todo, gone, inventories, mail, mints, spent>>

(* Any other packet: it mints nothing, and still hands the allocator over. *)
OtherPacket(g) ==
  /\ phase = "drain"
  /\ g \in Live
  /\ TakeBack(g, InStep(sessions[g]))
  /\ UNCHANGED <<phase, todo, gone, reservations, inventories, mail, mints,
                 reserves, spent>>

-----------------------------------------------------------------------------
(* Admin commands, for a player named by account. *)

GiveStack(g) ==
  /\ phase = "commands"
  /\ g \in Live /\ sessions[g].account # None
  /\ sessions[g].items_restored \/ Early
  /\ \/ /\ mints < MaxMints /\ mints' = mints + 1
        /\ Cardinality(sessions[g].stacks) < MaxRucksack
        /\ TakeBack(g, WithStack(InStep(sessions[g])))
     \/ /\ Cardinality(sessions[g].stacks) >= MaxRucksack  \* no room: refused
        /\ sessions' = [sessions EXCEPT ![g] = InStep(@)]
        /\ UNCHANGED <<mints, next_free_id>>
  /\ UNCHANGED <<phase, todo, gone, reservations, inventories, mail, reserves,
                 spent>>

ClearInventory(g) ==
  /\ phase = "commands"
  /\ g \in Live /\ sessions[g].account # None
  /\ sessions[g].stacks # {}
  /\ sessions' = [sessions EXCEPT ![g].stacks = {}]
  /\ spent' = spent \cup {sessions[g].account}
  /\ UNCHANGED <<phase, todo, next_free_id, gone, reservations, inventories,
                 mail, mints, reserves>>

SendMail(g) ==
  /\ phase = "commands"
  /\ g \in Live /\ sessions[g].account # None
  /\ sessions[g].mail_restored \/ Early
  /\ mints < MaxMints /\ mints' = mints + 1
  /\ TakeBack(g, WithMessage(InStep(sessions[g])))
  /\ UNCHANGED <<phase, todo, gone, reservations, inventories, mail, reserves,
                 spent>>

-----------------------------------------------------------------------------
(* The end of a tick: one visit of every session per loop. *)

Visit(stage, g) == phase = stage /\ g \in todo /\ todo' = todo \ {g}

(* Mutant: only an account with something to give back is restored.        *)
DueIfStored(session) ==
  /\ session.playing /\ ~session.items_restored /\ session.account # None
  /\ inventories[session.account] > 0

DueItems(session) ==
  session.playing /\ ~session.items_restored /\ session.account # None

DueMail(session) ==
  session.playing /\ ~session.mail_restored /\ session.account # None

(* How many a restore mints: none when the player already carries any.     *)
ItemsToRestore(session) ==
  IF session.stacks # {} THEN 0 ELSE inventories[session.account]

MailToRestore(session) == IF session.inbox # {} THEN 0 ELSE mail[session.account]

(* Ids come from the session's allocator as it stands, and stay with it.   *)
RestoreItems(g) ==
  LET session == sessions[g]
      n       == ItemsToRestore(session)
  IN  /\ Visit("restore_inventories", g)
      /\ \/ /\ DueItems(session)
            /\ sessions' = [sessions EXCEPT ![g] =
                 [session EXCEPT !.stacks = @ \cup Minted(session, n),
                                 !.from_store = Minted(session, n),
                                 !.next = @ + n,
                                 !.items_restored = TRUE]]
         \/ ~DueItems(session) /\ UNCHANGED sessions
      /\ UNCHANGED <<phase, next_free_id, gone, reservations, inventories, mail,
                     mints, reserves, spent>>

RestoreMail(g) ==
  LET session == InStep(sessions[g])
      n       == MailToRestore(session)
  IN  /\ Visit("restore_mailboxes", g)
      /\ \/ /\ DueMail(session)
            /\ TakeBack(g, [session EXCEPT !.inbox = @ \cup Minted(session, n),
                                           !.next = @ + n,
                                           !.mail_restored = TRUE])
         \/ ~DueMail(session) /\ UNCHANGED <<sessions, next_free_id>>
      /\ UNCHANGED <<phase, gone, reservations, inventories, mail, mints, reserves,
                     spent>>

(* What this session has to write down: nothing before the restore, and    *)
(* nothing when it is what it wrote last (items_to_record, mail_to_record).*)
(* Mutants: before the restore as well; not when nothing is left.          *)
EvenBeforeRestore(session) == {Cardinality(session.stacks)} \ {session.recorded_items}
UnlessEmpty(session) ==
  {n \in {Cardinality(session.stacks)} \ {session.recorded_items, 0} : session.items_restored}

ItemsToRecord(session) ==
  {n \in {Cardinality(session.stacks)} \ {session.recorded_items} : session.items_restored}

MailToRecord(session) ==
  {n \in {Cardinality(session.inbox)} \ {session.recorded_mail} : session.mail_restored}

RecordItems(g) ==
  LET session == sessions[g]
  IN  /\ Visit("record_inventories", g)
      /\ \/ \E now \in ItemsToRecord(session) :
              /\ sessions' = [sessions EXCEPT ![g].recorded_items = now]
              /\ inventories' = [a \in Accounts |->
                                   IF a = session.account THEN now ELSE inventories[a]]
         \/ ItemsToRecord(session) = {} /\ UNCHANGED <<sessions, inventories>>
      /\ spent' = IF session.items_restored THEN spent \ {session.account} ELSE spent
      /\ UNCHANGED <<phase, next_free_id, gone, reservations, mail, mints,
                     reserves>>

RecordMail(g) ==
  LET session == sessions[g]
  IN  /\ Visit("record_mailboxes", g)
      /\ \/ \E now \in MailToRecord(session) :
              /\ sessions' = [sessions EXCEPT ![g].recorded_mail = now]
              /\ mail' = [a \in Accounts |-> IF a = session.account THEN now ELSE mail[a]]
         \/ MailToRecord(session) = {} /\ UNCHANGED <<sessions, mail>>
      /\ UNCHANGED <<phase, next_free_id, gone, reservations, inventories, mints,
                     reserves, spent>>

(* On to the next loop; the socket is left when it has nothing more.       *)
After == [drain |-> "commands", commands |-> "restore_inventories",
          restore_inventories |-> "restore_mailboxes",
          restore_mailboxes |-> "record_inventories",
          record_inventories |-> "record_mailboxes", record_mailboxes |-> "drain"]

NextPhase ==
  /\ todo = {}
  /\ phase' = After[phase]
  /\ todo' = IF phase' \in {"drain", "commands"} THEN {} ELSE Live
  /\ UNCHANGED <<next_free_id, sessions, gone, reservations, inventories, mail,
                 mints, reserves, spent>>

-----------------------------------------------------------------------------
ServerInit ==
  /\ phase = "drain" /\ todo = {}
  /\ next_free_id = FirstFreeId
  /\ sessions = [g \in {} |-> None]
  /\ gone = {}
  /\ reservations = <<>>
  /\ inventories = [a \in Accounts |-> 0]
  /\ mail = [a \in Accounts |-> 0]
  /\ mints = 0 /\ reserves = 0
  /\ spent = {}

Drain(g) ==
  \/ Connect(g)
  \/ Disconnect(g)
  \/ ReadyToPlay(g)
  \/ GainStack(g)
  \/ g \in Live /\ \E e \in sessions[g].stacks : SpendStack(g, e)
  \/ SetOff(g)
  \/ OtherPacket(g)

Command(g) == GiveStack(g) \/ ClearInventory(g) \/ SendMail(g)

EndOfTick(g) == RestoreItems(g) \/ RestoreMail(g) \/ RecordItems(g) \/ RecordMail(g)

ServerNext ==
  \/ \E a \in Accounts : RetrieveConductor(a)
  \/ \E g \in Guids : Drain(g) \/ Command(g) \/ EndOfTick(g)
  \/ NextPhase

ServerSpec == ServerInit /\ [][ServerNext]_server_vars

-----------------------------------------------------------------------------
(* Properties. *)

ServerTypeOK ==
  /\ phase \in DOMAIN After
  /\ todo \subseteq Live
  /\ next_free_id \in Nat
  /\ Live \subseteq Guids /\ sessions \in [Live -> Session]
  /\ gone \subseteq Guids /\ gone \cap Live = {}
  /\ reservations \in Seq(Accounts) /\ Len(reservations) <= MaxReservations
  /\ inventories \in [Accounts -> Nat] /\ mail \in [Accounts -> Nat]
  /\ mints \in 0 .. MaxMints /\ reserves \in 0 .. MaxReserves
  /\ spent \subseteq Accounts \cup {None}

(* "Ids are allocated globally so one connection's split cannot collide    *)
(* with another's body": what two sessions hold, bodies, stacks and        *)
(* messages, has different ids.                                            *)
IdsAreUnique ==
  \A g, h \in Live : g # h => Ids(g) \cap Ids(h) = {}

(* The same of everything but the stacks a restore minted: handing the     *)
(* allocator over around every packet and command, and around the restore  *)
(* of an inbox, is enough for ids never to meet.                           *)
MintedOnce ==
  \A g, h \in Live :
    g # h => (Ids(g) \ sessions[g].from_store) \cap (Ids(h) \ sessions[h].from_store) = {}

(* When the socket is read the server's allocator is past every id any     *)
(* session holds or would mint, restored stacks included: the restore of   *)
(* the inbox hands back what the restore of the rucksack did not.          *)
AllocatorCaughtUp ==
  phase \in {"drain", "commands"} =>
    \A g \in Live : /\ sessions[g].next <= next_free_id
                     /\ \A e \in Ids(g) : e < next_free_id

(* When a tick ends the shared state has what every player carries and     *)
(* every inbox, so the next connection of the account gets that back.      *)
RecordIsCurrent ==
  phase = "record_mailboxes" /\ todo = {} =>
    \A g \in Live :
      LET session == sessions[g]
      IN  session.account # None =>
            /\ session.items_restored =>
                 inventories[session.account] = Cardinality(session.stacks)
            /\ session.mail_restored => mail[session.account] = Cardinality(session.inbox)

(* "Otherwise the first tick of a session writes down an empty rucksack    *)
(* and erases what the player had": stored stacks become fewer only when   *)
(* the player has used some up.                                            *)
RecordErasesNothing ==
  [][\A a \in Accounts : inventories'[a] < inventories[a] => a \in spent]_server_vars

(* A tick that is done with the socket gives every player in the world the *)
(* rucksack and the inbox back before it writes anything down, what was    *)
(* stored being nothing included: nobody is left for a later tick.         *)
PlayersAreServed ==
  phase \in {"record_inventories", "record_mailboxes"} =>
    \A g \in Live :
      sessions[g].playing /\ sessions[g].account # None
        => sessions[g].items_restored /\ sessions[g].mail_restored
=============================================================================
