-------------------------------- MODULE Hud ---------------------------------
(***************************************************************************)
(* What a player's screen says of the player: the hotbar, the hearts and   *)
(* the death screen, the quest log, and the toast for an item never seen   *)
(* before.  The session (skysaga-game/src/lib.rs) holds each of them and   *)
(* the client its own copy, which it changes before it asks; what crosses  *)
(* are packets, in order, both ways.  The hotbar alone outlives the        *)
(* session: it is put back after the rucksack and written down at the tick *)
(* (server.rs, restore_hotbars and record_hotbars).                        *)
(*                                                                         *)
(* The client is external: it binds, selects and erases on its own screen  *)
(* at once, reports a fall as a fact, and asks for a respawn from the      *)
(* death screen.  The stack a binding points at is left out: the client is *)
(* told the item, and any stack of it will do.                             *)
(***************************************************************************)
EXTENDS Naturals, Sequences, SequencesExt, FiniteSetsExt

CONSTANTS
  Goods,          \* items
  Unbound,        \* a hand of a square with nothing bound
  Squares, Hands, \* of the hotbar
  PLAYER_HEALTH, FALL_DAMAGE,
  TASK_LIST_DEFAULT,
  StoredBars,     \* hotbars there may be to begin with
  MaxAsks,        \* bound: of packets the client sends
  MaxJoins        \* bound: of sessions

ASSUME HudAssumption ==
  /\ IsFiniteSet(Goods) /\ Unbound \notin Goods /\ TASK_LIST_DEFAULT \in 1..256
  /\ PLAYER_HEALTH \in Nat \ {0} /\ FALL_DAMAGE \in Nat \ {0}

Bars     == [Squares \X Hands -> Goods \cup {Unbound}]
EmptyBar == [place \in Squares \X Hands |-> Unbound]

ASSUME BarsAssumption == StoredBars \subseteq Bars

VARIABLES
  carries,      \* the player's entity carries its hotbar (SKYSAGA_UI_SETTINGS)
  joined,       \* there is a session
  session_hud,  \* what the session holds
  carried_goods,\* the items in the rucksack
  screen_hud,   \* what the client shows
  asks,         \* packets on their way to the server
  answers,      \* packets on their way to the client
  stored_bar,   \* the shared state's hotbar for the account
  first_bar,    \* the same as it was when this session began
  touched,      \* the hands the client has bound in this session
  asked, joins

hud_vars == <<carries, joined, session_hud, carried_goods, screen_hud, asks, answers,
              stored_bar, first_bar, touched, asked, joins>>

-----------------------------------------------------------------------------
NewSession ==
  [bar |-> EmptyBar, active |-> 0, damage |-> 0, tasks |-> <<>>, seen |-> {},
   restored |-> FALSE, recorded |-> <<>>]
NewScreen ==
  [bar |-> EmptyBar, active |-> 0, hearts |-> PLAYER_HEALTH, dead |-> FALSE,
   falling |-> FALSE, tasks |-> <<>>, toasts |-> {}]

player_health(s) == PLAYER_HEALTH - s.damage

echo_hotbar(s) ==
  IF carries THEN <<[kind |-> "bar", bar |-> s.bar, active |-> s.active]>> ELSE <<>>
sync_health(s) == <<[kind |-> "hearts", hearts |-> player_health(s)]>>
sync_tasks(s)  == <<[kind |-> "tasks", tasks |-> s.tasks]>>

(* The session becomes s, and the packets go to the client.                *)
Answer(s, packets) ==
  /\ session_hud' = s
  /\ answers' = answers \o packets

(* Mutant: a player who is already dead dies of a second fall. *)
AnyPlayer(s) == TRUE

MayBeHurt(s) == player_health(s) > 0

(* hurt_player: nothing happens to the dead, and whoever dies of it is     *)
(* shown the death screen.                                                 *)
hurt_player(s) ==
  LET hurt == [s EXCEPT !.damage = Min({@ + FALL_DAMAGE, PLAYER_HEALTH})]
  IN  IF ~MayBeHurt(s) THEN UNCHANGED <<session_hud, answers>>
      ELSE Answer(hurt, sync_health(hurt)
                          \o IF player_health(hurt) = 0 THEN <<[kind |-> "kill"]>> ELSE <<>>)

(* Mutant: a player is healed and not told. *)
OnlySpawned(well) == <<[kind |-> "spawned"]>>

Revived(well) == <<[kind |-> "spawned"]>> \o sync_health(well)

respawn(s) == LET well == [s EXCEPT !.damage = 0] IN Answer(well, Revived(well))

(* The lowest id that no task has, whatever the client called it.          *)
free_id(tasks) == Min((0..255) \ ToSet(tasks))

todo_add(s) ==
  LET more == [s EXCEPT !.tasks = Append(@, free_id(@))]
  IN  IF Len(s.tasks) >= TASK_LIST_DEFAULT THEN UNCHANGED <<session_hud, answers>>
      ELSE Answer(more, sync_tasks(more))

TasksWithout(tasks, task) == SelectSeq(tasks, LAMBDA t : t # task)

todo_erase(s, task) ==
  LET fewer == [s EXCEPT !.tasks = TasksWithout(@, task)]
  IN  Answer(fewer, sync_tasks(fewer))

(* A square's hand is bound, and the square is the one selected.           *)
bind_hand(s, ask) ==
  LET bound == [s EXCEPT !.bar[ask.place] = ask.item, !.active = ask.place[1]]
  IN  Answer(bound, echo_hotbar(bound))

SetActiveSlot(s, square) ==
  LET turned == [s EXCEPT !.active = square]
  IN  Answer(turned, echo_hotbar(turned))

SeenBy(seen, goods) == seen \cup goods

(* The rucksack has become goods: what is new is toasted, once.            *)
announce_discoveries(s, goods) ==
  Answer([s EXCEPT !.seen = SeenBy(@, goods)],
         SetToSeq({[kind |-> "new", item |-> item] : item \in goods \ s.seen}))

(* The server handles a packet.                                            *)
HandleAsk ==
  LET ask == Head(asks)
      s   == session_hud
  IN  /\ joined /\ asks # <<>>
      /\ asks' = Tail(asks)
      /\ CASE ask.kind = "bind"    -> bind_hand(s, ask)
           [] ask.kind = "select"  -> SetActiveSlot(s, ask.square)
           [] ask.kind = "fell"    -> hurt_player(s)
           [] ask.kind = "off"     -> respawn(s)
           [] ask.kind = "respawn" -> respawn(s)
           [] ask.kind = "add"     -> todo_add(s)
           [] ask.kind = "erase"   -> todo_erase(s, ask.task)
      /\ UNCHANGED <<carries, joined, carried_goods, screen_hud, stored_bar, first_bar, touched,
                     asked, joins>>

(* The rucksack is put back, something comes by a pickup or a gift, or the *)
(* last of it goes.                                                        *)
Carry(goods) ==
  /\ joined /\ goods # carried_goods
  /\ carried_goods' = goods
  /\ announce_discoveries(session_hud, goods)
  /\ UNCHANGED <<carries, joined, screen_hud, asks, stored_bar, first_bar, touched, asked, joins>>

-----------------------------------------------------------------------------
(* restore_bindings: over whatever has been bound, the stored hands only.  *)
restore_bindings(s) ==
  [s EXCEPT !.bar = [place \in DOMAIN @ |->
                       IF stored_bar[place] = Unbound THEN @[place] ELSE stored_bar[place]],
            !.restored = TRUE]

(* restore_hotbars, after the rucksack: only where the client is told.     *)
restore_hotbars(s) == IF carries /\ ~s.restored THEN restore_bindings(s) ELSE s

(* Mutant: the bar is written down before it has been put back. *)
AnyBar(s) == s.bar # s.recorded

(* bindings_to_record: nothing until the bar has been put back, and then   *)
(* only what is not what was written last.                                 *)
bindings_to_record(s) == s.restored /\ s.bar # s.recorded

(* The tick: the saved bar is put back, and what has changed written down. *)
HudTick ==
  LET s == restore_hotbars(session_hud)
      recorded == [s EXCEPT !.recorded = s.bar]
      told == s # session_hud /\ stored_bar # EmptyBar
  IN  /\ joined /\ bindings_to_record(s)
      /\ Answer(recorded, IF told THEN echo_hotbar(s) ELSE <<>>)
      /\ stored_bar' = s.bar
      /\ UNCHANGED <<carries, joined, carried_goods, screen_hud, asks, first_bar, touched,
                     asked, joins>>

-----------------------------------------------------------------------------
(* The client's side.                                                      *)
Ask(packet, screen) ==
  /\ joined /\ asked < MaxAsks /\ asked' = asked + 1
  /\ asks' = Append(asks, packet)
  /\ screen_hud' = screen
  /\ UNCHANGED <<carries, joined, session_hud, carried_goods, answers, stored_bar, first_bar,
                 joins>>

Bind(place, item) ==
  /\ Ask([kind |-> "bind", place |-> place, item |-> item],
         [screen_hud EXCEPT !.bar[place] = item, !.active = place[1]])
  /\ touched' = touched \cup {place}

Plain(packet, screen) == Ask(packet, screen) /\ UNCHANGED touched

ClientAsks ==
  \/ \E place \in Squares \X Hands, item \in Goods \cup {Unbound} : Bind(place, item)
  \/ \E square \in Squares \ {screen_hud.active} :
       Plain([kind |-> "select", square |-> square], [screen_hud EXCEPT !.active = square])
  \/ Plain([kind |-> "fell"], screen_hud)
  \/ ~screen_hud.falling /\ Plain([kind |-> "off"], [screen_hud EXCEPT !.falling = TRUE])
  \/ screen_hud.dead /\ Plain([kind |-> "respawn"], screen_hud)
  \/ Plain([kind |-> "add"], screen_hud)
  \/ \E task \in ToSet(screen_hud.tasks) :
       Plain([kind |-> "erase", task |-> task],
             [screen_hud EXCEPT !.tasks = TasksWithout(@, task)])

(* A packet arrives; only PlayerSpawned closes the death screen.           *)
ClientReads ==
  LET packet == Head(answers)
  IN  /\ joined /\ answers # <<>>
      /\ answers' = Tail(answers)
      /\ screen_hud' =
           CASE packet.kind = "bar"     -> [screen_hud EXCEPT !.bar = packet.bar,
                                                              !.active = packet.active]
             [] packet.kind = "hearts"  -> [screen_hud EXCEPT !.hearts = packet.hearts]
             [] packet.kind = "kill"    -> [screen_hud EXCEPT !.dead = TRUE]
             [] packet.kind = "spawned" -> [screen_hud EXCEPT !.dead = FALSE, !.falling = FALSE]
             [] packet.kind = "tasks"   -> [screen_hud EXCEPT !.tasks = packet.tasks]
             [] packet.kind = "new"     -> [screen_hud EXCEPT !.toasts = @ \cup {packet.item}]
      /\ UNCHANGED <<carries, joined, session_hud, carried_goods, asks, stored_bar, first_bar,
                     touched, asked, joins>>

(* A session begins with an empty bar, full hearts and no tasks, and the   *)
(* burst shows as much.  It ends when the connection does, with what is    *)
(* still on its way.                                                       *)
JoinHud ==
  /\ ~joined /\ joins < MaxJoins /\ joins' = joins + 1
  /\ joined' = TRUE /\ carried_goods' = {}
  /\ session_hud' = NewSession /\ screen_hud' = NewScreen
  /\ first_bar' = stored_bar /\ touched' = {}
  /\ UNCHANGED <<carries, asks, answers, stored_bar, asked>>

LeaveHud ==
  /\ joined /\ joined' = FALSE
  /\ asks' = <<>> /\ answers' = <<>>
  /\ UNCHANGED <<carries, session_hud, carried_goods, screen_hud, stored_bar, first_bar, touched,
                 asked, joins>>

HudInit ==
  /\ carries \in BOOLEAN /\ joined = FALSE
  /\ session_hud = NewSession /\ screen_hud = NewScreen
  /\ carried_goods = {} /\ asks = <<>> /\ answers = <<>>
  /\ stored_bar \in StoredBars /\ first_bar = stored_bar
  /\ touched = {} /\ asked = 0 /\ joins = 0

HudNext ==
  \/ HandleAsk \/ HudTick \/ ClientAsks \/ ClientReads \/ JoinHud \/ LeaveHud
  \/ \E goods \in SUBSET Goods : Carry(goods)

HudSpec == HudInit /\ [][HudNext]_hud_vars

-----------------------------------------------------------------------------
(* When nothing is on its way, the screen is right: the hearts, the death  *)
(* screen and the quest log, and the hotbar where the client is told of it *)
(* (lib.rs, hurt_player, respawn, todo_add, todo_erase, echo_hotbar).      *)
ScreenIsRight ==
  (joined /\ asks = <<>> /\ answers = <<>>) =>
    /\ screen_hud.hearts = player_health(session_hud)
    /\ screen_hud.dead <=> player_health(session_hud) = 0
    /\ screen_hud.tasks = session_hud.tasks
    /\ carries => /\ screen_hud.bar = session_hud.bar
                  /\ screen_hud.active = session_hud.active

(* A player is never shown a death screen over another, and no toast twice *)
(* in a session (lib.rs, hurt_player and announce_discoveries).            *)
ShownOnce ==
  joined /\ answers # <<>> =>
    /\ Head(answers).kind = "kill" => ~screen_hud.dead
    /\ Head(answers).kind = "new" => Head(answers).item \notin screen_hud.toasts

(* The saved hotbar keeps every hand the player has not bound anew, though *)
(* each session starts with an empty one; and all of it, where the client  *)
(* is told nothing (lib.rs, bindings_to_record and restore_bindings).      *)
BarErasesNothing ==
  \A place \in Squares \X Hands :
    (place \notin touched \/ ~carries) => stored_bar[place] = first_bar[place]
=============================================================================
