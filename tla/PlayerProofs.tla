---------------------------- MODULE PlayerProofs ----------------------------
(***************************************************************************)
(* What is proved of Hud and of Mailbox, the two parts of one player's     *)
(* session that are written down and given back.                           *)
(*                                                                         *)
(* Hud: a client's screen settles on what the session holds, nothing is    *)
(* shown twice, and the saved hotbar keeps what the player has not         *)
(* touched; for any items, hotbar and health, and for any number of        *)
(* packets and sessions.  The argument is about the queue to the client.   *)
(* Of each thing shown, the last packet about it, or the screen itself     *)
(* when none is on its way, is right; unless the client has changed its    *)
(* screen and the server has yet to hear of it, and then the answer to     *)
(* that is still to come.                                                  *)
(*                                                                         *)
(* Mailbox: no packet names what its client has not been told of, messages *)
(* have uuids of their own until one is deleted, and what was written down *)
(* stays; for any attachments, rucksack and inbox, and however far the     *)
(* writer is behind.  The last is an argument about the changes on their   *)
(* way to the disk: each keeps what was recorded before it, except that an *)
(* inbox may lack a stack a rucksack ahead of it has.                      *)
(***************************************************************************)
EXTENDS Hud, Mailbox, Facts

-----------------------------------------------------------------------------
(* What the screen shows, what is so, and what a packet says of it.        *)

Subjects == {"hearts", "dead", "tasks", "bar"}

Mortal(dead) == IF dead THEN "dead" ELSE "alive"

Shown(screen, about) ==
  CASE about = "hearts" -> screen.hearts
    [] about = "dead"   -> Mortal(screen.dead)
    [] about = "tasks"  -> screen.tasks
    [] about = "bar"    -> <<screen.bar, screen.active>>

Right(s, about) ==
  CASE about = "hearts" -> player_health(s)
    [] about = "dead"   -> Mortal(player_health(s) = 0)
    [] about = "tasks"  -> s.tasks
    [] about = "bar"    -> <<s.bar, s.active>>

Says(packet, about) ==
  CASE about = "hearts" -> packet.hearts
    [] about = "dead"   -> Mortal(packet.kind = "kill")
    [] about = "tasks"  -> packet.tasks
    [] about = "bar"    -> <<packet.bar, packet.active>>

IsAbout(packet, about) ==
  \/ about = "hearts" /\ packet.kind = "hearts"
  \/ about = "dead"   /\ packet.kind \in {"kill", "spawned"}
  \/ about = "tasks"  /\ packet.kind = "tasks"
  \/ about = "bar"    /\ packet.kind = "bar"

(* The asks that change the screen before the server has heard of them.    *)
Alters(ask, about) ==
  \/ about = "tasks" /\ ask.kind = "erase"
  \/ about = "bar"   /\ ask.kind \in {"bind", "select"}

Mentions(q, about) == \E i \in 1 .. Len(q) : IsAbout(q[i], about)

(* Once q has been read, what was shown has become what is right.          *)
Settles(q, about, shown, right) ==
  \/ ~Mentions(q, about) /\ shown = right
  \/ \E i \in 1 .. Len(q) :
       /\ IsAbout(q[i], about) /\ Says(q[i], about) = right
       /\ \A j \in (i + 1) .. Len(q) : ~IsAbout(q[j], about)

(* No death screen is shown to somebody who is shown one.                  *)
NoSecondDeath(q, shown) ==
  \A i \in 1 .. Len(q) :
    q[i].kind = "kill" =>
      \/ /\ shown = "alive" /\ \A j \in 1 .. (i - 1) : ~IsAbout(q[j], "dead")
      \/ \E j \in 1 .. (i - 1) :
           /\ q[j].kind = "spawned"
           /\ \A k \in (j + 1) .. (i - 1) : ~IsAbout(q[k], "dead")

(* A toast is for something that has not been seen, on the screen or       *)
(* before it in the queue.                                                 *)
NewIsNew(q, toasts, seen) ==
  /\ toasts \subseteq seen
  /\ \A i \in 1 .. Len(q) :
       q[i].kind = "new" =>
         /\ q[i].item \in seen \ toasts
         /\ \A j \in 1 .. (i - 1) : q[j].kind = "new" => q[j].item # q[i].item

-----------------------------------------------------------------------------
(* The invariant. *)

IsSession(s) ==
  /\ s = [bar |-> s.bar, active |-> s.active, damage |-> s.damage, tasks |-> s.tasks,
          seen |-> s.seen, restored |-> s.restored, recorded |-> s.recorded]
  /\ s.bar \in Bars /\ s.damage \in 0 .. PLAYER_HEALTH
  /\ s.seen \in SUBSET Goods /\ s.restored \in BOOLEAN

IsScreen(screen) ==
  /\ screen = [bar |-> screen.bar, active |-> screen.active, hearts |-> screen.hearts,
               dead |-> screen.dead, falling |-> screen.falling, tasks |-> screen.tasks,
               toasts |-> screen.toasts]
  /\ screen.bar \in Bars /\ screen.dead \in BOOLEAN /\ screen.falling \in BOOLEAN

Kinds == {"bind", "select", "fell", "off", "respawn", "add", "erase"}

IsAsk(ask) ==
  /\ ask.kind \in Kinds
  /\ ask.kind = "bind" => /\ ask.place \in Squares \X Hands
                          /\ ask.item \in Goods \cup {Unbound}

IsPacket(packet) ==
  /\ packet.kind \in {"bar", "hearts", "kill", "spawned", "tasks", "new"}
  /\ packet.kind = "bar" => packet.bar \in Bars

HudTyped ==
  /\ carries \in BOOLEAN /\ joined \in BOOLEAN
  /\ IsSession(session_hud) /\ IsScreen(screen_hud)
  /\ carried_goods \in SUBSET Goods
  /\ stored_bar \in Bars /\ first_bar \in Bars
  /\ touched \in SUBSET (Squares \X Hands)
  /\ IsQueue(asks) /\ \A i \in 1 .. Len(asks) : IsAsk(asks[i])
  /\ IsQueue(answers) /\ \A i \in 1 .. Len(answers) : IsPacket(answers[i])
  /\ ~joined => asks = <<>> /\ answers = <<>>

Pending(q, about) == \E i \in 1 .. Len(q) : Alters(q[i], about)

ScreenSettles ==
  \A about \in Subjects :
    joined /\ (about = "bar" => carries) /\ ~Pending(asks, about) =>
      Settles(answers, about, Shown(screen_hud, about), Right(session_hud, about))

ToastsAndDeaths ==
  joined => /\ NoSecondDeath(answers, Shown(screen_hud, "dead"))
            /\ NewIsNew(answers, screen_hud.toasts, session_hud.seen)

(* Of the hands that have not been touched, the session has nothing until  *)
(* it has put back what was stored.                                        *)
BarKept ==
  /\ ~carries => stored_bar = first_bar /\ (joined => ~session_hud.restored)
  /\ joined =>
       /\ \A i \in 1 .. Len(asks) : asks[i].kind = "bind" => asks[i].place \in touched
       /\ \A place \in (Squares \X Hands) \ touched :
            session_hud.bar[place] =
              IF session_hud.restored THEN first_bar[place] ELSE Unbound
  /\ \A place \in (Squares \X Hands) \ touched : stored_bar[place] = first_bar[place]

HudInv == HudTyped /\ ScreenSettles /\ ToastsAndDeaths /\ BarKept

-----------------------------------------------------------------------------
(* Lemmas about what a queue settles on. *)

(* What is sent after a queue decides, unless it does not mention it.      *)
LEMMA SettlesConcat ==
  ASSUME NEW q, NEW more, IsQueue(q), IsQueue(more), NEW about, NEW shown, NEW mid, NEW right,
         Settles(more, about, mid, right), Mentions(more, about) \/ Settles(q, about, shown, mid)
  PROVE  Settles(q \o more, about, shown, right)
<1> USE QueueConcat
<1>1. ASSUME NEW i \in 1 .. Len(more), IsAbout(more[i], about), Says(more[i], about) = right,
             \A j \in (i + 1) .. Len(more) : ~IsAbout(more[j], about)
      PROVE  Settles(q \o more, about, shown, right)
  <2>1. Len(q) + i \in 1 .. Len(q \o more) /\ (q \o more)[Len(q) + i] = more[i]
    OBVIOUS
  <2>2. ASSUME NEW j \in ((Len(q) + i) + 1) .. Len(q \o more)
        PROVE  ~IsAbout((q \o more)[j], about)
    <3>1. PICK k \in 1 .. Len(more) : j = Len(q) + k
      OBVIOUS
    <3>2. k \in (i + 1) .. Len(more) /\ (q \o more)[j] = more[k]
      BY <3>1
    <3> QED BY <1>1, <3>2
  <2> QED BY <1>1, <2>1, <2>2 DEF Settles
<1>2. CASE ~Mentions(more, about) /\ mid = right
  <2>1. Settles(q, about, shown, right)
    BY <1>2
  <2>2. ASSUME NEW j \in 1 .. Len(q \o more), ~(j \in 1 .. Len(q))
        PROVE  ~IsAbout((q \o more)[j], about)
    <3>1. PICK k \in 1 .. Len(more) : j = Len(q) + k
      BY <2>2
    <3>2. (q \o more)[j] = more[k]
      BY <3>1
    <3> QED BY <1>2, <3>2 DEF Mentions
  <2>3. CASE ~Mentions(q, about) /\ shown = right
    <3>1. \A j \in 1 .. Len(q) : (q \o more)[j] = q[j] /\ ~IsAbout(q[j], about)
      BY <2>3 DEF Mentions
    <3>2. ~Mentions(q \o more, about)
      BY <2>2, <3>1 DEF Mentions
    <3> QED BY <2>3, <3>2 DEF Settles
  <2>4. ASSUME NEW i \in 1 .. Len(q), IsAbout(q[i], about), Says(q[i], about) = right,
               \A j \in (i + 1) .. Len(q) : ~IsAbout(q[j], about)
        PROVE  Settles(q \o more, about, shown, right)
    <3>1. i \in 1 .. Len(q \o more) /\ (q \o more)[i] = q[i]
      OBVIOUS
    <3>2. ASSUME NEW j \in (i + 1) .. Len(q \o more)
          PROVE  ~IsAbout((q \o more)[j], about)
      <4>1. CASE j <= Len(q)
        <5>1. j \in (i + 1) .. Len(q) /\ (q \o more)[j] = q[j]
          BY <4>1
        <5> QED BY <2>4, <5>1
      <4>2. CASE ~(j <= Len(q))
        BY <2>2, <4>2
      <4> QED BY <4>1, <4>2
    <3> QED BY <2>4, <3>1, <3>2 DEF Settles
  <2> QED BY <2>1, <2>3, <2>4 DEF Settles
<1> QED BY <1>1, <1>2 DEF Settles

LEMMA SettlesTail ==
  ASSUME NEW q, IsQueue(q), q # <<>>, NEW about, NEW shown, NEW next, NEW right,
         Settles(q, about, shown, right),
         next = IF IsAbout(Head(q), about) THEN Says(Head(q), about) ELSE shown
  PROVE  Settles(Tail(q), about, next, right)
<1> USE QueueTail
<1>1. CASE ~Mentions(q, about) /\ shown = right
  <2>1. ~IsAbout(Head(q), about) /\ ~Mentions(Tail(q), about)
    BY <1>1 DEF Mentions
  <2> QED BY <1>1, <2>1 DEF Settles
<1>2. ASSUME NEW i \in 1 .. Len(q), IsAbout(q[i], about), Says(q[i], about) = right,
             \A j \in (i + 1) .. Len(q) : ~IsAbout(q[j], about)
      PROVE  Settles(Tail(q), about, next, right)
  <2>1. CASE i = 1
    <3>1. next = right
      BY <1>2, <2>1
    <3>2. \A k \in 1 .. Len(Tail(q)) : k + 1 \in (i + 1) .. Len(q) /\ Tail(q)[k] = q[k + 1]
      BY <2>1
    <3>3. ~Mentions(Tail(q), about)
      BY <1>2, <3>2 DEF Mentions
    <3> QED BY <3>1, <3>3 DEF Settles
  <2>2. ASSUME NEW k \in 1 .. Len(Tail(q)), i = k + 1
        PROVE  Settles(Tail(q), about, next, right)
    <3>1. Tail(q)[k] = q[i]
      BY <2>2
    <3>2. \A j \in (k + 1) .. Len(Tail(q)) : j + 1 \in (i + 1) .. Len(q) /\ Tail(q)[j] = q[j + 1]
      BY <2>2
    <3> QED BY <1>2, <3>1, <3>2 DEF Settles
  <2> QED BY <2>1, <2>2
<1> QED BY <1>1, <1>2 DEF Settles

LEMMA SettlesShort ==
  ASSUME NEW about, NEW shown, NEW right
  PROVE  /\ Settles(<<>>, about, shown, right) <=> shown = right
         /\ ~Mentions(<<>>, about)
         /\ \A a : Mentions(<<a>>, about) <=> IsAbout(a, about)
         /\ \A a : Settles(<<a>>, about, shown, right) <=>
                     IF IsAbout(a, about) THEN Says(a, about) = right ELSE shown = right
         /\ \A a, b : IsAbout(a, about) /\ ~IsAbout(b, about) /\ Says(a, about) = right =>
                        Settles(<<a, b>>, about, shown, right)
         /\ \A a, b : ~IsAbout(a, about) /\ IsAbout(b, about) /\ Says(b, about) = right =>
                        Settles(<<a, b>>, about, shown, right)
         /\ \A a, b : ~IsAbout(a, about) /\ ~IsAbout(b, about) /\ shown = right =>
                        Settles(<<a, b>>, about, shown, right)
<1>1. 1 .. 0 = {} /\ 1 .. 1 = {1} /\ 1 .. 2 = {1, 2} /\ 2 .. 1 = {} /\ 2 .. 2 = {2} /\ 3 .. 2 = {}
      /\ 1 + 1 = 2 /\ 2 + 1 = 3
  OBVIOUS
<1>2. (Settles(<<>>, about, shown, right) <=> shown = right) /\ ~Mentions(<<>>, about)
  BY <1>1, ShortQueues DEF Settles, Mentions
<1>3. ASSUME NEW a
      PROVE  /\ Mentions(<<a>>, about) <=> IsAbout(a, about)
             /\ Settles(<<a>>, about, shown, right) <=>
                  IF IsAbout(a, about) THEN Says(a, about) = right ELSE shown = right
  <2> DEFINE one == <<a>>
  <2>1. Len(one) = 1 /\ one[1] = a
    BY ShortQueues
  <2> HIDE DEF one
  <2>2. Mentions(one, about) <=> IsAbout(a, about)
    BY <1>1, <2>1 DEF Mentions
  <2>3. Settles(one, about, shown, right) <=>
          IF IsAbout(a, about) THEN Says(a, about) = right ELSE shown = right
    BY <1>1, <2>1, <2>2 DEF Settles
  <2> QED BY <2>2, <2>3 DEF one
<1>4. ASSUME NEW a, NEW b
      PROVE  /\ IsAbout(a, about) /\ ~IsAbout(b, about) /\ Says(a, about) = right =>
                  Settles(<<a, b>>, about, shown, right)
             /\ ~IsAbout(a, about) /\ IsAbout(b, about) /\ Says(b, about) = right =>
                  Settles(<<a, b>>, about, shown, right)
             /\ ~IsAbout(a, about) /\ ~IsAbout(b, about) /\ shown = right =>
                  Settles(<<a, b>>, about, shown, right)
  <2> DEFINE two == <<a, b>>
  <2>1. Len(two) = 2 /\ two[1] = a /\ two[2] = b
    BY ShortQueues
  <2> HIDE DEF two
  <2>2. Mentions(two, about) <=> IsAbout(a, about) \/ IsAbout(b, about)
    BY <1>1, <2>1 DEF Mentions
  <2>3. /\ IsAbout(a, about) /\ ~IsAbout(b, about) /\ Says(a, about) = right =>
             Settles(two, about, shown, right)
        /\ ~IsAbout(a, about) /\ IsAbout(b, about) /\ Says(b, about) = right =>
             Settles(two, about, shown, right)
        /\ ~IsAbout(a, about) /\ ~IsAbout(b, about) /\ shown = right =>
             Settles(two, about, shown, right)
    BY <1>1, <2>1, <2>2 DEF Settles
  <2> QED BY <2>3 DEF two
<1> QED BY <1>2, <1>3, <1>4

-----------------------------------------------------------------------------
(* Lemmas about deaths and toasts. *)

LEMMA NoSecondDeathConcat ==
  ASSUME NEW q, NEW more, IsQueue(q), IsQueue(more), NEW shown, NEW mid,
         NoSecondDeath(q, shown), Settles(q, "dead", shown, mid), NoSecondDeath(more, mid)
  PROVE  NoSecondDeath(q \o more, shown)
<1> USE QueueConcat
<1>1. ASSUME NEW i \in 1 .. Len(q), (q \o more)[i].kind = "kill"
      PROVE  \/ /\ shown = "alive" /\ \A j \in 1 .. (i - 1) : ~IsAbout((q \o more)[j], "dead")
             \/ \E j \in 1 .. (i - 1) :
                  /\ (q \o more)[j].kind = "spawned"
                  /\ \A k \in (j + 1) .. (i - 1) : ~IsAbout((q \o more)[k], "dead")
  <2>1. \A j \in 1 .. i : (q \o more)[j] = q[j]
    OBVIOUS
  <2>2. \/ /\ shown = "alive" /\ \A j \in 1 .. (i - 1) : ~IsAbout(q[j], "dead")
        \/ \E j \in 1 .. (i - 1) :
             /\ q[j].kind = "spawned"
             /\ \A k \in (j + 1) .. (i - 1) : ~IsAbout(q[k], "dead")
    BY <1>1, <2>1 DEF NoSecondDeath
  <2> QED BY <2>1, <2>2
<1>2. ASSUME NEW m \in 1 .. Len(more), more[m].kind = "kill", NEW i, i = Len(q) + m
      PROVE  \/ /\ shown = "alive" /\ \A j \in 1 .. (i - 1) : ~IsAbout((q \o more)[j], "dead")
             \/ \E j \in 1 .. (i - 1) :
                  /\ (q \o more)[j].kind = "spawned"
                  /\ \A k \in (j + 1) .. (i - 1) : ~IsAbout((q \o more)[k], "dead")
  <2>1. \A j \in 1 .. (m - 1) : (q \o more)[Len(q) + j] = more[j]
    OBVIOUS
  <2>2. \A j \in 1 .. Len(q) : (q \o more)[j] = q[j]
    OBVIOUS
  <2>3. \A j \in 1 .. (i - 1) : j \in 1 .. Len(q) \/ \E k \in 1 .. (m - 1) : j = Len(q) + k
    <3> TAKE j \in 1 .. (i - 1)
    <3>1. CASE ~(j <= Len(q))
      <4>1. j - Len(q) \in 1 .. (m - 1) /\ j = Len(q) + (j - Len(q))
        BY <1>2, <3>1
      <4> QED BY <4>1
    <3> QED BY <3>1
  <2>4. CASE mid = "alive" /\ \A j \in 1 .. (m - 1) : ~IsAbout(more[j], "dead")
    <3>1. ASSUME NEW j \in 1 .. (i - 1), ~(j <= Len(q))
          PROVE  ~IsAbout((q \o more)[j], "dead")
      BY <2>1, <2>3, <2>4, <3>1
    <3>2. CASE ~Mentions(q, "dead") /\ shown = mid
      <4>1. \A j \in 1 .. Len(q) : ~IsAbout((q \o more)[j], "dead")
        BY <2>2, <3>2 DEF Mentions
      <4>3. shown = "alive"
        BY <2>4, <3>2
      <4>2. ASSUME NEW j \in 1 .. (i - 1)
            PROVE  ~IsAbout((q \o more)[j], "dead")
        <5>1. CASE j <= Len(q)
          <6>1. j \in 1 .. Len(q)
            BY <5>1
          <6> QED BY <4>1, <6>1
        <5> QED BY <3>1, <5>1
      <4> QED BY <4>2, <4>3
    <3>3. ASSUME NEW last \in 1 .. Len(q), IsAbout(q[last], "dead"), Says(q[last], "dead") = mid,
                 \A j \in (last + 1) .. Len(q) : ~IsAbout(q[j], "dead")
          PROVE  \E j \in 1 .. (i - 1) :
                   /\ (q \o more)[j].kind = "spawned"
                   /\ \A k \in (j + 1) .. (i - 1) : ~IsAbout((q \o more)[k], "dead")
      <4>1. q[last].kind = "spawned"
        BY <2>4, <3>3 DEF Says, Mortal, IsAbout
      <4>2. ASSUME NEW k \in (last + 1) .. (i - 1)
            PROVE  ~IsAbout((q \o more)[k], "dead")
        <5>1. CASE k <= Len(q)
          <6>1. k \in (last + 1) .. Len(q) /\ k \in 1 .. Len(q)
            BY <5>1
          <6> QED BY <2>2, <3>3, <6>1
        <5>2. CASE ~(k <= Len(q))
          <6>1. k \in 1 .. (i - 1)
            BY <1>2
          <6> QED BY <3>1, <5>2, <6>1
        <5> QED BY <5>1, <5>2
      <4>3. last \in 1 .. (i - 1) /\ (q \o more)[last] = q[last]
        BY <1>2
      <4> QED BY <4>1, <4>2, <4>3
    <3> QED BY <3>2, <3>3 DEF Settles
  <2>5. ASSUME NEW j \in 1 .. (m - 1), more[j].kind = "spawned",
               \A k \in (j + 1) .. (m - 1) : ~IsAbout(more[k], "dead")
        PROVE  \E n \in 1 .. (i - 1) :
                 /\ (q \o more)[n].kind = "spawned"
                 /\ \A k \in (n + 1) .. (i - 1) : ~IsAbout((q \o more)[k], "dead")
    <3>1. Len(q) + j \in 1 .. (i - 1) /\ (q \o more)[Len(q) + j].kind = "spawned"
      BY <1>2, <2>1, <2>5
    <3>2. ASSUME NEW k \in ((Len(q) + j) + 1) .. (i - 1)
          PROVE  ~IsAbout((q \o more)[k], "dead")
      <4>1. k - Len(q) \in (j + 1) .. (m - 1) /\ k = Len(q) + (k - Len(q))
        BY <1>2
      <4> QED BY <2>1, <2>5, <4>1
    <3> QED BY <3>1, <3>2
  <2> QED BY <1>2, <2>4, <2>5 DEF NoSecondDeath
<1>3. \A i \in 1 .. Len(q \o more) : (q \o more)[i].kind = "kill" =>
        \/ i \in 1 .. Len(q)
        \/ \E m \in 1 .. Len(more) : i = Len(q) + m /\ more[m].kind = "kill"
  OBVIOUS
<1> QED BY <1>1, <1>2, <1>3 DEF NoSecondDeath

LEMMA NoSecondDeathTail ==
  ASSUME NEW q, IsQueue(q), q # <<>>, NEW shown, NEW next, NoSecondDeath(q, shown),
         next = IF IsAbout(Head(q), "dead") THEN Says(Head(q), "dead") ELSE shown
  PROVE  NoSecondDeath(Tail(q), next)
<1> USE QueueTail
<1> SUFFICES ASSUME NEW m \in 1 .. Len(Tail(q)), Tail(q)[m].kind = "kill"
             PROVE  \/ /\ next = "alive" /\ \A j \in 1 .. (m - 1) : ~IsAbout(Tail(q)[j], "dead")
                    \/ \E j \in 1 .. (m - 1) :
                         /\ Tail(q)[j].kind = "spawned"
                         /\ \A k \in (j + 1) .. (m - 1) : ~IsAbout(Tail(q)[k], "dead")
  BY DEF NoSecondDeath
<1>1. m + 1 \in 1 .. Len(q) /\ q[m + 1].kind = "kill" /\ (m + 1) - 1 = m
  OBVIOUS
<1>2. \A j \in 1 .. (m - 1) : Tail(q)[j] = q[j + 1] /\ j + 1 \in 2 .. m
  OBVIOUS
<1>3. CASE shown = "alive" /\ \A j \in 1 .. m : ~IsAbout(q[j], "dead")
  <2>1. 1 \in 1 .. m /\ ~IsAbout(Head(q), "dead")
    BY <1>3
  <2>2. \A j \in 1 .. (m - 1) : j + 1 \in 1 .. m
    OBVIOUS
  <2> QED BY <1>2, <1>3, <2>1, <2>2
<1>4. ASSUME NEW j \in 1 .. m, q[j].kind = "spawned",
             \A k \in (j + 1) .. m : ~IsAbout(q[k], "dead")
      PROVE  \/ /\ next = "alive" /\ \A l \in 1 .. (m - 1) : ~IsAbout(Tail(q)[l], "dead")
             \/ \E l \in 1 .. (m - 1) :
                  /\ Tail(q)[l].kind = "spawned"
                  /\ \A k \in (l + 1) .. (m - 1) : ~IsAbout(Tail(q)[k], "dead")
  <2>1. CASE j = 1
    <3>1. next = "alive"
      BY <1>4, <2>1 DEF IsAbout, Says, Mortal
    <3>2. \A l \in 1 .. (m - 1) : l + 1 \in (j + 1) .. m
      BY <2>1
    <3> QED BY <1>2, <1>4, <3>1, <3>2
  <2>2. CASE j # 1
    <3>1. j - 1 \in 1 .. (m - 1) /\ Tail(q)[j - 1].kind = "spawned"
      BY <1>2, <1>4, <2>2
    <3>2. ASSUME NEW k \in ((j - 1) + 1) .. (m - 1)
          PROVE  ~IsAbout(Tail(q)[k], "dead")
      <4>1. k \in 1 .. (m - 1) /\ k + 1 \in (j + 1) .. m
        BY <2>2
      <4> QED BY <1>2, <1>4, <4>1
    <3> QED BY <3>1, <3>2
  <2> QED BY <2>1, <2>2
<1> QED BY <1>1, <1>3, <1>4 DEF NoSecondDeath

LEMMA NewIsNewConcat ==
  ASSUME NEW q, NEW more, IsQueue(q), IsQueue(more), NEW toasts, NEW mid, NEW seen,
         NewIsNew(q, toasts, mid), NewIsNew(more, mid, seen)
  PROVE  NewIsNew(q \o more, toasts, seen)
<1> USE QueueConcat
<1>1. toasts \subseteq mid /\ mid \subseteq seen
  BY DEF NewIsNew
<1>2. ASSUME NEW i \in 1 .. Len(q), (q \o more)[i].kind = "new"
      PROVE  /\ (q \o more)[i].item \in seen \ toasts
             /\ \A j \in 1 .. (i - 1) : (q \o more)[j].kind = "new" =>
                  (q \o more)[j].item # (q \o more)[i].item
  <2>1. \A j \in 1 .. i : (q \o more)[j] = q[j]
    OBVIOUS
  <2> QED BY <1>1, <1>2, <2>1 DEF NewIsNew
<1>3. ASSUME NEW m \in 1 .. Len(more), more[m].kind = "new", NEW i, i = Len(q) + m
      PROVE  /\ (q \o more)[i].item \in seen \ toasts
             /\ \A j \in 1 .. (i - 1) : (q \o more)[j].kind = "new" =>
                  (q \o more)[j].item # (q \o more)[i].item
  <2>1. (q \o more)[i] = more[m] /\ more[m].item \in seen \ mid
    BY <1>3 DEF NewIsNew
  <2>2. ASSUME NEW j \in 1 .. (i - 1), (q \o more)[j].kind = "new"
        PROVE  (q \o more)[j].item # (q \o more)[i].item
    <3>1. CASE j <= Len(q)
      <4>1. j \in 1 .. Len(q) /\ (q \o more)[j] = q[j]
        BY <3>1
      <4>2. q[j].item \in mid
        BY <2>2, <4>1 DEF NewIsNew
      <4> QED BY <2>1, <4>1, <4>2
    <3>2. CASE ~(j <= Len(q))
      <4>1. PICK k \in 1 .. (m - 1) : j = Len(q) + k
        <5>1. j - Len(q) \in 1 .. (m - 1) /\ j = Len(q) + (j - Len(q))
          BY <1>3, <3>2
        <5> QED BY <5>1
      <4>2. k \in 1 .. Len(more) /\ (q \o more)[j] = more[k]
        BY <4>1
      <4>3. more[k].item # more[m].item
        BY <1>3, <2>2, <4>2 DEF NewIsNew
      <4> QED BY <2>1, <4>2, <4>3
    <3> QED BY <3>1, <3>2
  <2> QED BY <1>1, <2>1, <2>2
<1>4. \A i \in 1 .. Len(q \o more) : (q \o more)[i].kind = "new" =>
        \/ i \in 1 .. Len(q)
        \/ \E m \in 1 .. Len(more) : i = Len(q) + m /\ more[m].kind = "new"
  OBVIOUS
<1>5. ASSUME NEW i \in 1 .. Len(q \o more), (q \o more)[i].kind = "new"
      PROVE  /\ (q \o more)[i].item \in seen \ toasts
             /\ \A j \in 1 .. (i - 1) : (q \o more)[j].kind = "new" =>
                  (q \o more)[j].item # (q \o more)[i].item
  <2>1. CASE i \in 1 .. Len(q)
    BY <1>2, <1>5, <2>1, Zenon
  <2>2. CASE \E m \in 1 .. Len(more) : i = Len(q) + m /\ more[m].kind = "new"
    <3>1. PICK m \in 1 .. Len(more) : i = Len(q) + m /\ more[m].kind = "new"
      BY <2>2
    <3> QED BY <1>3, <3>1, Zenon
  <2> QED BY <1>4, <1>5, <2>1, <2>2, Zenon
<1>6. toasts \subseteq seen
  BY <1>1
<1> QED BY <1>5, <1>6, Zenon DEF NewIsNew

LEMMA NewIsNewTail ==
  ASSUME NEW q, IsQueue(q), q # <<>>, NEW toasts, NEW seen, NewIsNew(q, toasts, seen)
  PROVE  NewIsNew(Tail(q), IF Head(q).kind = "new" THEN toasts \cup {Head(q).item} ELSE toasts,
                  seen)
<1> DEFINE next == IF Head(q).kind = "new" THEN toasts \cup {Head(q).item} ELSE toasts
<1> USE QueueTail
<1>1. next \subseteq seen
  BY DEF NewIsNew
<1>2. ASSUME NEW m \in 1 .. Len(Tail(q)), Tail(q)[m].kind = "new"
      PROVE  /\ Tail(q)[m].item \in seen \ next
             /\ \A j \in 1 .. (m - 1) : Tail(q)[j].kind = "new" =>
                  Tail(q)[j].item # Tail(q)[m].item
  <2>1. Tail(q)[m] = q[m + 1] /\ m + 1 \in 1 .. Len(q) /\ 1 \in 1 .. ((m + 1) - 1)
    OBVIOUS
  <2>2. /\ q[m + 1].item \in seen \ toasts
        /\ \A j \in 1 .. ((m + 1) - 1) : q[j].kind = "new" => q[j].item # q[m + 1].item
    BY <1>2, <2>1 DEF NewIsNew
  <2>3. \A j \in 1 .. (m - 1) : Tail(q)[j] = q[j + 1] /\ j + 1 \in 1 .. ((m + 1) - 1)
    OBVIOUS
  <2> QED BY <2>1, <2>2, <2>3
<1> HIDE DEF next
<1>3. NewIsNew(Tail(q), next, seen)
  BY <1>1, <1>2 DEF NewIsNew
<1> QED BY <1>3 DEF next

-----------------------------------------------------------------------------
(* What the server says when the session goes from s to t. *)

Told(about) == about \in Subjects /\ (about = "bar" => carries)

Tells(s, t, packets) ==
  /\ IsQueue(packets) /\ \A i \in 1 .. Len(packets) : IsPacket(packets[i])
  /\ \A about \in Subjects :
       Told(about) => Settles(packets, about, Right(s, about), Right(t, about))
  /\ NoSecondDeath(packets, Right(s, "dead"))
  /\ NewIsNew(packets, s.seen, t.seen)

(* One handler: the session becomes t, and the client is told.             *)
Handled(s, t, packets) ==
  /\ IsSession(t) /\ session_hud' = t /\ answers' = answers \o packets
  /\ Tells(s, t, packets)

LEMMA TellsNothing ==
  ASSUME NEW s, NEW t, s.seen = t.seen,
         \A about \in Subjects : Told(about) => Right(s, about) = Right(t, about)
  PROVE  Tells(s, t, <<>>)
<1>1. 1 .. Len(<<>>) = {} /\ IsQueue(<<>>)
  BY ShortQueues
<1>2. \A about \in Subjects : Told(about) => Settles(<<>>, about, Right(s, about), Right(t, about))
  BY SettlesShort
<1>3. NoSecondDeath(<<>>, Right(s, "dead")) /\ NewIsNew(<<>>, s.seen, t.seen)
  BY <1>1 DEF NoSecondDeath, NewIsNew
<1> QED BY <1>1, <1>2, <1>3 DEF Tells

LEMMA TellsOne ==
  ASSUME NEW s, NEW t, s.seen = t.seen, NEW packet, IsPacket(packet),
         packet.kind \notin {"kill", "new"},
         \A about \in Subjects : Told(about) =>
           IF IsAbout(packet, about) THEN Says(packet, about) = Right(t, about)
                                     ELSE Right(s, about) = Right(t, about)
  PROVE  Tells(s, t, <<packet>>)
<1> DEFINE one == <<packet>>
<1>1. \A about \in Subjects : Told(about) => Settles(one, about, Right(s, about), Right(t, about))
  BY SettlesShort
<1>2. IsQueue(one) /\ Len(one) = 1 /\ one[1] = packet
  BY ShortQueues
<1> HIDE DEF one
<1>3. \A i \in 1 .. Len(one) : one[i] = packet
  BY <1>2
<1>4. NoSecondDeath(one, Right(s, "dead")) /\ NewIsNew(one, s.seen, t.seen)
  BY <1>3 DEF NoSecondDeath, NewIsNew
<1>5. Tells(s, t, one)
  BY <1>1, <1>2, <1>3, <1>4 DEF Tells
<1> QED BY <1>5 DEF one

(* Hurt to death, or revived: the hearts, and whether there are any.       *)
LEMMA TellsLifeAndDeath ==
  ASSUME NEW s, NEW t, s.seen = t.seen, NEW first, NEW second,
         IsPacket(first), IsPacket(second),
         \/ first.kind = "hearts" /\ second.kind = "kill" /\ first.hearts = player_health(t)
            /\ Right(s, "dead") = "alive" /\ Right(t, "dead") = "dead"
         \/ first.kind = "spawned" /\ second.kind = "hearts" /\ second.hearts = player_health(t)
            /\ Right(t, "dead") = "alive",
         s.tasks = t.tasks, s.bar = t.bar, s.active = t.active
  PROVE  Tells(s, t, <<first, second>>)
<1> DEFINE two == <<first, second>>
<1>1. ASSUME NEW about \in Subjects
      PROVE  Settles(two, about, Right(s, about), Right(t, about))
  <2>1. CASE about = "hearts"
    <3>1. \/ IsAbout(first, about) /\ ~IsAbout(second, about) /\ Says(first, about) = Right(t, about)
          \/ ~IsAbout(first, about) /\ IsAbout(second, about) /\ Says(second, about) = Right(t, about)
      BY <2>1 DEF IsAbout, Says, Right
    <3> QED BY <3>1, SettlesShort
  <2>2. CASE about = "dead"
    <3>1. \/ IsAbout(first, about) /\ ~IsAbout(second, about) /\ Says(first, about) = Right(t, about)
          \/ ~IsAbout(first, about) /\ IsAbout(second, about) /\ Says(second, about) = Right(t, about)
      BY <2>2 DEF IsAbout, Says, Mortal
    <3> QED BY <3>1, SettlesShort
  <2>3. CASE about \in {"tasks", "bar"}
    <3>1. ~IsAbout(first, about) /\ ~IsAbout(second, about) /\ Right(s, about) = Right(t, about)
      BY <2>3 DEF IsAbout, Right
    <3> QED BY <3>1, SettlesShort
  <2> QED BY <2>1, <2>2, <2>3 DEF Subjects
<1>2. IsQueue(two) /\ Len(two) = 2 /\ two[1] = first /\ two[2] = second
  BY ShortQueues
<1> HIDE DEF two
<1>3. \A i \in 1 .. Len(two) : (i = 1 /\ two[i] = first) \/ (i = 2 /\ two[i] = second)
  BY <1>2
<1>4. NewIsNew(two, s.seen, t.seen)
  BY <1>3 DEF NewIsNew
<1>5. NoSecondDeath(two, Right(s, "dead"))
  <2>1. ASSUME NEW i \in 1 .. Len(two), two[i].kind = "kill"
        PROVE  Right(s, "dead") = "alive" /\ \A j \in 1 .. (i - 1) : ~IsAbout(two[j], "dead")
    <3>1. i = 2 /\ Right(s, "dead") = "alive" /\ two[1].kind = "hearts"
      BY <1>2, <1>3, <2>1
    <3>2. 1 .. (i - 1) = {1}
      BY <3>1
    <3> QED BY <3>1, <3>2 DEF IsAbout
  <2> QED BY <2>1 DEF NoSecondDeath
<1>6. Tells(s, t, two)
  BY <1>1, <1>2, <1>3, <1>4, <1>5 DEF Tells
<1> QED BY <1>6 DEF two

LEMMA ShownIsRight ==
  ASSUME NEW s, NEW t
  PROVE  /\ s.damage = t.damage => Right(s, "hearts") = Right(t, "hearts")
                                   /\ Right(s, "dead") = Right(t, "dead")
         /\ s.tasks = t.tasks => Right(s, "tasks") = Right(t, "tasks")
         /\ s.bar = t.bar /\ s.active = t.active => Right(s, "bar") = Right(t, "bar")
BY DEF Right, player_health

-----------------------------------------------------------------------------
(* The handlers. *)

LEMMA LeastOfTwo ==
  ASSUME NEW a \in Nat, NEW b \in Nat
  PROVE  Min({a, b}) = IF a <= b THEN a ELSE b
<1>1. CASE a <= b
  <2>1. \A x \in {a, b} : (\A y \in {a, b} : x <= y) <=> x = a
    BY <1>1
  <2> QED BY <1>1, <2>1 DEF Min
<1>2. CASE ~(a <= b)
  <2>1. \A x \in {a, b} : (\A y \in {a, b} : x <= y) <=> x = b
    BY <1>2
  <2> QED BY <1>2, <2>1 DEF Min
<1> QED BY <1>1, <1>2

LEMMA ConcatNothing ==
  ASSUME NEW q, IsQueue(q)
  PROVE  q \o <<>> = q
<1>1. PICK S : q \in Seq(S)
  BY DEF IsQueue
<1> QED BY <1>1, ConcatEmptySeq

LEMMA HurtTells ==
  ASSUME NEW s, IsSession(s), session_hud = s, IsQueue(answers), hurt_player(s)
  PROVE  \E t, packets : Handled(s, t, packets) /\ t.bar = s.bar /\ t.restored = s.restored
<1> DEFINE least == Min({s.damage + FALL_DAMAGE, PLAYER_HEALTH})
           hurt  == [s EXCEPT !.damage = least]
<1>1. s.damage \in 0 .. PLAYER_HEALTH /\ PLAYER_HEALTH \in Nat /\ FALL_DAMAGE \in Nat
  BY HudAssumption DEF IsSession
<1>2. CASE ~MayBeHurt(s)
  <2>1. session_hud' = s /\ answers' = answers \o <<>>
    BY <1>2, ConcatNothing DEF hurt_player
  <2>2. Tells(s, s, <<>>)
    BY TellsNothing
  <2> QED BY <2>1, <2>2 DEF Handled
<1>3. CASE MayBeHurt(s)
  <2>1. least \in 0 .. PLAYER_HEALTH
    BY <1>1, LeastOfTwo
  <2> HIDE DEF least
  <2>2. /\ IsSession(hurt) /\ hurt.damage = least
        /\ hurt.seen = s.seen /\ hurt.tasks = s.tasks /\ hurt.bar = s.bar
        /\ hurt.active = s.active /\ hurt.restored = s.restored
    BY <2>1 DEF IsSession
  <2>3. session_hud' = hurt
        /\ answers' = answers \o (sync_health(hurt) \o IF player_health(hurt) = 0
                                                       THEN <<[kind |-> "kill"]>> ELSE <<>>)
    BY <1>3 DEF hurt_player, Answer, least
  <2> HIDE DEF hurt
  <2> DEFINE hearts == [kind |-> "hearts", hearts |-> player_health(hurt)]
             kill   == [kind |-> "kill"]
  <2>4. Right(s, "dead") = "alive"
    BY <1>1, <1>3 DEF MayBeHurt, Right, Mortal, player_health
  <2>5. CASE player_health(hurt) = 0
    <3>1. answers' = answers \o <<hearts, kill>>
      BY <2>3, <2>5, ShortQueues DEF sync_health
    <3>2. Right(hurt, "dead") = "dead"
      BY <2>5 DEF Right, Mortal
    <3>3. /\ IsPacket(hearts) /\ IsPacket(kill) /\ hearts.kind = "hearts" /\ kill.kind = "kill"
          /\ hearts.hearts = player_health(hurt)
      BY DEF IsPacket
    <3> HIDE DEF hearts, kill
    <3>4. Tells(s, hurt, <<hearts, kill>>)
      BY <2>2, <2>4, <3>2, <3>3, TellsLifeAndDeath
    <3> QED BY <2>2, <2>3, <3>1, <3>4 DEF Handled
  <2>6. CASE player_health(hurt) # 0
    <3>1. answers' = answers \o <<hearts>>
      <4>1. IsQueue(<<hearts>>)
        BY ShortQueues
      <4>2. <<hearts>> \o <<>> = <<hearts>>
        BY <4>1, ConcatNothing
      <4> QED BY <2>3, <2>6, <4>2 DEF sync_health
    <3>2. Right(hurt, "dead") = "alive"
      BY <2>6 DEF Right, Mortal
    <3>3. IsPacket(hearts) /\ hearts.kind = "hearts" /\ hearts.hearts = player_health(hurt)
      BY DEF IsPacket
    <3> HIDE DEF hearts
    <3>4. ASSUME NEW about \in Subjects
          PROVE  IF IsAbout(hearts, about) THEN Says(hearts, about) = Right(hurt, about)
                                           ELSE Right(s, about) = Right(hurt, about)
      <4>1. CASE about = "hearts"
        BY <3>3, <4>1 DEF IsAbout, Says, Right
      <4>2. CASE about # "hearts"
        <5>1. Right(s, about) = Right(hurt, about)
          BY <2>2, <2>4, <3>2, <4>2, ShownIsRight DEF Subjects
        <5> QED BY <3>3, <4>2, <5>1 DEF IsAbout
      <4> QED BY <4>1, <4>2
    <3>5. Tells(s, hurt, <<hearts>>)
      BY <2>2, <3>3, <3>4, TellsOne
    <3> QED BY <2>2, <2>3, <3>1, <3>5 DEF Handled
  <2> QED BY <2>5, <2>6
<1> QED BY <1>2, <1>3

LEMMA RespawnTells ==
  ASSUME NEW s, IsSession(s), session_hud = s, IsQueue(answers), respawn(s)
  PROVE  \E t, packets : Handled(s, t, packets) /\ t.bar = s.bar /\ t.restored = s.restored
<1> DEFINE well == [s EXCEPT !.damage = 0]
           spawned == [kind |-> "spawned"]
           hearts  == [kind |-> "hearts", hearts |-> player_health(well)]
<1>1. /\ IsSession(well) /\ well.damage = 0
      /\ well.seen = s.seen /\ well.tasks = s.tasks /\ well.bar = s.bar /\ well.active = s.active
      /\ well.restored = s.restored
  BY HudAssumption DEF IsSession
<1>2. session_hud' = well /\ answers' = answers \o <<spawned, hearts>>
  BY ShortQueues DEF respawn, Answer, Revived, sync_health
<1> HIDE DEF well
<1>3. Right(well, "dead") = "alive"
  BY <1>1, HudAssumption DEF Right, Mortal, player_health
<1>4. /\ IsPacket(spawned) /\ IsPacket(hearts) /\ spawned.kind = "spawned"
      /\ hearts.kind = "hearts" /\ hearts.hearts = player_health(well)
  BY DEF IsPacket
<1> HIDE DEF spawned, hearts
<1>5. Tells(s, well, <<spawned, hearts>>)
  BY <1>1, <1>3, <1>4, TellsLifeAndDeath
<1> QED BY <1>1, <1>2, <1>5 DEF Handled

LEMMA TasksTell ==
  ASSUME NEW s, IsSession(s), NEW tasks, NEW t, t = [s EXCEPT !.tasks = tasks],
         Answer(t, sync_tasks(t))
  PROVE  /\ \E packets : Handled(s, t, packets) /\ Mentions(packets, "tasks")
         /\ t.bar = s.bar /\ t.restored = s.restored
<1> DEFINE packet == [kind |-> "tasks", tasks |-> t.tasks]
<1>1. /\ IsSession(t) /\ t.tasks = tasks /\ t.seen = s.seen /\ t.damage = s.damage
      /\ t.bar = s.bar /\ t.active = s.active /\ t.restored = s.restored
  BY DEF IsSession
<1>2. IsPacket(packet) /\ packet.kind = "tasks" /\ packet.tasks = t.tasks
  BY DEF IsPacket
<1>3. session_hud' = t /\ answers' = answers \o <<packet>>
  BY DEF Answer, sync_tasks
<1> HIDE DEF packet
<1>4. ASSUME NEW about \in Subjects
      PROVE  IF IsAbout(packet, about) THEN Says(packet, about) = Right(t, about)
                                       ELSE Right(s, about) = Right(t, about)
  <2>1. CASE about = "tasks"
    BY <1>2, <2>1 DEF IsAbout, Says, Right
  <2>2. CASE about # "tasks"
    <3>1. Right(s, about) = Right(t, about)
      BY <1>1, <2>2, ShownIsRight DEF Subjects
    <3> QED BY <1>2, <2>2, <3>1 DEF IsAbout
  <2> QED BY <2>1, <2>2
<1>5. Tells(s, t, <<packet>>)
  BY <1>1, <1>2, <1>4, TellsOne
<1>6. Mentions(<<packet>>, "tasks")
  BY <1>2, SettlesShort DEF IsAbout
<1> QED BY <1>1, <1>3, <1>5, <1>6 DEF Handled

LEMMA AddTells ==
  ASSUME NEW s, IsSession(s), session_hud = s, IsQueue(answers), todo_add(s)
  PROVE  \E t, packets : Handled(s, t, packets) /\ t.bar = s.bar /\ t.restored = s.restored
<1> DEFINE more == [s EXCEPT !.tasks = Append(s.tasks, free_id(s.tasks))]
<1>1. CASE Len(s.tasks) >= TASK_LIST_DEFAULT
  <2>1. session_hud' = s /\ answers' = answers \o <<>>
    BY <1>1, ConcatNothing DEF todo_add
  <2>2. Tells(s, s, <<>>)
    BY TellsNothing
  <2> QED BY <2>1, <2>2 DEF Handled
<1>2. CASE ~(Len(s.tasks) >= TASK_LIST_DEFAULT)
  <2>1. Answer(more, sync_tasks(more))
    BY <1>2 DEF todo_add
  <2> QED BY <2>1, TasksTell
<1> QED BY <1>1, <1>2

LEMMA EraseTells ==
  ASSUME NEW s, IsSession(s), NEW task, todo_erase(s, task)
  PROVE  \E t, packets : /\ Handled(s, t, packets) /\ Mentions(packets, "tasks")
                        /\ t.bar = s.bar /\ t.restored = s.restored
<1> DEFINE fewer == [s EXCEPT !.tasks = TasksWithout(s.tasks, task)]
<1>1. Answer(fewer, sync_tasks(fewer))
  BY DEF todo_erase
<1> QED BY <1>1, TasksTell

(* The hotbar, to whoever is told of it.                                   *)
LEMMA EchoTells ==
  ASSUME NEW s, IsSession(s), NEW t, IsSession(t),
         t.seen = s.seen, t.damage = s.damage, t.tasks = s.tasks,
         NEW what, what.bar = t.bar, what.active = t.active
  PROVE  /\ Tells(s, t, echo_hotbar(what))
         /\ carries => Mentions(echo_hotbar(what), "bar")
<1>1. CASE carries
  <2> DEFINE packet == [kind |-> "bar", bar |-> what.bar, active |-> what.active]
  <2>1. /\ IsPacket(packet) /\ packet.kind = "bar" /\ packet.bar = t.bar
        /\ packet.active = t.active
    BY DEF IsPacket, IsSession
  <2>2. echo_hotbar(what) = <<packet>>
    BY <1>1 DEF echo_hotbar
  <2> HIDE DEF packet
  <2>3. ASSUME NEW about \in Subjects
        PROVE  IF IsAbout(packet, about) THEN Says(packet, about) = Right(t, about)
                                         ELSE Right(s, about) = Right(t, about)
    <3>1. CASE about = "bar"
      BY <2>1, <3>1 DEF IsAbout, Says, Right
    <3>2. CASE about # "bar"
      <4>1. Right(s, about) = Right(t, about)
        BY <3>2, ShownIsRight DEF Subjects
      <4> QED BY <2>1, <3>2, <4>1 DEF IsAbout
    <3> QED BY <3>1, <3>2
  <2>4. Tells(s, t, <<packet>>)
    BY <2>1, <2>3, TellsOne
  <2>5. Mentions(<<packet>>, "bar")
    BY <2>1, SettlesShort DEF IsAbout
  <2> QED BY <2>2, <2>4, <2>5
<1>2. CASE ~carries
  <2>1. echo_hotbar(what) = <<>>
    BY <1>2 DEF echo_hotbar
  <2>2. \A about \in Subjects : Told(about) => Right(s, about) = Right(t, about)
    BY <1>2, ShownIsRight DEF Subjects, Told
  <2>3. Tells(s, t, <<>>)
    BY <2>2, TellsNothing
  <2> QED BY <1>2, <2>1, <2>3
<1> QED BY <1>1, <1>2

LEMMA BindTells ==
  ASSUME NEW s, IsSession(s), NEW ask, IsAsk(ask), ask.kind = "bind", bind_hand(s, ask)
  PROVE  \E t, packets :
           /\ Handled(s, t, packets) /\ (carries => Mentions(packets, "bar"))
           /\ t.bar = [s.bar EXCEPT ![ask.place] = ask.item] /\ t.restored = s.restored
<1> DEFINE bound == [s EXCEPT !.bar[ask.place] = ask.item, !.active = ask.place[1]]
<1>1. [s.bar EXCEPT ![ask.place] = ask.item] \in Bars
  BY DEF IsSession, IsAsk, Bars
<1>2. /\ IsSession(bound) /\ bound.seen = s.seen /\ bound.damage = s.damage
      /\ bound.tasks = s.tasks /\ bound.bar = [s.bar EXCEPT ![ask.place] = ask.item]
      /\ bound.restored = s.restored
  <2> DEFINE bar == [s.bar EXCEPT ![ask.place] = ask.item]
             square == ask.place[1]
  <2>1. bound = [s EXCEPT !.bar = bar, !.active = square] /\ bar \in Bars
    BY <1>1
  <2> HIDE DEF bar, square, bound
  <2>2. /\ IsSession(bound) /\ bound.seen = s.seen /\ bound.damage = s.damage
        /\ bound.tasks = s.tasks /\ bound.bar = bar /\ bound.restored = s.restored
    BY <2>1 DEF IsSession
  <2> QED BY <2>2 DEF bar
<1>3. session_hud' = bound /\ answers' = answers \o echo_hotbar(bound)
  BY DEF bind_hand, Answer
<1> HIDE DEF bound
<1>4. Tells(s, bound, echo_hotbar(bound)) /\ (carries => Mentions(echo_hotbar(bound), "bar"))
  BY <1>2, EchoTells
<1> QED BY <1>2, <1>3, <1>4 DEF Handled

LEMMA SelectTells ==
  ASSUME NEW s, IsSession(s), NEW square, SetActiveSlot(s, square)
  PROVE  \E t, packets : /\ Handled(s, t, packets) /\ (carries => Mentions(packets, "bar"))
                         /\ t.bar = s.bar /\ t.restored = s.restored
<1> DEFINE turned == [s EXCEPT !.active = square]
<1>1. /\ IsSession(turned) /\ turned.seen = s.seen /\ turned.damage = s.damage
      /\ turned.tasks = s.tasks /\ turned.bar = s.bar /\ turned.restored = s.restored
  BY DEF IsSession
<1>2. session_hud' = turned /\ answers' = answers \o echo_hotbar(turned)
  BY DEF SetActiveSlot, Answer
<1> HIDE DEF turned
<1>3. Tells(s, turned, echo_hotbar(turned)) /\ (carries => Mentions(echo_hotbar(turned), "bar"))
  BY <1>1, EchoTells
<1> QED BY <1>1, <1>2, <1>3 DEF Handled

(* A set is read out one by one, nothing twice.                            *)
LEMMA ReadOut ==
  ASSUME NEW S, IsFiniteSet(S)
  PROVE  /\ IsQueue(SetToSeq(S))
         /\ \A i \in 1 .. Len(SetToSeq(S)) : SetToSeq(S)[i] \in S
         /\ \A i, j \in 1 .. Len(SetToSeq(S)) : SetToSeq(S)[i] = SetToSeq(S)[j] => i = j
<1> DEFINE n == Cardinality(S)
<1>1. n \in Nat /\ ExistsBijection(1 .. n, S)
  BY FS_CardinalityType
<1>2. \E f \in [1 .. n -> S] : IsInjective(f)
  <2>1. PICK f \in Bijection(1 .. n, S) : TRUE
    BY <1>1, Zenon DEF ExistsBijection
  <2>2. f \in Injection(1 .. n, S)
    BY <2>1, Zenon DEF Bijection
  <2> QED BY <2>2, Zenon DEF Injection
<1>3. SetToSeq(S) \in [1 .. n -> S] /\ IsInjective(SetToSeq(S))
  BY <1>2 DEF SetToSeq
<1> HIDE DEF n
<1>4. SetToSeq(S) \in Seq(S) /\ Len(SetToSeq(S)) = n
  BY <1>1, <1>3
<1>5. IsQueue(SetToSeq(S))
  BY <1>4 DEF IsQueue
<1> QED BY <1>3, <1>4, <1>5 DEF IsInjective

LEMMA DiscoveriesTell ==
  ASSUME NEW s, IsSession(s), NEW goods \in SUBSET Goods, announce_discoveries(s, goods)
  PROVE  \E t, packets : /\ Handled(s, t, packets)
                         /\ t.bar = s.bar /\ t.restored = s.restored
<1> DEFINE fresh   == goods \ s.seen
           notice(item) == [kind |-> "new", item |-> item]
           notices == {notice(item) : item \in fresh}
           t       == [s EXCEPT !.seen = s.seen \cup goods]
           packets == SetToSeq(notices)
<1>1. /\ IsSession(t) /\ t.seen = s.seen \cup goods /\ t.damage = s.damage
      /\ t.tasks = s.tasks /\ t.bar = s.bar /\ t.active = s.active /\ t.restored = s.restored
  BY DEF IsSession
<1>2. session_hud' = t /\ answers' = answers \o packets
  BY DEF announce_discoveries, Answer, SeenBy
<1>3. IsFiniteSet(notices)
  <2>1. IsFiniteSet(fresh)
    BY HudAssumption, FS_Subset
  <2>2. [item \in fresh |-> notice(item)] \in Surjection(fresh, notices)
    BY DEF Surjection
  <2> QED BY <2>1, <2>2, FS_Surjection
<1> HIDE DEF t
<1>4. /\ IsQueue(packets)
      /\ \A i \in 1 .. Len(packets) : packets[i] \in notices
      /\ \A i, j \in 1 .. Len(packets) : packets[i] = packets[j] => i = j
  BY <1>3, ReadOut
<1> HIDE DEF packets
<1>5. ASSUME NEW i \in 1 .. Len(packets)
      PROVE  /\ packets[i] = [kind |-> "new", item |-> packets[i].item]
             /\ packets[i].kind = "new" /\ packets[i].item \in goods \ s.seen
  <2>1. PICK item \in fresh : packets[i] = notice(item)
    BY <1>4
  <2> QED BY <2>1
<1>6. \A i \in 1 .. Len(packets) : IsPacket(packets[i])
  BY <1>5 DEF IsPacket
<1>7. ASSUME NEW about \in Subjects
      PROVE  Settles(packets, about, Right(s, about), Right(t, about))
  <2>1. ~Mentions(packets, about)
    BY <1>5 DEF Mentions, IsAbout
  <2>2. Right(s, about) = Right(t, about)
    BY <1>1, ShownIsRight DEF Subjects
  <2> QED BY <2>1, <2>2 DEF Settles
<1>8. NoSecondDeath(packets, Right(s, "dead"))
  BY <1>5 DEF NoSecondDeath
<1>9. NewIsNew(packets, s.seen, t.seen)
  <2>1. ASSUME NEW i \in 1 .. Len(packets), NEW j \in 1 .. (i - 1)
        PROVE  packets[j].item # packets[i].item
    <3>1. PICK S : packets \in Seq(S)
      BY <1>4 DEF IsQueue
    <3>2. j \in 1 .. Len(packets) /\ j # i
      BY <3>1
    <3> QED BY <1>4, <1>5, <3>2
  <2> QED BY <1>1, <1>5, <2>1 DEF NewIsNew
<1>10. Tells(s, t, packets)
  BY <1>4, <1>6, <1>7, <1>8, <1>9 DEF Tells
<1> QED BY <1>1, <1>2, <1>10 DEF Handled

LEMMA TickTells ==
  ASSUME IsSession(session_hud), stored_bar \in Bars, IsQueue(answers), HudTick
  PROVE  \E packets :
           LET s == restore_hotbars(session_hud)
               t == [s EXCEPT !.recorded = s.bar]
           IN  Handled(session_hud, t, packets)
<1> DEFINE s == restore_hotbars(session_hud)
           t == [s EXCEPT !.recorded = s.bar]
           rung == s # session_hud /\ stored_bar # EmptyBar
<1>1. IsSession(s) /\ s.active = session_hud.active /\ s.seen = session_hud.seen
      /\ s.damage = session_hud.damage /\ s.tasks = session_hud.tasks
  <2>1. [place \in DOMAIN session_hud.bar |->
           IF stored_bar[place] = Unbound THEN session_hud.bar[place] ELSE stored_bar[place]]
        \in Bars
    BY DEF IsSession, Bars
  <2>2. CASE carries /\ ~session_hud.restored
    <3> DEFINE bar == [place \in DOMAIN session_hud.bar |->
                         IF stored_bar[place] = Unbound THEN session_hud.bar[place]
                                                        ELSE stored_bar[place]]
    <3>1. s = [session_hud EXCEPT !.bar = bar, !.restored = TRUE] /\ bar \in Bars
      BY <2>1, <2>2 DEF restore_hotbars, restore_bindings
    <3> HIDE DEF bar, s
    <3> QED BY <3>1 DEF IsSession
  <2>3. CASE ~(carries /\ ~session_hud.restored)
    BY <2>3 DEF restore_hotbars
  <2> QED BY <2>2, <2>3
<1>2. ~rung => s.bar = session_hud.bar
  <2>1. ASSUME stored_bar = EmptyBar, carries, ~session_hud.restored
        PROVE  s.bar = session_hud.bar
    <3>1. \A place \in DOMAIN session_hud.bar : stored_bar[place] = Unbound
      BY <2>1 DEF EmptyBar, IsSession, Bars
    <3>2. s.bar = [place \in DOMAIN session_hud.bar |->
                     IF stored_bar[place] = Unbound THEN session_hud.bar[place]
                                                    ELSE stored_bar[place]]
      BY <2>1 DEF restore_hotbars, restore_bindings, IsSession
    <3> QED BY <3>1, <3>2 DEF IsSession, Bars
  <2> QED BY <2>1 DEF restore_hotbars
<1>3. session_hud' = t /\ answers' = answers \o (IF rung THEN echo_hotbar(s) ELSE <<>>)
  BY DEF HudTick, Answer
<1> HIDE DEF s, rung
<1>4. /\ IsSession(t) /\ t.active = s.active /\ t.seen = s.seen /\ t.damage = s.damage
      /\ t.tasks = s.tasks /\ t.bar = s.bar
  BY <1>1 DEF IsSession
<1> HIDE DEF t
<1>5. CASE rung
  <2>1. Tells(session_hud, t, echo_hotbar(s))
    BY <1>1, <1>4, EchoTells
  <2>2. Handled(session_hud, t, echo_hotbar(s))
    BY <1>3, <1>4, <1>5, <2>1 DEF Handled
  <2> QED BY <2>2 DEF s, t
<1>6. CASE ~rung
  <2>1. t.bar = session_hud.bar /\ t.active = session_hud.active /\ t.seen = session_hud.seen
        /\ t.damage = session_hud.damage /\ t.tasks = session_hud.tasks
    BY <1>1, <1>2, <1>4, <1>6
  <2>2. \A about \in Subjects : Told(about) => Right(session_hud, about) = Right(t, about)
    BY <2>1, ShownIsRight DEF Subjects
  <2>3. Tells(session_hud, t, <<>>)
    BY <2>1, <2>2, TellsNothing
  <2>4. Handled(session_hud, t, <<>>)
    BY <1>3, <1>4, <1>6, <2>3 DEF Handled
  <2> QED BY <2>4 DEF s, t
<1> QED BY <1>5, <1>6

(* Whatever is asked: what the client has changed on its own screen it is  *)
(* told again.                                                             *)
LEMMA AskTells ==
  ASSUME HudTyped, HandleAsk
  PROVE  \E t, packets :
           /\ Handled(session_hud, t, packets)
           /\ \A about \in Subjects :
                Told(about) /\ Alters(Head(asks), about) => Mentions(packets, about)
           /\ t.restored = session_hud.restored
           /\ \/ t.bar = session_hud.bar
              \/ /\ Head(asks).kind = "bind"
                 /\ t.bar = [session_hud.bar EXCEPT ![Head(asks).place] = Head(asks).item]
<1> DEFINE ask == Head(asks)
           s == session_hud
<1>1. IsSession(s) /\ IsQueue(answers)
  BY DEF HudTyped
<1>2. IsAsk(ask)
  <2>1. asks # <<>> /\ IsQueue(asks)
    BY DEF HandleAsk, HudTyped
  <2>2. ask = asks[1] /\ 1 \in 1 .. Len(asks)
    BY <2>1, QueueTail
  <2> QED BY <2>2 DEF HudTyped
<1>3. \/ ask.kind = "bind" /\ bind_hand(s, ask)
      \/ ask.kind = "select" /\ SetActiveSlot(s, ask.square)
      \/ ask.kind = "fell" /\ hurt_player(s)
      \/ ask.kind \in {"off", "respawn"} /\ respawn(s)
      \/ ask.kind = "add" /\ todo_add(s)
      \/ ask.kind = "erase" /\ todo_erase(s, ask.task)
  BY <1>2 DEF HandleAsk, IsAsk, Kinds
<1> HIDE DEF ask
<1>4. CASE ask.kind = "bind" /\ bind_hand(s, ask)
  <2>1. PICK t, packets :
          /\ Handled(s, t, packets) /\ (carries => Mentions(packets, "bar"))
          /\ t.bar = [s.bar EXCEPT ![ask.place] = ask.item] /\ t.restored = s.restored
    BY <1>1, <1>2, <1>4, BindTells
  <2>2. \A about \in Subjects : Told(about) /\ Alters(ask, about) => Mentions(packets, about)
    BY <1>4, <2>1 DEF Told, Alters
  <2> QED BY <1>4, <2>1, <2>2 DEF ask
<1>5. CASE ask.kind = "select" /\ SetActiveSlot(s, ask.square)
  <2>1. PICK t, packets :
          /\ Handled(s, t, packets) /\ (carries => Mentions(packets, "bar"))
          /\ t.bar = s.bar /\ t.restored = s.restored
    BY <1>1, <1>5, SelectTells
  <2>2. \A about \in Subjects : Told(about) /\ Alters(ask, about) => Mentions(packets, about)
    BY <1>5, <2>1 DEF Told, Alters
  <2> QED BY <2>1, <2>2 DEF ask
<1>6. CASE \/ ask.kind = "fell" /\ hurt_player(s)
           \/ ask.kind \in {"off", "respawn"} /\ respawn(s)
           \/ ask.kind = "add" /\ todo_add(s)
  <2>1. PICK t, packets : Handled(s, t, packets) /\ t.bar = s.bar /\ t.restored = s.restored
    BY <1>1, <1>6, HurtTells, RespawnTells, AddTells
  <2>2. \A about \in Subjects : ~Alters(ask, about)
    BY <1>6 DEF Alters
  <2> QED BY <2>1, <2>2 DEF ask
<1>7. CASE ask.kind = "erase" /\ todo_erase(s, ask.task)
  <2>1. PICK t, packets : /\ Handled(s, t, packets) /\ Mentions(packets, "tasks")
                          /\ t.bar = s.bar /\ t.restored = s.restored
    BY <1>1, <1>7, EraseTells
  <2>2. \A about \in Subjects : Told(about) /\ Alters(ask, about) => Mentions(packets, about)
    BY <1>7, <2>1 DEF Alters
  <2> QED BY <2>1, <2>2 DEF ask
<1> QED BY <1>3, <1>4, <1>5, <1>6, <1>7

-----------------------------------------------------------------------------
(* The steps. *)

(* Whatever the server says, the screen will settle on what is so.         *)
LEMMA SayingKeeps ==
  ASSUME HudTyped, ScreenSettles, ToastsAndDeaths, joined, NEW t, NEW packets,
         Handled(session_hud, t, packets), UNCHANGED <<carries, joined, screen_hud>>,
         \A about \in Subjects : Told(about) /\ ~Pending(asks', about) =>
           Mentions(packets, about) \/ ~Pending(asks, about)
  PROVE  /\ ScreenSettles' /\ ToastsAndDeaths'
         /\ IsSession(session_hud') /\ IsQueue(answers')
         /\ \A i \in 1 .. Len(answers') : IsPacket(answers'[i])
<1>1. /\ session_hud' = t /\ answers' = answers \o packets /\ IsSession(t)
      /\ IsQueue(answers) /\ IsQueue(packets)
      /\ \A i \in 1 .. Len(packets) : IsPacket(packets[i])
      /\ \A i \in 1 .. Len(answers) : IsPacket(answers[i])
      /\ Tells(session_hud, t, packets)
  BY DEF Handled, Tells, HudTyped
<1>2. ASSUME NEW about \in Subjects, Told(about), ~Pending(asks', about)
      PROVE  Settles(answers \o packets, about, Shown(screen_hud, about), Right(t, about))
  <2>1. Settles(packets, about, Right(session_hud, about), Right(t, about))
    BY <1>1, <1>2 DEF Tells
  <2>2. Mentions(packets, about)
        \/ Settles(answers, about, Shown(screen_hud, about), Right(session_hud, about))
    BY <1>2 DEF ScreenSettles, Told
  <2> QED BY <1>1, <2>1, <2>2, SettlesConcat
<1>3. ScreenSettles'
  <2> SUFFICES ASSUME NEW about \in Subjects, about = "bar" => carries, ~Pending(asks', about)
               PROVE  Settles(answers', about, Shown(screen_hud, about), Right(t, about))
    BY <1>1 DEF ScreenSettles
  <2> QED BY <1>1, <1>2 DEF Told
<1>4. NoSecondDeath(answers \o packets, Shown(screen_hud, "dead"))
  <2>1. ~Pending(asks, "dead")
    BY DEF Pending, Alters
  <2>2. Settles(answers, "dead", Shown(screen_hud, "dead"), Right(session_hud, "dead"))
    BY <2>1 DEF ScreenSettles, Subjects
  <2>3. NoSecondDeath(packets, Right(session_hud, "dead"))
        /\ NoSecondDeath(answers, Shown(screen_hud, "dead"))
    BY <1>1 DEF Tells, ToastsAndDeaths
  <2> QED BY <1>1, <2>2, <2>3, NoSecondDeathConcat
<1>5. NewIsNew(answers \o packets, screen_hud.toasts, t.seen)
  BY <1>1, NewIsNewConcat DEF Tells, ToastsAndDeaths
<1>6. ToastsAndDeaths'
  BY <1>1, <1>4, <1>5 DEF ToastsAndDeaths
<1>7. IsQueue(answers \o packets)
      /\ \A i \in 1 .. Len(answers \o packets) : IsPacket((answers \o packets)[i])
  BY <1>1, QueueConcat
<1> QED BY <1>1, <1>3, <1>6, <1>7

LEMMA AskKeepsInv ==
  ASSUME HudInv, HandleAsk
  PROVE  HudInv'
<1>1. PICK t, packets :
        /\ Handled(session_hud, t, packets)
        /\ \A about \in Subjects :
             Told(about) /\ Alters(Head(asks), about) => Mentions(packets, about)
        /\ t.restored = session_hud.restored
        /\ \/ t.bar = session_hud.bar
           \/ /\ Head(asks).kind = "bind"
              /\ t.bar = [session_hud.bar EXCEPT ![Head(asks).place] = Head(asks).item]
  BY AskTells DEF HudInv
<1>2. /\ joined /\ asks # <<>> /\ asks' = Tail(asks)
      /\ UNCHANGED <<carries, joined, carried_goods, screen_hud, stored_bar, first_bar, touched>>
  BY DEF HandleAsk
<1>3. IsQueue(asks) /\ IsSession(session_hud) /\ \A i \in 1 .. Len(asks) : IsAsk(asks[i])
  BY DEF HudInv, HudTyped
<1>4. /\ IsQueue(asks') /\ Head(asks) = asks[1] /\ 1 \in 1 .. Len(asks)
      /\ \A i \in 1 .. Len(asks') : asks'[i] = asks[i + 1] /\ i + 1 \in 1 .. Len(asks)
      /\ \A i \in 1 .. Len(asks) : i = 1 \/ \E j \in 1 .. Len(asks') : i = j + 1
  BY <1>2, <1>3, QueueTail
<1>5. \A about \in Subjects : Told(about) /\ ~Pending(asks', about) =>
        Mentions(packets, about) \/ ~Pending(asks, about)
  <2> SUFFICES ASSUME NEW about \in Subjects, Told(about), ~Pending(asks', about),
                      ~Mentions(packets, about), NEW i \in 1 .. Len(asks), Alters(asks[i], about)
               PROVE  FALSE
    BY DEF Pending
  <2>1. i # 1
    BY <1>1, <1>4
  <2>2. PICK j \in 1 .. Len(asks') : asks'[j] = asks[i]
    BY <1>4, <2>1
  <2> QED BY <2>2 DEF Pending
<1>6. /\ ScreenSettles' /\ ToastsAndDeaths'
      /\ IsSession(session_hud') /\ IsQueue(answers')
      /\ \A i \in 1 .. Len(answers') : IsPacket(answers'[i])
  BY <1>1, <1>2, <1>5, SayingKeeps DEF HudInv
<1>7. \A i \in 1 .. Len(asks') : IsAsk(asks'[i])
  BY <1>3, <1>4
<1>8. HudTyped'
  BY <1>2, <1>4, <1>6, <1>7 DEF HudInv, HudTyped
<1>9. BarKept'
  <2>1. session_hud' = t
    BY <1>1 DEF Handled
  <2>2. \A i \in 1 .. Len(asks') : asks'[i].kind = "bind" => asks'[i].place \in touched
    BY <1>2, <1>4 DEF HudInv, BarKept
  <2>3. Head(asks).kind = "bind" => Head(asks).place \in touched
    BY <1>2, <1>4 DEF HudInv, BarKept
  <2>4. \A place \in (Squares \X Hands) \ touched : t.bar[place] = session_hud.bar[place]
    BY <1>1, <1>3, <2>3 DEF IsSession, Bars
  <2> QED BY <1>1, <1>2, <2>1, <2>2, <2>4 DEF HudInv, BarKept
<1> QED BY <1>6, <1>8, <1>9 DEF HudInv

LEMMA CarryKeepsInv ==
  ASSUME HudInv, NEW goods \in SUBSET Goods, Carry(goods)
  PROVE  HudInv'
<1>1. /\ joined /\ carried_goods' = goods /\ announce_discoveries(session_hud, goods)
      /\ UNCHANGED <<carries, joined, screen_hud, asks, stored_bar, first_bar, touched>>
  BY DEF Carry
<1>2. PICK t, packets : /\ Handled(session_hud, t, packets)
                        /\ t.bar = session_hud.bar /\ t.restored = session_hud.restored
  BY <1>1, DiscoveriesTell DEF HudInv, HudTyped
<1>3. /\ ScreenSettles' /\ ToastsAndDeaths'
      /\ IsSession(session_hud') /\ IsQueue(answers')
      /\ \A i \in 1 .. Len(answers') : IsPacket(answers'[i])
  BY <1>1, <1>2, SayingKeeps DEF HudInv
<1>4. HudTyped'
  BY <1>1, <1>3 DEF HudInv, HudTyped
<1>5. session_hud' = t
  BY <1>2 DEF Handled
<1>6. BarKept'
  BY <1>1, <1>2, <1>5 DEF HudInv, BarKept
<1> QED BY <1>3, <1>4, <1>6 DEF HudInv

(* What a tick writes down is, of the hands not touched, what was stored.  *)
LEMMA TickKeepsInv ==
  ASSUME HudInv, HudTick
  PROVE  HudInv'
<1> DEFINE s == restore_hotbars(session_hud)
           t == [s EXCEPT !.recorded = s.bar]
<1>1. /\ joined /\ s.restored /\ stored_bar' = s.bar
      /\ UNCHANGED <<carries, joined, carried_goods, screen_hud, asks, first_bar, touched>>
  BY DEF HudTick, bindings_to_record
<1>2. IsSession(session_hud) /\ stored_bar \in Bars /\ IsQueue(answers)
  BY DEF HudInv, HudTyped
<1>3. PICK packets : Handled(session_hud, t, packets)
  BY <1>2, TickTells
<1>4. carries
  BY <1>1 DEF restore_hotbars, HudInv, BarKept
<1>5. s.bar \in Bars /\ t.bar = s.bar /\ t.restored
      /\ \A place \in (Squares \X Hands) \ touched : s.bar[place] = first_bar[place]
  <2>1. CASE session_hud.restored
    <3>1. s = session_hud
      BY <2>1 DEF restore_hotbars
    <3>2. \A place \in (Squares \X Hands) \ touched : session_hud.bar[place] = first_bar[place]
      BY <1>1, <2>1 DEF HudInv, BarKept
    <3> QED BY <1>2, <2>1, <3>1, <3>2 DEF IsSession
  <2>2. CASE ~session_hud.restored
    <3> DEFINE bar == [place \in DOMAIN session_hud.bar |->
                         IF stored_bar[place] = Unbound THEN session_hud.bar[place]
                                                        ELSE stored_bar[place]]
    <3>1. s = [session_hud EXCEPT !.bar = bar, !.restored = TRUE]
      BY <1>4, <2>2 DEF restore_hotbars, restore_bindings
    <3>2. bar \in Bars
      BY <1>2 DEF IsSession, Bars
    <3>3. ASSUME NEW place \in (Squares \X Hands) \ touched
          PROVE  bar[place] = first_bar[place]
      <4>1. stored_bar[place] = first_bar[place] /\ session_hud.bar[place] = Unbound
        BY <1>1, <2>2 DEF HudInv, BarKept
      <4> QED BY <1>2, <4>1 DEF IsSession, Bars
    <3> HIDE DEF bar, s
    <3>4. s.bar = bar /\ s.restored /\ t.bar = s.bar /\ t.restored
      BY <1>2, <3>1 DEF IsSession
    <3> QED BY <3>2, <3>3, <3>4
  <2> QED BY <2>1, <2>2
<1>6. session_hud' = t
  BY <1>3 DEF Handled
<1> HIDE DEF s, t
<1>7. /\ ScreenSettles' /\ ToastsAndDeaths'
      /\ IsSession(session_hud') /\ IsQueue(answers')
      /\ \A i \in 1 .. Len(answers') : IsPacket(answers'[i])
  BY <1>1, <1>3, SayingKeeps DEF HudInv
<1>8. HudTyped'
  BY <1>1, <1>5, <1>7 DEF HudInv, HudTyped
<1>9. BarKept'
  BY <1>1, <1>4, <1>5, <1>6 DEF HudInv, BarKept
<1> QED BY <1>7, <1>8, <1>9 DEF HudInv

(* A client changes its own screen only of what it asks about.             *)
LEMMA AskingKeepsInv ==
  ASSUME HudInv, NEW packet, NEW screen, Ask(packet, screen), IsAsk(packet), IsScreen(screen),
         screen.toasts = screen_hud.toasts,
         \A about \in Subjects :
           Shown(screen, about) = Shown(screen_hud, about) \/ Alters(packet, about),
         touched' \in SUBSET (Squares \X Hands), touched \subseteq touched',
         packet.kind = "bind" => packet.place \in touched'
  PROVE  HudInv'
<1>1. /\ joined /\ asks' = Append(asks, packet) /\ screen_hud' = screen
      /\ UNCHANGED <<carries, joined, session_hud, carried_goods, answers, stored_bar, first_bar>>
  BY DEF Ask
<1>2. /\ IsQueue(asks') /\ Len(asks) \in Nat /\ Len(asks') = Len(asks) + 1
      /\ asks'[Len(asks) + 1] = packet
      /\ \A i \in 1 .. Len(asks) : asks'[i] = asks[i] /\ i \in 1 .. Len(asks')
  <2>1. PICK S : asks \in Seq(S)
    BY DEF HudInv, HudTyped, IsQueue
  <2>2. asks' \in Seq(S \cup {packet})
    BY <1>1, <2>1
  <2> QED BY <1>1, <2>1, <2>2 DEF IsQueue
<1>3. \A i \in 1 .. Len(asks') : i \in 1 .. Len(asks) \/ asks'[i] = packet
  BY <1>2
<1>4. ASSUME NEW about \in Subjects, ~Pending(asks', about)
      PROVE  ~Pending(asks, about) /\ Shown(screen, about) = Shown(screen_hud, about)
  <2>1. ~Pending(asks, about)
    BY <1>2, <1>4 DEF Pending
  <2>2. Len(asks) + 1 \in 1 .. Len(asks')
    BY <1>2
  <2>3. ~Alters(packet, about)
    BY <1>2, <1>4, <2>2 DEF Pending
  <2> QED BY <2>1, <2>3
<1>5. ScreenSettles'
  <2> SUFFICES ASSUME NEW about \in Subjects, about = "bar" => carries, ~Pending(asks', about)
               PROVE  Settles(answers, about, Shown(screen, about), Right(session_hud, about))
    BY <1>1 DEF ScreenSettles
  <2>1. Settles(answers, about, Shown(screen_hud, about), Right(session_hud, about))
    BY <1>1, <1>4 DEF HudInv, ScreenSettles
  <2> QED BY <1>4, <2>1
<1>6. ToastsAndDeaths'
  <2>1. Shown(screen, "dead") = Shown(screen_hud, "dead")
    BY DEF Subjects, Alters
  <2> QED BY <1>1, <2>1 DEF HudInv, ToastsAndDeaths
<1>7. HudTyped'
  <2>1. \A i \in 1 .. Len(asks') : IsAsk(asks'[i])
    BY <1>2, <1>3 DEF HudInv, HudTyped
  <2> QED BY <1>1, <1>2, <2>1 DEF HudInv, HudTyped
<1>8. BarKept'
  <2>1. \A i \in 1 .. Len(asks') : asks'[i].kind = "bind" => asks'[i].place \in touched'
    BY <1>1, <1>2, <1>3 DEF HudInv, BarKept
  <2> QED BY <1>1, <2>1 DEF HudInv, BarKept
<1> QED BY <1>5, <1>6, <1>7, <1>8 DEF HudInv

LEMMA ScreenOfBind ==
  ASSUME NEW screen, IsScreen(screen), NEW bar, NEW active
  PROVE  [screen EXCEPT !.bar = bar, !.active = active]
           = [bar |-> bar, active |-> active, hearts |-> screen.hearts, dead |-> screen.dead,
              falling |-> screen.falling, tasks |-> screen.tasks, toasts |-> screen.toasts]
<1> DEFINE square == screen.active   hearts == screen.hearts  dead == screen.dead
           falling == screen.falling tasks == screen.tasks    toasts == screen.toasts
           before == screen.bar
           once == [screen EXCEPT !.bar = bar]
<1>1. screen = [bar |-> before, active |-> square, hearts |-> hearts, dead |-> dead,
                falling |-> falling, tasks |-> tasks, toasts |-> toasts]
  BY DEF IsScreen
<1>2. [screen EXCEPT !.bar = bar, !.active = active] = [once EXCEPT !.active = active]
  BY Zenon
<1> HIDE DEF before, square, hearts, dead, falling, tasks, toasts
<1>3. once = [bar |-> bar, active |-> square, hearts |-> hearts, dead |-> dead,
              falling |-> falling, tasks |-> tasks, toasts |-> toasts]
  BY <1>1
<1> HIDE DEF once
<1>4. [once EXCEPT !.active = active]
        = [bar |-> bar, active |-> active, hearts |-> hearts, dead |-> dead,
           falling |-> falling, tasks |-> tasks, toasts |-> toasts]
  BY <1>3
<1> QED BY <1>2, <1>4 DEF hearts, dead, falling, tasks, toasts

LEMMA ScreenOfFall ==
  ASSUME NEW screen, IsScreen(screen), NEW fell
  PROVE  [screen EXCEPT !.falling = fell]
           = [bar |-> screen.bar, active |-> screen.active, hearts |-> screen.hearts,
              dead |-> screen.dead, falling |-> fell, tasks |-> screen.tasks,
              toasts |-> screen.toasts]
<1> DEFINE bar == screen.bar         square == screen.active  hearts == screen.hearts
           dead == screen.dead       falling == screen.falling tasks == screen.tasks
           toasts == screen.toasts
<1>1. screen = [bar |-> bar, active |-> square, hearts |-> hearts, dead |-> dead,
                falling |-> falling, tasks |-> tasks, toasts |-> toasts]
  BY DEF IsScreen
<1> HIDE DEF bar, square, hearts, dead, falling, tasks, toasts
<1>2. [screen EXCEPT !.falling = fell]
        = [bar |-> bar, active |-> square, hearts |-> hearts, dead |-> dead,
           falling |-> fell, tasks |-> tasks, toasts |-> toasts]
  BY <1>1
<1> QED BY <1>2 DEF bar, square, hearts, dead, tasks, toasts

LEMMA ClientKeepsInv ==
  ASSUME HudInv, ClientAsks
  PROVE  HudInv'
<1>0. IsScreen(screen_hud) /\ touched \in SUBSET (Squares \X Hands)
  BY DEF HudInv, HudTyped
<1>1. ASSUME NEW place \in Squares \X Hands, NEW item \in Goods \cup {Unbound}, Bind(place, item)
      PROVE  HudInv'
  <2> DEFINE packet == [kind |-> "bind", place |-> place, item |-> item]
             bar    == [screen_hud.bar EXCEPT ![place] = item]
             square == place[1]
             screen == [screen_hud EXCEPT !.bar = bar, !.active = square]
  <2>1. Ask(packet, screen) /\ touched' = touched \cup {place}
    BY <1>1 DEF Bind
  <2>2. bar \in Bars
    BY <1>0 DEF IsScreen, Bars
  <2>3. IsAsk(packet) /\ packet.kind = "bind" /\ packet.place = place
    BY DEF IsAsk, Kinds
  <2> HIDE DEF bar, square, packet
  <2>4. /\ IsScreen(screen) /\ screen.toasts = screen_hud.toasts
        /\ screen.hearts = screen_hud.hearts /\ screen.dead = screen_hud.dead
        /\ screen.tasks = screen_hud.tasks
    <3>1. screen = [bar |-> bar, active |-> square, hearts |-> screen_hud.hearts,
                    dead |-> screen_hud.dead, falling |-> screen_hud.falling,
                    tasks |-> screen_hud.tasks, toasts |-> screen_hud.toasts]
      BY <1>0, ScreenOfBind DEF screen
    <3> HIDE DEF screen
    <3> QED BY <1>0, <2>2, <3>1 DEF IsScreen
  <2> HIDE DEF screen
  <2>5. \A about \in Subjects :
          Shown(screen, about) = Shown(screen_hud, about) \/ Alters(packet, about)
    BY <2>3, <2>4 DEF Subjects, Shown, Alters
  <2> QED BY <1>0, <2>1, <2>3, <2>4, <2>5, AskingKeepsInv
<1>2. ASSUME NEW square, Plain([kind |-> "select", square |-> square],
                               [screen_hud EXCEPT !.active = square])
      PROVE  HudInv'
  <2> DEFINE packet == [kind |-> "select", square |-> square]
             screen == [screen_hud EXCEPT !.active = square]
  <2>1. Ask(packet, screen) /\ touched' = touched
    BY <1>2 DEF Plain
  <2>2. IsAsk(packet) /\ packet.kind = "select"
    BY DEF IsAsk, Kinds
  <2> HIDE DEF packet
  <2>3. /\ IsScreen(screen) /\ screen.toasts = screen_hud.toasts
        /\ screen.hearts = screen_hud.hearts /\ screen.dead = screen_hud.dead
        /\ screen.tasks = screen_hud.tasks
    BY <1>0 DEF IsScreen
  <2> HIDE DEF screen
  <2>4. \A about \in Subjects :
          Shown(screen, about) = Shown(screen_hud, about) \/ Alters(packet, about)
    BY <2>2, <2>3 DEF Subjects, Shown, Alters
  <2> QED BY <1>0, <2>1, <2>2, <2>3, <2>4, AskingKeepsInv
<1>3. ASSUME NEW kind \in {"fell", "respawn", "add"}, Plain([kind |-> kind], screen_hud)
      PROVE  HudInv'
  <2>1. Ask([kind |-> kind], screen_hud) /\ touched' = touched
    BY <1>3 DEF Plain
  <2>2. IsAsk([kind |-> kind])
    BY DEF IsAsk, Kinds
  <2> QED BY <1>0, <2>1, <2>2, AskingKeepsInv
<1>4. CASE Plain([kind |-> "off"], [screen_hud EXCEPT !.falling = TRUE])
  <2> DEFINE packet == [kind |-> "off"]
             screen == [screen_hud EXCEPT !.falling = TRUE]
  <2>1. Ask(packet, screen) /\ touched' = touched
    BY <1>4 DEF Plain
  <2>2. IsAsk(packet) /\ packet.kind # "bind"
    BY DEF IsAsk, Kinds
  <2> HIDE DEF packet
  <2>3. /\ IsScreen(screen) /\ screen.toasts = screen_hud.toasts
        /\ screen.hearts = screen_hud.hearts /\ screen.dead = screen_hud.dead
        /\ screen.tasks = screen_hud.tasks
        /\ screen.bar = screen_hud.bar /\ screen.active = screen_hud.active
    <3>1. screen = [bar |-> screen_hud.bar, active |-> screen_hud.active,
                    hearts |-> screen_hud.hearts, dead |-> screen_hud.dead, falling |-> TRUE,
                    tasks |-> screen_hud.tasks, toasts |-> screen_hud.toasts]
      BY <1>0, ScreenOfFall DEF screen
    <3> HIDE DEF screen
    <3> QED BY <1>0, <3>1 DEF IsScreen
  <2> HIDE DEF screen
  <2>4. \A about \in Subjects : Shown(screen, about) = Shown(screen_hud, about)
    BY <2>3 DEF Subjects, Shown
  <2> QED BY <1>0, <2>1, <2>2, <2>3, <2>4, AskingKeepsInv
<1>5. ASSUME NEW task, Plain([kind |-> "erase", task |-> task],
                             [screen_hud EXCEPT !.tasks = TasksWithout(@, task)])
      PROVE  HudInv'
  <2> DEFINE packet == [kind |-> "erase", task |-> task]
             left   == TasksWithout(screen_hud.tasks, task)
             screen == [screen_hud EXCEPT !.tasks = left]
  <2>1. Ask(packet, screen) /\ touched' = touched
    BY <1>5 DEF Plain
  <2>2. IsAsk(packet) /\ packet.kind = "erase"
    BY DEF IsAsk, Kinds
  <2> HIDE DEF packet, left
  <2>3. /\ IsScreen(screen) /\ screen.toasts = screen_hud.toasts
        /\ screen.hearts = screen_hud.hearts /\ screen.dead = screen_hud.dead
        /\ screen.bar = screen_hud.bar /\ screen.active = screen_hud.active
    BY <1>0 DEF IsScreen
  <2> HIDE DEF screen
  <2>4. \A about \in Subjects :
          Shown(screen, about) = Shown(screen_hud, about) \/ Alters(packet, about)
    BY <2>2, <2>3 DEF Subjects, Shown, Alters
  <2> QED BY <1>0, <2>1, <2>2, <2>3, <2>4, AskingKeepsInv
<1> QED BY <1>1, <1>2, <1>3, <1>4, <1>5 DEF ClientAsks

LEMMA ReadKeepsInv ==
  ASSUME HudInv, ClientReads
  PROVE  HudInv'
<1> DEFINE packet == Head(answers)
<1>1. /\ joined /\ answers # <<>> /\ answers' = Tail(answers)
      /\ UNCHANGED <<carries, joined, session_hud, carried_goods, asks, stored_bar, first_bar,
                     touched>>
  BY DEF ClientReads
<1>2. /\ IsQueue(answers) /\ IsScreen(screen_hud)
      /\ \A i \in 1 .. Len(answers) : IsPacket(answers[i])
  BY DEF HudInv, HudTyped
<1>3. /\ IsQueue(answers') /\ packet = answers[1] /\ 1 \in 1 .. Len(answers)
      /\ \A i \in 1 .. Len(answers') : answers'[i] = answers[i + 1] /\ i + 1 \in 1 .. Len(answers)
  BY <1>1, <1>2, QueueTail
<1>4. IsPacket(packet)
  BY <1>2, <1>3
<1>5. \/ /\ packet.kind = "bar" /\ packet.bar \in Bars
         /\ screen_hud' = [screen_hud EXCEPT !.bar = packet.bar, !.active = packet.active]
      \/ /\ packet.kind = "hearts" /\ screen_hud' = [screen_hud EXCEPT !.hearts = packet.hearts]
      \/ /\ packet.kind = "kill" /\ screen_hud' = [screen_hud EXCEPT !.dead = TRUE]
      \/ /\ packet.kind = "spawned"
         /\ screen_hud' = [screen_hud EXCEPT !.dead = FALSE, !.falling = FALSE]
      \/ /\ packet.kind = "tasks" /\ screen_hud' = [screen_hud EXCEPT !.tasks = packet.tasks]
      \/ /\ packet.kind = "new"
         /\ screen_hud' = [screen_hud EXCEPT !.toasts = screen_hud.toasts \cup {packet.item}]
  BY <1>4 DEF ClientReads, IsPacket
<1> HIDE DEF packet
<1>6. /\ IsScreen(screen_hud')
      /\ screen_hud'.toasts = IF packet.kind = "new" THEN screen_hud.toasts \cup {packet.item}
                                                     ELSE screen_hud.toasts
  BY <1>2, <1>5 DEF IsScreen
<1>7. ASSUME NEW about \in Subjects
      PROVE  Shown(screen_hud', about) = IF IsAbout(packet, about) THEN Says(packet, about)
                                                                  ELSE Shown(screen_hud, about)
  <2>1. CASE about = "hearts"
    <3>1. screen_hud'.hearts = IF packet.kind = "hearts" THEN packet.hearts ELSE screen_hud.hearts
      BY <1>2, <1>5 DEF IsScreen
    <3> QED BY <2>1, <3>1 DEF Shown, IsAbout, Says
  <2>2. CASE about = "dead"
    <3>1. /\ packet.kind = "kill" => screen_hud'.dead = TRUE
          /\ packet.kind = "spawned" => screen_hud'.dead = FALSE
          /\ packet.kind \notin {"kill", "spawned"} => screen_hud'.dead = screen_hud.dead
      BY <1>2, <1>5 DEF IsScreen
    <3> QED BY <2>2, <3>1 DEF Shown, IsAbout, Says, Mortal
  <2>3. CASE about = "tasks"
    <3>1. screen_hud'.tasks = IF packet.kind = "tasks" THEN packet.tasks ELSE screen_hud.tasks
      BY <1>2, <1>5 DEF IsScreen
    <3> QED BY <2>3, <3>1 DEF Shown, IsAbout, Says
  <2>4. CASE about = "bar"
    <3>1. /\ packet.kind = "bar" =>
               screen_hud'.bar = packet.bar /\ screen_hud'.active = packet.active
          /\ packet.kind # "bar" =>
               screen_hud'.bar = screen_hud.bar /\ screen_hud'.active = screen_hud.active
      BY <1>2, <1>5 DEF IsScreen
    <3> QED BY <2>4, <3>1 DEF Shown, IsAbout, Says
  <2> QED BY <2>1, <2>2, <2>3, <2>4 DEF Subjects
<1>8. ScreenSettles'
  <2> SUFFICES ASSUME NEW about \in Subjects, about = "bar" => carries, ~Pending(asks, about)
               PROVE  Settles(Tail(answers), about, Shown(screen_hud', about),
                              Right(session_hud, about))
    BY <1>1 DEF ScreenSettles
  <2>1. Settles(answers, about, Shown(screen_hud, about), Right(session_hud, about))
    BY <1>1 DEF HudInv, ScreenSettles
  <2> QED BY <1>1, <1>2, <1>7, <2>1, SettlesTail DEF packet
<1>9. ToastsAndDeaths'
  <2>1. NoSecondDeath(answers, Shown(screen_hud, "dead"))
        /\ NewIsNew(answers, screen_hud.toasts, session_hud.seen)
    BY <1>1 DEF HudInv, ToastsAndDeaths
  <2>2. NoSecondDeath(Tail(answers), Shown(screen_hud', "dead"))
    BY <1>1, <1>2, <1>7, <2>1, NoSecondDeathTail DEF packet, Subjects
  <2>3. NewIsNew(Tail(answers), screen_hud'.toasts, session_hud.seen)
    BY <1>1, <1>2, <1>6, <2>1, NewIsNewTail DEF packet
  <2> QED BY <1>1, <2>2, <2>3 DEF ToastsAndDeaths
<1>10. HudTyped'
  <2>1. \A i \in 1 .. Len(answers') : IsPacket(answers'[i])
    BY <1>2, <1>3
  <2> QED BY <1>1, <1>3, <1>6, <2>1 DEF HudInv, HudTyped
<1>11. BarKept'
  BY <1>1 DEF HudInv, BarKept
<1> QED BY <1>8, <1>9, <1>10, <1>11 DEF HudInv

LEMMA ConnectKeepsInv ==
  ASSUME HudInv, JoinHud \/ LeaveHud
  PROVE  HudInv'
<1>1. CASE JoinHud
  <2>1. /\ joined' = TRUE /\ carried_goods' = {} /\ asks' = <<>> /\ answers' = <<>>
        /\ session_hud' = NewSession /\ screen_hud' = NewScreen
        /\ first_bar' = stored_bar /\ touched' = {} /\ UNCHANGED <<carries, stored_bar>>
    BY <1>1 DEF JoinHud, HudInv, HudTyped
  <2>2. EmptyBar \in Bars
    BY DEF EmptyBar, Bars
  <2>3. IsSession(NewSession) /\ IsScreen(NewScreen)
    BY <2>2, HudAssumption DEF IsSession, IsScreen, NewSession, NewScreen
  <2>4. 1 .. Len(<<>>) = {} /\ IsQueue(<<>>)
    BY ShortQueues
  <2>5. HudTyped'
    BY <2>1, <2>3, <2>4 DEF HudInv, HudTyped
  <2>6. \A about \in Subjects : Shown(NewScreen, about) = Right(NewSession, about)
    BY HudAssumption DEF Subjects, Shown, Right, NewScreen, NewSession, player_health, Mortal
  <2>7. ScreenSettles'
    BY <2>1, <2>6, SettlesShort DEF ScreenSettles
  <2>8. ToastsAndDeaths'
    BY <2>1, <2>4 DEF ToastsAndDeaths, NoSecondDeath, NewIsNew, NewScreen, NewSession
  <2>9. BarKept'
    BY <2>1, <2>4 DEF BarKept, NewSession, EmptyBar
  <2> QED BY <2>5, <2>7, <2>8, <2>9 DEF HudInv
<1>2. CASE LeaveHud
  <2>1. /\ joined' = FALSE /\ asks' = <<>> /\ answers' = <<>>
        /\ UNCHANGED <<carries, session_hud, carried_goods, screen_hud, stored_bar, first_bar,
                       touched>>
    BY <1>2 DEF LeaveHud
  <2>2. 1 .. Len(<<>>) = {} /\ IsQueue(<<>>)
    BY ShortQueues
  <2> QED BY <2>1, <2>2 DEF HudInv, HudTyped, ScreenSettles, ToastsAndDeaths, BarKept
<1> QED BY <1>1, <1>2

LEMMA StepKeepsInv ==
  ASSUME HudInv, [HudNext]_hud_vars
  PROVE  HudInv'
<1>1. CASE UNCHANGED hud_vars
  BY <1>1 DEF HudInv, HudTyped, ScreenSettles, ToastsAndDeaths, BarKept, hud_vars
<1>2. CASE HudNext
  BY <1>2, AskKeepsInv, TickKeepsInv, ClientKeepsInv, ReadKeepsInv, ConnectKeepsInv,
     CarryKeepsInv DEF HudNext
<1> QED BY <1>1, <1>2

LEMMA InitHasInv == HudInit => HudInv
<1> SUFFICES ASSUME HudInit PROVE HudInv
  OBVIOUS
<1>1. EmptyBar \in Bars /\ stored_bar \in Bars /\ first_bar = stored_bar
  BY BarsAssumption DEF EmptyBar, Bars, HudInit
<1>2. IsSession(NewSession) /\ IsScreen(NewScreen)
  BY <1>1, HudAssumption DEF IsSession, IsScreen, NewSession, NewScreen
<1>3. 1 .. Len(<<>>) = {} /\ IsQueue(<<>>)
  BY ShortQueues
<1>4. HudTyped
  BY <1>1, <1>2, <1>3 DEF HudInit, HudTyped
<1> QED BY <1>1, <1>4 DEF HudInit, HudInv, ScreenSettles, ToastsAndDeaths, BarKept

-----------------------------------------------------------------------------
(* The theorems. *)

(* Of everything a client shows, the last packet on its way is right, or   *)
(* the screen is, unless an answer to its own change is still to come; no  *)
(* death follows a death and no toast is for what has been toasted; and    *)
(* the session has nothing in a hand not bound until it has put back what  *)
(* was stored.                                                             *)
THEOREM HudHolds == HudSpec => []HudInv
BY InitHasInv, StepKeepsInv, PTL DEF HudSpec

(* A client that has read everything shows what the session holds, however *)
(* its asks and the server's answers crossed.                              *)
THEOREM ScreenSettlesRight == HudSpec => []ScreenIsRight
<1>1. HudInv => ScreenIsRight
  <2> SUFFICES ASSUME HudInv, joined, asks = <<>>, answers = <<>>
               PROVE  /\ screen_hud.hearts = player_health(session_hud)
                      /\ screen_hud.dead <=> player_health(session_hud) = 0
                      /\ screen_hud.tasks = session_hud.tasks
                      /\ carries => /\ screen_hud.bar = session_hud.bar
                                    /\ screen_hud.active = session_hud.active
    BY DEF ScreenIsRight
  <2>1. ASSUME NEW about \in Subjects, about = "bar" => carries
        PROVE  Shown(screen_hud, about) = Right(session_hud, about)
    <3>1. ~Pending(asks, about)
      BY ShortQueues DEF Pending
    <3>2. Settles(<<>>, about, Shown(screen_hud, about), Right(session_hud, about))
      BY <2>1, <3>1 DEF HudInv, ScreenSettles
    <3> QED BY <3>2, SettlesShort
  <2>2. screen_hud.hearts = player_health(session_hud)
    BY <2>1 DEF Subjects, Shown, Right
  <2>3. screen_hud.dead <=> player_health(session_hud) = 0
    <3>1. Mortal(screen_hud.dead) = Mortal(player_health(session_hud) = 0)
      BY <2>1 DEF Subjects, Shown, Right
    <3> QED BY <3>1 DEF Mortal
  <2>4. screen_hud.tasks = session_hud.tasks
    BY <2>1 DEF Subjects, Shown, Right
  <2>5. carries => screen_hud.bar = session_hud.bar /\ screen_hud.active = session_hud.active
    BY <2>1 DEF Subjects, Shown, Right
  <2> QED BY <2>2, <2>3, <2>4, <2>5
<1> QED BY <1>1, HudHolds, PTL

(* No death screen is put over another, and no item is toasted twice in a  *)
(* session.                                                                *)
THEOREM NothingIsShownTwice == HudSpec => []ShownOnce
<1>1. HudInv => ShownOnce
  <2> SUFFICES ASSUME HudInv, joined, answers # <<>>
               PROVE  /\ Head(answers).kind = "kill" => ~screen_hud.dead
                      /\ Head(answers).kind = "new" =>
                           Head(answers).item \notin screen_hud.toasts
    BY DEF ShownOnce
  <2>1. Head(answers) = answers[1] /\ 1 \in 1 .. Len(answers) /\ 1 .. (1 - 1) = {}
    BY QueueTail DEF HudInv, HudTyped
  <2>2. NoSecondDeath(answers, Shown(screen_hud, "dead"))
        /\ NewIsNew(answers, screen_hud.toasts, session_hud.seen)
    BY DEF HudInv, ToastsAndDeaths
  <2>3. Head(answers).kind = "kill" => Shown(screen_hud, "dead") = "alive"
    BY <2>1, <2>2 DEF NoSecondDeath
  <2>4. Shown(screen_hud, "dead") = "alive" => ~screen_hud.dead
    BY DEF Shown, Mortal
  <2>5. Head(answers).kind = "new" => Head(answers).item \notin screen_hud.toasts
    BY <2>1, <2>2 DEF NewIsNew
  <2> QED BY <2>3, <2>4, <2>5
<1> QED BY <1>1, HudHolds, PTL

(* The saved hotbar keeps every hand the player has not bound anew, and    *)
(* all of it where the client is told nothing.                             *)
THEOREM SavedBarIsKept == HudSpec => []BarErasesNothing
<1>1. HudInv => BarErasesNothing
  BY DEF HudInv, BarKept, BarErasesNothing
<1> QED BY <1>1, HudHolds, PTL

-----------------------------------------------------------------------------
(* The mailbox: what is in a bag and in a list of messages, in a session   *)
(* and written down.                                                       *)

InBag(b, t) == \E i \in DOMAIN b : b[i] # NoStack /\ b[i].thing = t

InMail(list, t) ==
  \E i \in DOMAIN list : \E k \in DOMAIN list[i].held :
    list[i].held[k] # NoStack /\ list[i].held[k].thing = t

InStored(list, t) ==
  t # "gone" /\ \E i \in DOMAIN list : \E k \in DOMAIN list[i].held : list[i].held[k] = t

Flagged(list, i, f) == i \in DOMAIN list /\ f \in list[i].flags

Numbered(list) == \A i \in DOMAIN list : list[i].uuid[2] = i - 1

IsBag(b) == b = [i \in 1 .. BagSize |-> b[i]]

IsMessage(m) ==
  /\ m = [uuid |-> m.uuid, container |-> m.container, flags |-> m.flags, held |-> m.held]
  /\ IsQueue(m.held)

IsStored(list) == IsQueue(list) /\ \A i \in DOMAIN list : IsQueue(list[i].held)

IsRecord(r) == r = [bag |-> r.bag, mail |-> r.mail] /\ IsBag(r.bag) /\ IsStored(r.mail)

IsChange(c) ==
  \/ c.field = "bag" /\ IsBag(c.value)
  \/ c.field = "mail" /\ IsStored(c.value)

NothingDeleted == "a message" \notin deleted

-----------------------------------------------------------------------------
(* The invariant: types, *)

MailTyped ==
  /\ IsQueue(mailbox) /\ \A i \in DOMAIN mailbox : IsMessage(mailbox[i])
  /\ IsBag(bag) /\ IsBag(offered) /\ IsRecord(state) /\ IsRecord(disk)
  /\ IsQueue(unwritten) /\ \A j \in DOMAIN unwritten : IsChange(unwritten[j])

(* a message is numbered by its place, in every list there is,             *)
AllNumbered ==
  NothingDeleted =>
    /\ Numbered(mailbox) /\ Numbered(state.mail) /\ Numbered(disk.mail)
    /\ \A j \in DOMAIN unwritten :
         unwritten[j].field = "mail" => Numbered(unwritten[j].value)

(* and the client has been told of what is in the rucksack and, of the     *)
(* messages that have one uuid, of the first: nothing else is announced.   *)
IsFirst(list, i) ==
  i \in DOMAIN list /\ \A j \in DOMAIN list : list[j].uuid = list[i].uuid => i <= j

ToldOf(known_ids, m) ==
  m.container \in known_ids /\ \A s \in Stacked(m.held) : s.entity \in known_ids

FirstsAreTold(list, known_ids) ==
  \A i \in DOMAIN list : IsFirst(list, i) => ToldOf(known_ids, list[i])

ClientKnows ==
  /\ stage = "away" => mailbox = <<>> /\ bag = NothingHeld
  /\ FirstsAreTold(mailbox, told)
  /\ \A s \in Stacked(bag) : s.entity \in told
  /\ dangled => Repeats(mailbox)

MailInv == MailTyped /\ AllNumbered /\ ClientKnows

-----------------------------------------------------------------------------
(* Lists. *)

(* A stack is not the empty place.                                         *)
LEMMA StackIsSome ==
  \A e, t : /\ [entity |-> e, thing |-> t] # NoStack /\ [thing |-> t] # NoStack
            /\ [entity |-> e, thing |-> t].thing = t /\ [entity |-> e, thing |-> t].entity = e
            /\ [thing |-> t].thing = t
<1> TAKE e, t
<1>1. DOMAIN [entity |-> e, thing |-> t] = {"entity", "thing"} /\ DOMAIN [thing |-> t] = {"thing"}
  OBVIOUS
<1>2. DOMAIN NoStack = {"entity"} /\ "thing" # "entity"
  BY DEF NoStack
<1> QED BY <1>1, <1>2

LEMMA FirstIsOne ==
  ASSUME NEW S, S \subseteq Nat, S # {}
  PROVE  FirstOf(S) \in S /\ \A y \in S : FirstOf(S) <= y
<1> DEFINE R == {ss \in Nat \X Nat : ss[1] < ss[2]}
<1>1. \A x, y \in Nat : y < x => <<y, x>> \in R
  OBVIOUS
<1>2. IsWellFoundedOn(R, Nat)
  BY NatLessThanWellFounded DEF OpToRel
<1> HIDE DEF R
<1>3. PICK x \in S : \A y \in S : ~(<<y, x>> \in R)
  BY <1>2, WFMin
<1>4. \A y \in S : x <= y
  <2> TAKE y \in S
  <2>1. x \in Nat /\ y \in Nat
    OBVIOUS
  <2>2. ~(y < x)
    BY <1>1, <1>3, <2>1, Zenon
  <2> QED BY <2>1, <2>2
<1> QED BY <1>4 DEF FirstOf

(* A uuid that is in a list stands for the first message that has it.      *)
LEMMA NamedIsFirst ==
  ASSUME NEW list, IsQueue(list), NEW i \in DOMAIN list
  PROVE  /\ \E k \in DOMAIN list : IsFirst(list, k) /\ Named(list, list[i].uuid) = list[k]
         /\ IsFirst(list, i) => Named(list, list[i].uuid) = list[i]
<1> DEFINE uuid == list[i].uuid
           S == Find(list, uuid)
           k == FirstOf(S)
<1>1. DOMAIN list = 1 .. Len(list) /\ Len(list) \in Nat
  BY QueueIs
<1>2. S \subseteq Nat /\ i \in S /\ \A j : j \in S <=> j \in DOMAIN list /\ list[j].uuid = uuid
  BY <1>1 DEF Find
<1>3. Named(list, uuid) = list[k]
  BY DEF Named
<1> HIDE DEF S
<1>4. k \in S /\ \A y \in S : k <= y
  BY <1>2, FirstIsOne
<1> HIDE DEF k, uuid
<1>5. IsFirst(list, k)
  BY <1>2, <1>4 DEF IsFirst
<1>6. ASSUME IsFirst(list, i)
      PROVE  k = i
  <2>1. k <= i /\ i <= k /\ k \in Nat /\ i \in Nat
    BY <1>2, <1>4, <1>6 DEF IsFirst, uuid
  <2> QED BY <2>1
<1> QED BY <1>2, <1>3, <1>4, <1>5, <1>6 DEF uuid

(* Where no uuid is there twice every message is the first of its own.     *)
LEMMA ApartAreFirst ==
  ASSUME NEW list, IsQueue(list), ~Repeats(list)
  PROVE  \A i \in DOMAIN list : IsFirst(list, i)
<1>1. DOMAIN list = 1 .. Len(list) /\ Len(list) \in Nat
  BY QueueIs
<1> QED BY <1>1 DEF Repeats, IsFirst

LEMMA ApartAreTold ==
  ASSUME NEW list, IsQueue(list), ~Repeats(list), NEW known_ids, FirstsAreTold(list, known_ids)
  PROVE  \A i \in DOMAIN list :
           /\ list[i].container \in known_ids
           /\ \A s \in Stacked(list[i].held) : s.entity \in known_ids
BY ApartAreFirst DEF FirstsAreTold, ToldOf

-----------------------------------------------------------------------------
(* What is sent. *)

DanglesIn(known_ids, groups) ==
  \E g \in DOMAIN groups :
    Dangles(known_ids \cup UNION {Entities(groups[h]) : h \in 1 .. g - 1}, groups[g])

LEMMA OneGroup ==
  ASSUME NEW known_ids, NEW p
  PROVE  /\ DanglesIn(known_ids, <<p>>) <=> Dangles(known_ids, p)
         /\ EntitiesOf(<<p>>) = Entities(p)
<1>1. DOMAIN <<p>> = {1} /\ <<p>>[1] = p /\ 1 .. 1 - 1 = {}
  BY ShortQueues, QueueIs
<1>2. known_ids \cup UNION {Entities(<<p>>[h]) : h \in 1 .. 1 - 1} = known_ids
  BY <1>1
<1> QED BY <1>1, <1>2 DEF DanglesIn, EntitiesOf

LEMMA JoinedEntities ==
  ASSUME NEW A, NEW B, IsQueue(A), IsQueue(B)
  PROVE  IsQueue(A \o B) /\ EntitiesOf(A \o B) = EntitiesOf(A) \cup EntitiesOf(B)
<1> DEFINE C == A \o B
<1>1. /\ IsQueue(C) /\ Len(A) \in Nat /\ Len(B) \in Nat /\ Len(C) = Len(A) + Len(B)
      /\ \A i \in 1 .. Len(A) : C[i] = A[i]
      /\ \A i \in 1 .. Len(B) : C[Len(A) + i] = B[i]
      /\ \A i \in 1 .. Len(C) : i \in 1 .. Len(A) \/ \E j \in 1 .. Len(B) : i = Len(A) + j
  <2>1. IsQueue(C) /\ Len(A) \in Nat /\ Len(B) \in Nat /\ Len(C) = Len(A) + Len(B)
    BY QueueConcat
  <2>2. \A i \in 1 .. Len(A) : C[i] = A[i]
    BY QueueConcat
  <2>3. \A i \in 1 .. Len(B) : C[Len(A) + i] = B[i]
    BY QueueConcat
  <2>4. \A i \in 1 .. Len(C) : i \in 1 .. Len(A) \/ \E j \in 1 .. Len(B) : i = Len(A) + j
    BY QueueConcat
  <2> QED BY <2>1, <2>2, <2>3, <2>4
<1> HIDE DEF C
<1>2. DOMAIN A = 1 .. Len(A) /\ DOMAIN B = 1 .. Len(B) /\ DOMAIN C = 1 .. Len(C)
  BY <1>1, QueueIs
<1>3. EntitiesOf(C) = EntitiesOf(A) \cup EntitiesOf(B)
  <2>1. ASSUME NEW e \in EntitiesOf(C)
        PROVE  e \in EntitiesOf(A) \cup EntitiesOf(B)
    <3>1. PICK i \in DOMAIN C : e \in Entities(C[i])
      BY <2>1 DEF EntitiesOf
    <3>2. \/ i \in DOMAIN A /\ C[i] = A[i]
          \/ \E j \in DOMAIN B : C[i] = B[j]
      <4>1. CASE i \in 1 .. Len(A)
        BY <1>1, <1>2, <4>1
      <4>2. CASE i \notin 1 .. Len(A)
        <5>1. PICK j \in 1 .. Len(B) : i = Len(A) + j
          BY <1>1, <1>2, <4>2
        <5> QED BY <1>1, <1>2, <5>1
      <4> QED BY <4>1, <4>2
    <3> QED BY <3>1, <3>2 DEF EntitiesOf
  <2>2. ASSUME NEW i \in 1 .. Len(A)
        PROVE  Entities(A[i]) \subseteq EntitiesOf(C)
    <3>1. i \in DOMAIN C /\ C[i] = A[i]
      BY <1>1, <1>2
    <3>2. Entities(C[i]) \subseteq EntitiesOf(C)
      BY <3>1 DEF EntitiesOf
    <3> QED BY <3>1, <3>2
  <2>3. ASSUME NEW i \in 1 .. Len(B)
        PROVE  Entities(B[i]) \subseteq EntitiesOf(C)
    <3>1. Len(A) + i \in DOMAIN C /\ C[Len(A) + i] = B[i]
      BY <1>1, <1>2
    <3>2. Entities(C[Len(A) + i]) \subseteq EntitiesOf(C)
      BY <3>1 DEF EntitiesOf
    <3> QED BY <3>1, <3>2
  <2>4. EntitiesOf(A) \subseteq EntitiesOf(C) /\ EntitiesOf(B) \subseteq EntitiesOf(C)
    BY <1>2, <2>2, <2>3 DEF EntitiesOf
  <2> QED BY <2>1, <2>4
<1> QED BY <1>1, <1>3 DEF C

LEMMA JoinGroups ==
  ASSUME NEW known_ids, NEW A, NEW B, IsQueue(A), IsQueue(B),
         ~DanglesIn(known_ids, A), ~DanglesIn(known_ids \cup EntitiesOf(A), B)
  PROVE  ~DanglesIn(known_ids, A \o B)
<1> DEFINE C == A \o B
           Upto(G, g) == UNION {Entities(G[h]) : h \in 1 .. g - 1}
<1>1. /\ IsQueue(C) /\ Len(A) \in Nat /\ Len(B) \in Nat /\ Len(C) = Len(A) + Len(B)
      /\ \A i \in 1 .. Len(A) : C[i] = A[i]
      /\ \A i \in 1 .. Len(B) : C[Len(A) + i] = B[i]
      /\ \A i \in 1 .. Len(C) : i \in 1 .. Len(A) \/ \E j \in 1 .. Len(B) : i = Len(A) + j
  <2>1. IsQueue(C) /\ Len(A) \in Nat /\ Len(B) \in Nat /\ Len(C) = Len(A) + Len(B)
    BY QueueConcat
  <2>2. \A i \in 1 .. Len(A) : C[i] = A[i]
    BY QueueConcat
  <2>3. \A i \in 1 .. Len(B) : C[Len(A) + i] = B[i]
    BY QueueConcat
  <2>4. \A i \in 1 .. Len(C) : i \in 1 .. Len(A) \/ \E j \in 1 .. Len(B) : i = Len(A) + j
    BY QueueConcat
  <2> QED BY <2>1, <2>2, <2>3, <2>4
<1> HIDE DEF C
<1>2. DOMAIN A = 1 .. Len(A) /\ DOMAIN B = 1 .. Len(B) /\ DOMAIN C = 1 .. Len(C)
  BY <1>1, QueueIs
<1>4. ASSUME NEW g \in 1 .. Len(A)
      PROVE  ~Dangles(known_ids \cup Upto(C, g), C[g])
  <2>1. Upto(C, g) = Upto(A, g) /\ C[g] = A[g]
    BY <1>1
  <2>2. ~Dangles(known_ids \cup Upto(A, g), A[g])
    BY <1>2 DEF DanglesIn
  <2> QED BY <2>1, <2>2
<1>5. ASSUME NEW g \in 1 .. Len(B)
      PROVE  ~Dangles(known_ids \cup Upto(C, Len(A) + g), C[Len(A) + g])
  <2>1. Upto(C, Len(A) + g) = EntitiesOf(A) \cup Upto(B, g)
    <3>1. ASSUME NEW h \in 1 .. (Len(A) + g) - 1
          PROVE  \/ h \in 1 .. Len(A) /\ C[h] = A[h]
                 \/ \E j \in 1 .. g - 1 : C[h] = B[j]
      <4>1. CASE h <= Len(A)
        BY <1>1, <4>1
      <4>2. CASE ~(h <= Len(A))
        <5>1. h - Len(A) \in 1 .. g - 1 /\ h - Len(A) \in 1 .. Len(B) /\ Len(A) + (h - Len(A)) = h
          BY <1>1, <4>2
        <5>2. C[h] = B[h - Len(A)]
          BY <1>1, <5>1
        <5> QED BY <5>1, <5>2
      <4> QED BY <4>1, <4>2
    <3>2. ASSUME NEW h \in 1 .. Len(A)
          PROVE  h \in 1 .. (Len(A) + g) - 1 /\ C[h] = A[h]
      BY <1>1
    <3>3. ASSUME NEW j \in 1 .. g - 1
          PROVE  Len(A) + j \in 1 .. (Len(A) + g) - 1 /\ C[Len(A) + j] = B[j]
      BY <1>1
    <3>4. Upto(C, Len(A) + g) \subseteq EntitiesOf(A) \cup Upto(B, g)
      BY <1>2, <3>1 DEF EntitiesOf
    <3>5. EntitiesOf(A) \subseteq Upto(C, Len(A) + g)
      BY <1>2, <3>2 DEF EntitiesOf
    <3>6. Upto(B, g) \subseteq Upto(C, Len(A) + g)
      BY <3>3
    <3> QED BY <3>4, <3>5, <3>6
  <2>2. ~Dangles((known_ids \cup EntitiesOf(A)) \cup Upto(B, g), B[g])
    BY <1>2 DEF DanglesIn
  <2>3. known_ids \cup Upto(C, Len(A) + g) = (known_ids \cup EntitiesOf(A)) \cup Upto(B, g)
    BY <2>1
  <2> QED BY <1>1, <2>2, <2>3
<1>6. ~DanglesIn(known_ids, C)
  BY <1>1, <1>2, <1>4, <1>5 DEF DanglesIn
<1> QED BY <1>6 DEF C

LEMMA Sent ==
  ASSUME NEW p, Send(p)
  PROVE  (dangled' => Dangles(told, p)) /\ told' = told \cup Entities(p)
BY OneGroup DEF Send, SendAll, DanglesIn

LEMMA NamesKnown ==
  ASSUME NEW known_ids, NEW p, \A i \in DOMAIN p : p[i].names \subseteq known_ids
  PROVE  ~Dangles(known_ids, p)
BY DEF Dangles

LEMMA OnePacket ==
  ASSUME NEW x
  PROVE  /\ DOMAIN <<x>> = {1} /\ <<x>>[1] = x /\ Entities(<<x>>) = {x.entity}
<1>1. DOMAIN <<x>> = {1} /\ <<x>>[1] = x
  BY ShortQueues, QueueIs
<1> QED BY <1>1 DEF Entities

LEMMA StacksAreTold ==
  ASSUME NEW m, IsQueue(m.held)
  PROVE  /\ IsQueue(StackAdds(m)) /\ Len(StackAdds(m)) = Len(m.held)
         /\ \A K : ~Dangles(K, StackAdds(m))
         /\ \A s \in Stacked(m.held) : \E i \in 1 .. Len(m.held) : StackAdds(m)[i].entity = s.entity
<1>1. Len(m.held) \in Nat /\ DOMAIN m.held = 1 .. Len(m.held)
  BY QueueIs
<1>2. StackAdds(m) = [i \in 1 .. Len(m.held) |-> AddStack(m.held[i])]
  BY <1>1 DEF StackAdds
<1>3. IsQueue(StackAdds(m)) /\ Len(StackAdds(m)) = Len(m.held)
  <2> DEFINE f == StackAdds(m)
  <2>1. f = [i \in 1 .. Len(m.held) |-> f[i]]
    BY <1>2
  <2> HIDE DEF f
  <2>2. IsQueue(f) /\ Len(f) = Len(m.held)
    BY <1>1, <2>1, QueueOf
  <2> QED BY <2>2 DEF f
<1>4. \A i \in 1 .. Len(m.held) : StackAdds(m)[i].names = {} /\ StackAdds(m)[i].entity = m.held[i].entity
  BY <1>2 DEF AddStack
<1>5. \A K : ~Dangles(K, StackAdds(m))
  BY <1>2, <1>4 DEF Dangles
<1>6. \A s \in Stacked(m.held) : \E i \in 1 .. Len(m.held) : m.held[i] = s
  BY <1>1 DEF Stacked, ToSet
<1> QED BY <1>3, <1>4, <1>5, <1>6

(* The message a uuid stands for is announced with what is in it first.    *)
LEMMA AnnouncedInOrder ==
  ASSUME NEW list, NEW uuid, NEW m, m = Named(list, uuid), IsQueue(m.held)
  PROVE  /\ \A K : ~Dangles(K, announce_attachments(list, uuid))
         /\ ToldOf(Entities(announce_attachments(list, uuid)), m)
<1> DEFINE A == StackAdds(m)
           P == Append(A, AddContainer(m))
           n == Len(m.held)
<1>1. IsQueue(A) /\ Len(A) = n /\ n \in Nat /\ DOMAIN A = 1 .. n
  BY StacksAreTold, QueueIs
<1>2. \A i \in 1 .. n : A[i].names = {}
  BY <1>1 DEF StackAdds, AddStack
<1>3. announce_attachments(list, uuid) = P
  BY DEF announce_attachments
<1> HIDE DEF A
<1>4. \A i \in 1 .. n : P[i] = A[i]
  BY <1>1, QueueAppend
<1>5. P[n + 1] = AddContainer(m) /\ DOMAIN P = 1 .. n + 1
  BY <1>1, QueueAppend
<1> HIDE DEF P
<1>8. /\ AddContainer(m).entity = m.container
      /\ AddContainer(m).names = {s.entity : s \in Stacked(m.held)}
  BY DEF AddContainer
<1>9. \A s \in Stacked(m.held) : \E i \in 1 .. n : P[i].entity = s.entity
  BY <1>1, <1>4, StacksAreTold DEF A
<1>10. ASSUME NEW K
       PROVE  ~Dangles(K, P)
  <2>1. ASSUME NEW i \in 1 .. n
        PROVE  P[i].names = {}
    BY <1>2, <1>4
  <2>2. P[n + 1].names \subseteq {P[j].entity : j \in 1 .. (n + 1) - 1}
    <3>1. 1 .. (n + 1) - 1 = 1 .. n
      BY <1>1
    <3> QED BY <1>5, <1>8, <1>9, <3>1
  <2>3. \A i \in 1 .. n + 1 : i \in 1 .. n \/ i = n + 1
    BY <1>1
  <2> QED BY <1>5, <2>1, <2>2, <2>3 DEF Dangles
<1>11. m.container \in Entities(P)
  <2>1. n + 1 \in DOMAIN P /\ P[n + 1].entity = m.container
    BY <1>1, <1>5, <1>8
  <2> QED BY <2>1 DEF Entities
<1>12. \A s \in Stacked(m.held) : s.entity \in Entities(P)
  <2>1. 1 .. n \subseteq DOMAIN P
    BY <1>1, <1>5
  <2> QED BY <1>9, <2>1 DEF Entities
<1> QED BY <1>3, <1>10, <1>11, <1>12 DEF ToldOf

(* What is restored is announced before the list that names it, as far as  *)
(* its uuids tell the messages apart.                                      *)
LEMMA RestoreTells ==
  ASSUME NEW list, IsQueue(list), \A i \in DOMAIN list : IsQueue(list[i].held)
  PROVE  /\ IsQueue(RestorePackets(list))
         /\ \A K : ~Repeats(list) => ~DanglesIn(K, RestorePackets(list))
         /\ FirstsAreTold(list, EntitiesOf(RestorePackets(list)))
<1> DEFINE S == [i \in DOMAIN list |-> StackAdds(list[i])]
           T == [i \in DOMAIN list |-> announce_attachments(list, list[i].uuid)]
           L == << <<MailList(list)>> >>
           n == Len(list)
<1>1. n \in Nat /\ DOMAIN list = 1 .. n
  BY QueueIs
<1>2. /\ DOMAIN S = 1 .. n /\ \A i \in 1 .. n : S[i] = StackAdds(list[i])
      /\ DOMAIN T = 1 .. n /\ \A i \in 1 .. n : T[i] = announce_attachments(list, list[i].uuid)
      /\ S = [i \in 1 .. n |-> S[i]] /\ T = [i \in 1 .. n |-> T[i]]
  BY <1>1
<1>3. IsQueue(L)
  BY ShortQueues
<1>4. RestorePackets(list) = (S \o T) \o L
  BY DEF RestorePackets
<1> HIDE DEF S, T, L
<1>5. IsQueue(S) /\ IsQueue(T)
  BY <1>1, <1>2, QueueOf
<1>6. \A K : ~DanglesIn(K, S)
  BY <1>1, <1>2, StacksAreTold DEF DanglesIn
<1>7. \A K : ~DanglesIn(K, T)
  <2>1. ASSUME NEW i \in 1 .. n, NEW K
        PROVE  ~Dangles(K, T[i])
    <3>1. PICK k \in DOMAIN list : Named(list, list[i].uuid) = list[k]
      BY <1>1, NamedIsFirst
    <3>2. IsQueue(Named(list, list[i].uuid).held)
      BY <3>1
    <3> QED BY <1>2, <3>2, AnnouncedInOrder
  <2> QED BY <1>2, <2>1 DEF DanglesIn
<1>8. ASSUME NEW i \in DOMAIN list, IsFirst(list, i)
      PROVE  ToldOf(EntitiesOf(T), list[i])
  <2>1. i \in DOMAIN T /\ T[i] = announce_attachments(list, list[i].uuid)
    BY <1>1, <1>2
  <2>2. Entities(T[i]) \subseteq EntitiesOf(T)
    BY <2>1 DEF EntitiesOf
  <2>3. Named(list, list[i].uuid) = list[i] /\ IsQueue(list[i].held)
    BY <1>8, NamedIsFirst
  <2>4. ToldOf(Entities(T[i]), list[i])
    BY <2>1, <2>3, AnnouncedInOrder
  <2> QED BY <2>2, <2>4 DEF ToldOf
<1>9. ASSUME NEW K, EntitiesOf(T) \subseteq K, ~Repeats(list)
      PROVE  ~DanglesIn(K, L)
  <2> DEFINE p == <<MailList(list)>>
  <2>1. MailList(list).names \subseteq K
    <3>1. \A i \in DOMAIN list : list[i].container \in K
      BY <1>8, <1>9, ApartAreFirst DEF ToldOf
    <3> QED BY <3>1 DEF MailList, ToSet
  <2>2. \A i \in DOMAIN p : p[i].names \subseteq K
    BY <2>1, OnePacket
  <2>3. ~Dangles(K, p)
    BY <2>2, NamesKnown
  <2> QED BY <2>3, OneGroup DEF L
<1>10. /\ IsQueue(S \o T) /\ \A K : ~DanglesIn(K, S \o T)
       /\ EntitiesOf(S \o T) = EntitiesOf(S) \cup EntitiesOf(T)
  BY <1>5, <1>6, <1>7, JoinGroups, JoinedEntities
<1> DEFINE ST == S \o T
<1> HIDE DEF ST
<1>11. IsQueue(ST \o L) /\ EntitiesOf(ST \o L) = EntitiesOf(ST) \cup EntitiesOf(L)
  <2>1. IsQueue(ST)
    BY <1>10 DEF ST
  <2> QED BY <1>3, <2>1, JoinedEntities
<1>13. ASSUME NEW K, ~Repeats(list)
       PROVE  ~DanglesIn(K, ST \o L)
  <2>1. IsQueue(ST) /\ ~DanglesIn(K, ST) /\ EntitiesOf(T) \subseteq K \cup EntitiesOf(ST)
    BY <1>10 DEF ST
  <2>2. ~DanglesIn(K \cup EntitiesOf(ST), L)
    BY <1>9, <1>13, <2>1
  <2> QED BY <1>3, <2>1, <2>2, JoinGroups
<1>12. EntitiesOf(T) \subseteq EntitiesOf(ST \o L)
  BY <1>10, <1>11 DEF ST
<1>14. FirstsAreTold(list, EntitiesOf(ST \o L))
  BY <1>8, <1>12 DEF FirstsAreTold, ToldOf
<1> QED BY <1>4, <1>11, <1>13, <1>14 DEF ST

LEMMA BagTells ==
  ASSUME NEW b, IsBag(b)
  PROVE  /\ IsQueue(BagPackets(b)) /\ \A K : ~DanglesIn(K, BagPackets(b))
         /\ \A s \in Stacked(b) : s.entity \in EntitiesOf(BagPackets(b))
<1> DEFINE p == [i \in 1 .. BagSize |-> AddStack(b[i])]
           A == <<p>>
           B == << <<BagList(b)>> >>
<1>1. DOMAIN b = 1 .. BagSize
  BY DEF IsBag
<1>2. /\ DOMAIN p = 1 .. BagSize
      /\ \A i \in 1 .. BagSize : p[i].names = {} /\ p[i].entity = b[i].entity
  BY DEF AddStack
<1>3. /\ IsQueue(A) /\ IsQueue(B) /\ BagPackets(b) = A \o B
  BY ShortQueues DEF BagPackets
<1>4. \A s \in Stacked(b) : s.entity \in Entities(p)
  BY <1>1, <1>2 DEF Stacked, ToSet, Entities
<1>5. \A K : ~Dangles(K, p)
  BY <1>2 DEF Dangles
<1> HIDE DEF p
<1>6. EntitiesOf(A) = Entities(p) /\ \A K : ~DanglesIn(K, A)
  BY <1>5, OneGroup
<1>7. ASSUME NEW K, Entities(p) \subseteq K
      PROVE  ~DanglesIn(K, B)
  <2> DEFINE q == <<BagList(b)>>
  <2>1. BagList(b).names \subseteq K
    BY <1>4, <1>7 DEF BagList
  <2>2. \A i \in DOMAIN q : q[i].names \subseteq K
    BY <2>1, OnePacket
  <2>3. ~Dangles(K, q)
    BY <2>2, NamesKnown
  <2> QED BY <2>3, OneGroup
<1> HIDE DEF A, B
<1>8. ASSUME NEW K
      PROVE  /\ IsQueue(A \o B) /\ ~DanglesIn(K, A \o B)
             /\ EntitiesOf(A \o B) = EntitiesOf(A) \cup EntitiesOf(B)
  <2>1. ~DanglesIn(K, A) /\ ~DanglesIn(K \cup EntitiesOf(A), B)
    BY <1>6, <1>7
  <2>2. IsQueue(A \o B) /\ ~DanglesIn(K, A \o B)
    BY <1>3, <2>1, JoinGroups, JoinedEntities
  <2>3. EntitiesOf(A \o B) = EntitiesOf(A) \cup EntitiesOf(B)
    BY <1>3, JoinedEntities
  <2> QED BY <2>2, <2>3
<1> QED BY <1>3, <1>4, <1>6, <1>8

-----------------------------------------------------------------------------
(* Every step keeps the invariant. *)

LEMMA PackedIs ==
  ASSUME NEW uuid, NEW id, NEW flags, NEW things, IsQueue(things)
  PROVE  LET m == Packed(uuid, id, flags, things)
         IN  /\ IsMessage(m) /\ m.uuid = uuid /\ m.flags = flags
             /\ DOMAIN m.held = DOMAIN things
             /\ \A i \in DOMAIN things :
                  /\ m.held[i] = NoStack <=> things[i] = "gone"
                  /\ things[i] # "gone" => m.held[i].thing = things[i]
<1> DEFINE m == Packed(uuid, id, flags, things)
           n == Len(things)
<1>1. n \in Nat /\ DOMAIN things = 1 .. n
  BY QueueIs
<1>2. /\ m = [uuid |-> m.uuid, container |-> m.container, flags |-> m.flags, held |-> m.held]
      /\ m.uuid = uuid /\ m.flags = flags
      /\ m.held = [i \in 1 .. n |-> IF things[i] = "gone" THEN NoStack
                                    ELSE [entity |-> id + i, thing |-> things[i]]]
  BY <1>1 DEF Packed
<1>3. \A i \in 1 .. n :
        /\ m.held[i] = NoStack <=> things[i] = "gone"
        /\ things[i] # "gone" => m.held[i].thing = things[i]
  <2> TAKE i \in 1 .. n
  <2>1. m.held[i] = IF things[i] = "gone" THEN NoStack
                    ELSE [entity |-> id + i, thing |-> things[i]]
    BY <1>2
  <2> QED BY <2>1, StackIsSome
<1>4. m.held = [i \in 1 .. n |-> m.held[i]]
  BY <1>2
<1> DEFINE h == m.held
<1>5. h = [i \in 1 .. n |-> h[i]]
  BY <1>4
<1> HIDE DEF h
<1>6. IsQueue(h)
  BY <1>1, <1>5, QueueOf
<1> QED BY <1>1, <1>2, <1>3, <1>6 DEF IsMessage, h

LEMMA FitsAreQueue ==
  ASSUME NEW q, IsQueue(q), MAIL_ATTACHMENT_SLOTS \in Nat
  PROVE  IsQueue([i \in {j \in DOMAIN q : j <= MAIL_ATTACHMENT_SLOTS} |-> q[i]])
<1> DEFINE n == IF Len(q) <= MAIL_ATTACHMENT_SLOTS THEN Len(q) ELSE MAIL_ATTACHMENT_SLOTS
           f == [i \in {j \in DOMAIN q : j <= MAIL_ATTACHMENT_SLOTS} |-> q[i]]
<1>1. Len(q) \in Nat /\ DOMAIN q = 1 .. Len(q)
  BY QueueIs
<1>2. n \in Nat /\ {j \in DOMAIN q : j <= MAIL_ATTACHMENT_SLOTS} = 1 .. n
  BY <1>1
<1>3. f = [i \in 1 .. n |-> f[i]]
  BY <1>2
<1> HIDE DEF f
<1>4. IsQueue(f)
  BY <1>2, <1>3, QueueOf
<1> QED BY <1>4 DEF f

LEMMA ComposeKeeps ==
  ASSUME MailInv, NEW attachments, IsQueue(attachments), Compose(attachments)
  PROVE  MailInv'
<1> DEFINE things  == [i \in {j \in DOMAIN attachments : j <= MAIL_ATTACHMENT_SLOTS}
                         |-> attachments[i]]
           message == Packed(next_uuid(mailbox), mint, {}, things)
<1> USE DEF MailInv
<1>1. /\ stage # "away" /\ stage' = stage /\ bag' = bag /\ deleted' = deleted
      /\ state' = state /\ disk' = disk /\ unwritten' = unwritten /\ offered' = offered
      /\ mailbox' = Append(mailbox, message)
      /\ Send(announce_attachments(mailbox', message.uuid))
  BY DEF Compose, records
<1>2. IsQueue(things)
  BY FitsAreQueue, MailboxAssumption
<1> HIDE DEF things
<1>3. IsMessage(message) /\ message.uuid = next_uuid(mailbox)
  BY <1>2, PackedIs
<1> HIDE DEF message
<1>4. IsQueue(mailbox) /\ Len(mailbox) \in Nat /\ DOMAIN mailbox = 1 .. Len(mailbox)
  BY QueueIs DEF MailTyped
<1>5. /\ IsQueue(mailbox') /\ DOMAIN mailbox' = 1 .. Len(mailbox) + 1
      /\ \A i \in DOMAIN mailbox : mailbox'[i] = mailbox[i]
      /\ mailbox'[Len(mailbox) + 1] = message
      /\ \A i \in DOMAIN mailbox' : i \in DOMAIN mailbox \/ i = Len(mailbox) + 1
  BY <1>1, <1>4, QueueAppend
<1>6. MailTyped'
  <2>1. \A i \in DOMAIN mailbox' : IsMessage(mailbox'[i])
    BY <1>3, <1>5 DEF MailTyped
  <2>2. IsBag(bag') /\ IsBag(offered') /\ IsRecord(state') /\ IsRecord(disk')
        /\ IsQueue(unwritten') /\ \A j \in DOMAIN unwritten' : IsChange(unwritten'[j])
    BY <1>1 DEF MailTyped
  <2> QED BY <1>5, <2>1, <2>2 DEF MailTyped
<1>7. AllNumbered'
  <2> SUFFICES ASSUME NothingDeleted'
               PROVE  /\ Numbered(mailbox)' /\ Numbered(state.mail)' /\ Numbered(disk.mail)'
                      /\ \A j \in DOMAIN unwritten' :
                           unwritten'[j].field = "mail" => Numbered(unwritten'[j].value)
    BY DEF AllNumbered
  <2>1. NothingDeleted
    BY <1>1 DEF NothingDeleted
  <2>2. /\ Numbered(mailbox) /\ Numbered(state.mail) /\ Numbered(disk.mail)
        /\ \A j \in DOMAIN unwritten :
             unwritten[j].field = "mail" => Numbered(unwritten[j].value)
    BY <2>1 DEF AllNumbered
  <2>3. message.uuid[2] = Len(mailbox)
    BY <1>3 DEF next_uuid
  <2>4. Numbered(mailbox)'
    BY <1>4, <1>5, <2>2, <2>3 DEF Numbered
  <2> QED BY <1>1, <2>2, <2>4
<1>8. ClientKnows'
  <2> DEFINE list == mailbox'
             P == announce_attachments(list, message.uuid)
             new == Len(mailbox) + 1
  <2>1. IsQueue(list) /\ new \in DOMAIN list /\ list[new] = message
    BY <1>4, <1>5
  <2>2. \A i \in DOMAIN list : IsQueue(list[i].held)
    BY <1>6 DEF MailTyped, IsMessage
  <2> HIDE DEF list, new
  <2>3. PICK k \in DOMAIN list : IsFirst(list, k) /\ Named(list, message.uuid) = list[k]
    BY <2>1, NamedIsFirst
  <2>4. (\A K : ~Dangles(K, P)) /\ ToldOf(Entities(P), list[k])
    BY <2>2, <2>3, AnnouncedInOrder
  <2>5. Send(P)
    BY <1>1 DEF list
  <2> HIDE DEF P
  <2>6. ~dangled' /\ told' = told \cup Entities(P)
    BY <2>4, <2>5, Sent
  <2>7. ASSUME NEW i \in DOMAIN list, IsFirst(list, i)
        PROVE  ToldOf(told', list[i])
    <3>1. CASE i \in DOMAIN mailbox
      <4>1. list[i] = mailbox[i] /\ DOMAIN mailbox \subseteq DOMAIN list
            /\ \A l \in DOMAIN mailbox : list[l] = mailbox[l]
        BY <1>4, <1>5, <3>1 DEF list
      <4>2. IsFirst(mailbox, i)
        BY <2>7, <3>1, <4>1 DEF IsFirst
      <4> QED BY <2>6, <3>1, <4>1, <4>2 DEF ClientKnows, FirstsAreTold, ToldOf
    <3>2. CASE i \notin DOMAIN mailbox
      <4>1. i = new
        BY <1>5, <3>2 DEF list, new
      <4>2. list[i] = list[k]
        BY <2>1, <2>3, <2>7, <4>1, NamedIsFirst
      <4> QED BY <2>4, <2>6, <4>2 DEF ToldOf
    <3> QED BY <3>1, <3>2
  <2>8. FirstsAreTold(list, told')
    BY <2>7 DEF FirstsAreTold
  <2>9. \A s \in Stacked(bag') : s.entity \in told'
    BY <1>1, <2>6 DEF ClientKnows
  <2>10. stage' # "away"
    BY <1>1
  <2> QED BY <2>6, <2>8, <2>9, <2>10 DEF ClientKnows, FirstsAreTold, ToldOf, IsFirst, list
<1> QED BY <1>6, <1>7, <1>8

LEMMA ListsKnown ==
  ASSUME NEW K, NEW list,
         \A i \in DOMAIN list :
           list[i].container \in K /\ \A s \in Stacked(list[i].held) : s.entity \in K
  PROVE  /\ MailList(list).names \subseteq K
         /\ \A i \in DOMAIN list : ContainerList(list[i]).names \subseteq K
<1>1. \A m \in ToSet(list) : \E i \in DOMAIN list : m = list[i]
  BY DEF ToSet
<1> QED BY <1>1 DEF MailList, ContainerList

LEMMA MailListKnown ==
  ASSUME NEW K, NEW list, IsQueue(list), FirstsAreTold(list, K), ~Repeats(list)
  PROVE  ~Dangles(K, <<MailList(list)>>)
<1> DEFINE p == <<MailList(list)>>
<1>1. MailList(list).names \subseteq K
  <2>1. \A i \in DOMAIN list :
          list[i].container \in K /\ \A s \in Stacked(list[i].held) : s.entity \in K
    BY ApartAreTold
  <2> QED BY <2>1, ListsKnown
<1>2. DOMAIN p = {1} /\ p[1] = MailList(list)
  BY OnePacket
<1>3. \A i \in DOMAIN p : p[i].names \subseteq K
  BY <1>1, <1>2
<1> HIDE DEF p
<1>4. ~Dangles(K, p)
  BY <1>3, NamesKnown
<1> QED BY <1>4 DEF p

LEMMA MailCheckKeeps ==
  ASSUME MailInv, MailCheck
  PROVE  MailInv'
<1> USE DEF MailInv
<1>1. /\ stage' = stage /\ bag' = bag /\ deleted' = deleted /\ mailbox' = mailbox
      /\ state' = state /\ disk' = disk /\ unwritten' = unwritten /\ offered' = offered
      /\ Send(<<MailList(mailbox)>>)
  BY DEF MailCheck, session, records, sync_mailbox
<1>2. MailTyped' /\ AllNumbered'
  BY <1>1 DEF MailTyped, AllNumbered, NothingDeleted
<1>3. IsQueue(mailbox) /\ FirstsAreTold(mailbox, told)
  BY DEF MailTyped, ClientKnows
<1>4. ~Repeats(mailbox) => ~Dangles(told, <<MailList(mailbox)>>)
  BY <1>3, MailListKnown
<1>5. (dangled' => Repeats(mailbox)) /\ told \subseteq told'
  BY <1>1, <1>4, Sent
<1>6. ClientKnows'
  BY <1>1, <1>5 DEF ClientKnows, FirstsAreTold, ToldOf, IsFirst, Repeats
<1> QED BY <1>2, <1>6

LEMMA FoundIs ==
  ASSUME NEW uuid, IsQueue(mailbox), Find(mailbox, uuid) # {}
  PROVE  /\ FirstOf(Find(mailbox, uuid)) \in DOMAIN mailbox
         /\ mailbox[FirstOf(Find(mailbox, uuid))].uuid = uuid
         /\ IsFirst(mailbox, FirstOf(Find(mailbox, uuid)))
<1>1. DOMAIN mailbox = 1 .. Len(mailbox) /\ Len(mailbox) \in Nat
  BY QueueIs
<1>2. Find(mailbox, uuid) \subseteq Nat
  BY <1>1 DEF Find
<1>3. /\ FirstOf(Find(mailbox, uuid)) \in Find(mailbox, uuid)
      /\ \A y \in Find(mailbox, uuid) : FirstOf(Find(mailbox, uuid)) <= y
  BY <1>2, FirstIsOne
<1> QED BY <1>3 DEF Find, IsFirst

LEMMA FlagKeeps ==
  ASSUME MailInv, NEW uuid, NEW flag, Flag(uuid, flag)
  PROVE  MailInv'
<1> DEFINE at == FirstOf(Find(mailbox, uuid))
<1> USE DEF MailInv
<1>1. /\ stage = "playing" /\ stage' = stage /\ bag' = bag /\ deleted' = deleted
      /\ state' = state /\ disk' = disk /\ unwritten' = unwritten /\ offered' = offered
      /\ Find(mailbox, uuid) # {} /\ Send(<<>>)
      /\ mailbox' = [mailbox EXCEPT ![at].flags = @ \cup {flag}]
  BY DEF Flag, records
<1>2. IsQueue(mailbox) /\ at \in DOMAIN mailbox
  BY <1>1, FoundIs DEF MailTyped
<1>3. DOMAIN mailbox = 1 .. Len(mailbox) /\ Len(mailbox) \in Nat
  BY <1>2, QueueIs
<1> HIDE DEF at
<1>4. /\ DOMAIN mailbox' = DOMAIN mailbox
      /\ \A i \in DOMAIN mailbox :
           mailbox'[i] = IF i = at THEN [mailbox[i] EXCEPT !.flags = @ \cup {flag}] ELSE mailbox[i]
      /\ mailbox' = [i \in 1 .. Len(mailbox) |-> mailbox'[i]]
  BY <1>1, <1>2, <1>3
<1>5. \A i \in DOMAIN mailbox :
        /\ mailbox'[i].uuid = mailbox[i].uuid /\ mailbox'[i].container = mailbox[i].container
        /\ mailbox'[i].held = mailbox[i].held /\ IsMessage(mailbox'[i])
  BY <1>4 DEF MailTyped, IsMessage
<1>6. IsQueue(mailbox')
  BY <1>3, <1>4, QueueOf
<1>7. MailTyped'
  BY <1>1, <1>4, <1>5, <1>6 DEF MailTyped
<1>8. AllNumbered'
  <2>1. Numbered(mailbox) => Numbered(mailbox)'
    BY <1>4, <1>5 DEF Numbered
  <2>2. Numbered(state.mail)' = Numbered(state.mail) /\ Numbered(disk.mail)' = Numbered(disk.mail)
    BY <1>1 DEF Numbered
  <2> QED BY <1>1, <2>1, <2>2 DEF AllNumbered, NothingDeleted
<1>9. DOMAIN <<>> = {}
  OBVIOUS
<1>10. ~Dangles(told, <<>>)
  BY <1>9 DEF Dangles
<1>11. ~dangled' /\ told \subseteq told'
  BY <1>1, <1>10, Sent
<1>12. FirstsAreTold(mailbox', told')
  BY <1>4, <1>5, <1>11 DEF ClientKnows, FirstsAreTold, ToldOf, IsFirst
<1>13. ClientKnows'
  BY <1>1, <1>11, <1>12 DEF ClientKnows, FirstsAreTold, ToldOf, IsFirst
<1> QED BY <1>7, <1>8, <1>13

(* What a claim moves, and where to.                                       *)
LEMMA ClaimMoves ==
  ASSUME MailTyped, NEW uuid, NEW item_uuid, claim_attachment(uuid, item_uuid)
  PROVE  \/ /\ mailbox' = mailbox /\ bag' = bag /\ Send(<<MailList(mailbox)>>)
         \/ \E at \in DOMAIN mailbox : \E source \in DOMAIN mailbox[at].held, target \in DOMAIN bag :
              /\ IsFirst(mailbox, at)
              /\ mailbox[at].held[source] # NoStack /\ bag[target] = NoStack
              /\ bag' = [bag EXCEPT ![target] = mailbox[at].held[source]]
              /\ mailbox' = [mailbox EXCEPT ![at].held[source] = NoStack]
              /\ Send(<<ContainerList(mailbox'[at]), BagList(bag'), MailList(mailbox')>>)
<1> DEFINE at      == FirstOf(Find(mailbox, uuid))
           sources == {i \in DOMAIN mailbox[at].held :
                         /\ mailbox[at].held[i] # NoStack
                         /\ uuid_on_the_wire(mailbox[at].held[i]) = item_uuid}
           targets == {i \in 1 .. BagSize : bag[i] = NoStack}
<1>1. Find(mailbox, uuid) # {} /\ sources # {}
  BY DEF claim_attachment
<1>2. at \in DOMAIN mailbox /\ IsFirst(mailbox, at)
  BY <1>1, FoundIs DEF MailTyped
<1>3. FirstOf(sources) \in sources
  <2>1. IsQueue(mailbox[at].held)
    BY <1>2 DEF MailTyped, IsMessage
  <2>2. DOMAIN mailbox[at].held = 1 .. Len(mailbox[at].held) /\ Len(mailbox[at].held) \in Nat
    BY <2>1, QueueIs
  <2>3. sources \subseteq Nat
    BY <2>2
  <2> HIDE DEF sources
  <2> QED BY <1>1, <2>3, FirstIsOne
<1>4. DOMAIN bag = 1 .. BagSize
  BY DEF MailTyped, IsBag
<1>5. targets # {} => FirstOf(targets) \in targets
  <2>1. targets \subseteq Nat
    BY MailboxAssumption
  <2> HIDE DEF targets
  <2> QED BY <2>1, FirstIsOne
<1>6. \/ /\ targets # {}
         /\ bag' = [bag EXCEPT ![FirstOf(targets)] = mailbox[at].held[FirstOf(sources)]]
         /\ mailbox' = [mailbox EXCEPT ![at].held[FirstOf(sources)] = NoStack]
         /\ Send(<<ContainerList(mailbox'[at]), BagList(bag'), MailList(mailbox')>>)
      \/ mailbox' = mailbox /\ bag' = bag /\ Send(<<MailList(mailbox)>>)
  BY DEF claim_attachment, sync_mailbox
<1>7. CASE /\ targets # {}
           /\ bag' = [bag EXCEPT ![FirstOf(targets)] = mailbox[at].held[FirstOf(sources)]]
           /\ mailbox' = [mailbox EXCEPT ![at].held[FirstOf(sources)] = NoStack]
           /\ Send(<<ContainerList(mailbox'[at]), BagList(bag'), MailList(mailbox')>>)
  <2> DEFINE source == FirstOf(sources)
             target == FirstOf(targets)
  <2>1. source \in DOMAIN mailbox[at].held /\ mailbox[at].held[source] # NoStack
    BY <1>3
  <2>2. target \in DOMAIN bag /\ bag[target] = NoStack
    BY <1>4, <1>5, <1>7
  <2> HIDE DEF sources, targets, at
  <2> QED BY <1>2, <1>7, <2>1, <2>2
<1> QED BY <1>6, <1>7

LEMMA ThreePackets ==
  ASSUME NEW x, NEW y, NEW z, NEW K, x.names \subseteq K, y.names \subseteq K, z.names \subseteq K
  PROVE  ~Dangles(K, <<x, y, z>>)
<1> DEFINE p == <<x, y, z>>
<1>1. DOMAIN p = 1 .. 3 /\ p[1] = x /\ p[2] = y /\ p[3] = z
  OBVIOUS
<1>2. \A i \in DOMAIN p : p[i].names \subseteq K
  BY <1>1
<1> HIDE DEF p
<1>3. ~Dangles(K, p)
  BY <1>2, NamesKnown
<1> QED BY <1>3 DEF p

LEMMA ClaimKeeps ==
  ASSUME MailInv, NEW uuid, NEW item_uuid, claim_attachment(uuid, item_uuid)
  PROVE  MailInv'
<1> USE DEF MailInv
<1>1. /\ stage = "playing" /\ stage' = stage /\ deleted' = deleted
      /\ state' = state /\ disk' = disk /\ unwritten' = unwritten /\ offered' = offered
  BY DEF claim_attachment, records
<1>2. CASE mailbox' = mailbox /\ bag' = bag /\ Send(<<MailList(mailbox)>>)
  <2>1. MailTyped' /\ AllNumbered'
    BY <1>1, <1>2 DEF MailTyped, AllNumbered, NothingDeleted
  <2>2. IsQueue(mailbox) /\ FirstsAreTold(mailbox, told)
    BY DEF MailTyped, ClientKnows
  <2>3. ~Repeats(mailbox) => ~Dangles(told, <<MailList(mailbox)>>)
    BY <2>2, MailListKnown
  <2>4. (dangled' => Repeats(mailbox)) /\ told \subseteq told'
    BY <1>2, <2>3, Sent
  <2>5. ClientKnows'
    BY <1>1, <1>2, <2>4 DEF ClientKnows, FirstsAreTold, ToldOf, IsFirst, Repeats
  <2> QED BY <2>1, <2>5
<1>3. ASSUME NEW at \in DOMAIN mailbox, NEW source \in DOMAIN mailbox[at].held,
             NEW target \in DOMAIN bag, IsFirst(mailbox, at),
             mailbox[at].held[source] # NoStack, bag[target] = NoStack,
             bag' = [bag EXCEPT ![target] = mailbox[at].held[source]],
             mailbox' = [mailbox EXCEPT ![at].held[source] = NoStack],
             Send(<<ContainerList(mailbox'[at]), BagList(bag'), MailList(mailbox')>>)
      PROVE  MailInv'
  <2>1. DOMAIN mailbox = 1 .. Len(mailbox) /\ Len(mailbox) \in Nat
    BY QueueIs DEF MailTyped
  <2>2. /\ DOMAIN mailbox' = DOMAIN mailbox
        /\ \A i \in DOMAIN mailbox :
             mailbox'[i] = IF i = at
                           THEN [mailbox[i] EXCEPT !.held = [mailbox[i].held EXCEPT ![source] = NoStack]]
                           ELSE mailbox[i]
        /\ mailbox' = [i \in 1 .. Len(mailbox) |-> mailbox'[i]]
    BY <1>3, <2>1
  <2>3. \A i \in DOMAIN mailbox :
          /\ mailbox'[i] = [uuid |-> mailbox[i].uuid, container |-> mailbox[i].container,
                            flags |-> mailbox[i].flags, held |-> mailbox'[i].held]
          /\ mailbox'[i].held = IF i = at THEN [mailbox[i].held EXCEPT ![source] = NoStack]
                                ELSE mailbox[i].held
    BY <2>2 DEF MailTyped, IsMessage
  <2>3a. \A i \in DOMAIN mailbox :
           /\ mailbox'[i].uuid = mailbox[i].uuid
           /\ mailbox'[i].container = mailbox[i].container
    <3> TAKE i \in DOMAIN mailbox
    <3>1. mailbox[i] = [uuid |-> mailbox[i].uuid, container |-> mailbox[i].container,
                        flags |-> mailbox[i].flags, held |-> mailbox[i].held]
      BY DEF MailTyped, IsMessage
    <3> QED BY <2>2, <3>1
  <2>4. \A i \in DOMAIN mailbox :
          IsQueue(mailbox'[i].held) /\ Stacked(mailbox'[i].held) \subseteq Stacked(mailbox[i].held)
    <3> TAKE i \in DOMAIN mailbox
    <3> DEFINE old == mailbox[i].held
               new == mailbox'[i].held
    <3>1. IsQueue(old)
      BY DEF MailTyped, IsMessage
    <3>2. Len(old) \in Nat /\ DOMAIN old = 1 .. Len(old)
      BY <3>1, QueueIs
    <3>3. new = [k \in 1 .. Len(old) |-> new[k]]
          /\ \A k \in 1 .. Len(old) : new[k] = old[k] \/ new[k] = NoStack
      BY <2>3, <3>1, <3>2, QueueIs
    <3> HIDE DEF new
    <3>4. IsQueue(new)
      BY <3>2, <3>3, QueueOf
    <3>5. Stacked(new) \subseteq Stacked(old)
      BY <3>2, <3>3 DEF Stacked, ToSet
    <3> QED BY <3>4, <3>5 DEF new
  <2>5. IsQueue(mailbox')
    BY <2>1, <2>2, QueueOf
  <2>6. /\ DOMAIN bag' = DOMAIN bag /\ IsBag(bag')
        /\ \A i \in DOMAIN bag : bag'[i] = IF i = target THEN mailbox[at].held[source] ELSE bag[i]
    BY <1>3 DEF MailTyped, IsBag
  <2>7. MailTyped'
    <3>1. \A i \in DOMAIN mailbox' : IsMessage(mailbox'[i])
      BY <2>2, <2>3, <2>4 DEF IsMessage
    <3>2. IsBag(offered') /\ IsRecord(state') /\ IsRecord(disk')
          /\ IsQueue(unwritten') /\ \A j \in DOMAIN unwritten' : IsChange(unwritten'[j])
      BY <1>1 DEF MailTyped
    <3> QED BY <2>5, <2>6, <3>1, <3>2 DEF MailTyped
  <2>8. AllNumbered'
    <3>1. Numbered(mailbox) => Numbered(mailbox)'
      BY <2>2, <2>3a DEF Numbered
    <3>2. Numbered(state.mail)' = Numbered(state.mail) /\ Numbered(disk.mail)' = Numbered(disk.mail)
      BY <1>1 DEF Numbered
    <3> QED BY <1>1, <3>1, <3>2 DEF AllNumbered, NothingDeleted
  <2>9. FirstsAreTold(mailbox', told)
    <3> SUFFICES ASSUME NEW i \in DOMAIN mailbox, IsFirst(mailbox', i)
                 PROVE  ToldOf(told, mailbox'[i])
      BY <2>2 DEF FirstsAreTold
    <3>1. IsFirst(mailbox, i)
      BY <2>2, <2>3a DEF IsFirst
    <3>2. ToldOf(told, mailbox[i])
      BY <3>1 DEF ClientKnows, FirstsAreTold
    <3> QED BY <2>3a, <2>4, <3>2 DEF ToldOf
  <2>10. \A s \in Stacked(bag') : s.entity \in told
    <3>1. mailbox[at].held[source] \in Stacked(mailbox[at].held)
      BY <1>3 DEF Stacked, ToSet
    <3>2. Stacked(bag') \subseteq Stacked(bag) \cup {mailbox[at].held[source]}
      BY <2>6 DEF Stacked, ToSet
    <3>3. ToldOf(told, mailbox[at])
      BY <1>3 DEF ClientKnows, FirstsAreTold
    <3> QED BY <3>1, <3>2, <3>3 DEF ClientKnows, ToldOf
  <2>11. ~Repeats(mailbox') =>
         /\ ContainerList(mailbox'[at]).names \subseteq told
         /\ MailList(mailbox').names \subseteq told
         /\ BagList(bag').names \subseteq told
    <3> SUFFICES ASSUME ~Repeats(mailbox')
                 PROVE  /\ ContainerList(mailbox'[at]).names \subseteq told
                        /\ MailList(mailbox').names \subseteq told
                        /\ BagList(bag').names \subseteq told
      OBVIOUS
    <3>1. \A i \in DOMAIN mailbox' :
            mailbox'[i].container \in told /\ \A s \in Stacked(mailbox'[i].held) : s.entity \in told
      BY <2>5, <2>9, ApartAreTold
    <3>2. /\ MailList(mailbox').names \subseteq told
          /\ \A i \in DOMAIN mailbox' : ContainerList(mailbox'[i]).names \subseteq told
      BY <3>1, ListsKnown
    <3>3. BagList(bag').names \subseteq told
      BY <2>10 DEF BagList
    <3> QED BY <2>2, <3>2, <3>3
  <2>12. ~Repeats(mailbox') =>
           ~Dangles(told, <<ContainerList(mailbox'[at]), BagList(bag'), MailList(mailbox')>>)
    BY <2>11, ThreePackets
  <2>13. (dangled' => Repeats(mailbox')) /\ told \subseteq told'
    BY <1>3, <2>12, Sent
  <2>14. FirstsAreTold(mailbox', told')
    BY <2>9, <2>13 DEF FirstsAreTold, ToldOf
  <2>15. ClientKnows'
    BY <1>1, <2>10, <2>13, <2>14 DEF ClientKnows, FirstsAreTold, ToldOf, IsFirst, Repeats
  <2> QED BY <2>7, <2>8, <2>15
<1> QED
  <2>1. MailTyped
    OBVIOUS
  <2>2. \/ mailbox' = mailbox /\ bag' = bag /\ Send(<<MailList(mailbox)>>)
        \/ \E at \in DOMAIN mailbox : \E source \in DOMAIN mailbox[at].held, target \in DOMAIN bag :
              /\ IsFirst(mailbox, at)
              /\ mailbox[at].held[source] # NoStack /\ bag[target] = NoStack
              /\ bag' = [bag EXCEPT ![target] = mailbox[at].held[source]]
              /\ mailbox' = [mailbox EXCEPT ![at].held[source] = NoStack]
              /\ Send(<<ContainerList(mailbox'[at]), BagList(bag'), MailList(mailbox')>>)
    BY <2>1, ClaimMoves
  <2> QED BY <1>2, <1>3, <2>2

(* The messages that stay are all of those that do not go.                 *)
LEMMA StaysAreKept ==
  ASSUME NEW S, IsFiniteSet(S), NEW at \in InTheirOrder(S), S \subseteq Nat
  PROVE  /\ Cardinality(S) \in Nat /\ at \in [1 .. Cardinality(S) -> S]
         /\ \A i, j \in DOMAIN at : i < j => at[i] < at[j]
         /\ \A i \in S : \E j \in DOMAIN at : at[j] = i
<1> DEFINE N == Cardinality(S)
<1>1. N \in Nat
  BY FS_CardinalityType
<1>2. /\ at \in [1 .. N -> S]
      /\ \A i, j \in DOMAIN at : i < j => at[i] < at[j]
  BY DEF InTheirOrder
<1> HIDE DEF N
<1>3. \A i, j \in 1 .. N : at[i] = at[j] => i = j
  <2> SUFFICES ASSUME NEW i \in 1 .. N, NEW j \in 1 .. N, at[i] = at[j]
               PROVE  i = j
    OBVIOUS
  <2>1. at[i] \in Nat /\ at[j] \in Nat /\ i \in Nat /\ j \in Nat
    <3>1. at[i] \in S /\ at[j] \in S
      BY <1>2
    <3>2. i \in Nat /\ j \in Nat
      BY <1>1
    <3> QED BY <3>1, <3>2
  <2>2. ~(i < j) /\ ~(j < i)
    BY <1>2, <2>1
  <2> QED BY <2>1, <2>2
<1>4. IsFiniteSet(1 .. N) /\ Cardinality(1 .. N) = N
  BY <1>1, FS_Interval
<1> DEFINE I == 1 .. N
<1>5. at \in Injection(I, S)
  BY <1>2, <1>3 DEF Injection, IsInjective
<1> HIDE DEF I
<1>6. at \in Surjection(I, S)
  BY <1>4, <1>5, FS_Injection DEF I, N
<1>7. \A i \in S : \E j \in DOMAIN at : at[j] = i
  BY <1>2, <1>6 DEF Surjection, I
<1> QED BY <1>1, <1>2, <1>7 DEF N

(* What counts from one to a natural number is a natural number.           *)
LEMMA IndicesAreNaturals == \A n \in Nat : \A i \in 1 .. n : i \in Nat
OBVIOUS

LEMMA DeleteKeeps ==
  ASSUME MailInv, NEW uuid, DeleteMail(uuid)
  PROVE  MailInv'
<1> DEFINE stays == DOMAIN mailbox \ Find(mailbox, uuid)
           N == Cardinality(stays)
<1> USE DEF MailInv
<1>1. /\ stage = "playing" /\ stage' = stage /\ bag' = bag
      /\ state' = state /\ disk' = disk /\ unwritten' = unwritten /\ offered' = offered
      /\ Send(<<MailList(mailbox')>>)
      /\ ~NothingDeleted'
  BY DEF DeleteMail, records, sync_mailbox, NothingDeleted
<1>2. PICK at \in InTheirOrder(stays) : mailbox' = [i \in DOMAIN at |-> mailbox[at[i]]]
  BY DEF DeleteMail
<1>3. N \in Nat
  <2>1. DOMAIN mailbox = 1 .. Len(mailbox) /\ Len(mailbox) \in Nat
    BY QueueIs DEF MailTyped
  <2>2. IsFiniteSet(1 .. Len(mailbox))
    BY <2>1, FS_Interval
  <2>3. IsFiniteSet(stays)
    BY <2>1, <2>2, FS_Subset
  <2> QED BY <2>3, FS_CardinalityType
<1>4. at \in [1 .. N -> stays]
  BY <1>2 DEF InTheirOrder
<1>5. /\ DOMAIN mailbox' = 1 .. N
      /\ \A i \in 1 .. N : at[i] \in DOMAIN mailbox /\ mailbox'[i] = mailbox[at[i]]
      /\ mailbox' = [i \in 1 .. N |-> mailbox'[i]]
  BY <1>2, <1>4
<1>6. IsQueue(mailbox')
  BY <1>3, <1>5, QueueOf
<1>7. MailTyped'
  <2>1. \A i \in DOMAIN mailbox' : IsMessage(mailbox'[i])
    BY <1>5 DEF MailTyped
  <2> QED BY <1>1, <1>6, <2>1 DEF MailTyped
<1>8. AllNumbered'
  BY <1>1 DEF AllNumbered
<1>9. FirstsAreTold(mailbox', told)
  <2> SUFFICES ASSUME NEW i \in 1 .. N, IsFirst(mailbox', i)
               PROVE  ToldOf(told, mailbox'[i])
    BY <1>5 DEF FirstsAreTold
  <2>1. stays \subseteq Nat /\ IsFiniteSet(stays)
    <3>1. DOMAIN mailbox = 1 .. Len(mailbox) /\ Len(mailbox) \in Nat
      BY QueueIs DEF MailTyped
    <3>2. IsFiniteSet(1 .. Len(mailbox))
      BY <3>1, FS_Interval
    <3>3. IsFiniteSet(stays)
      BY <3>1, <3>2, FS_Subset
    <3> QED BY <3>1, <3>3
  <2>1a. /\ \A k, l \in DOMAIN at : k < l => at[k] < at[l]
         /\ \A j \in stays : \E k \in DOMAIN at : at[k] = j
    <3> HIDE DEF stays
    <3> QED BY <1>2, <2>1, StaysAreKept
  <2>2. at[i] \in stays /\ at[i] \in DOMAIN mailbox /\ mailbox'[i] = mailbox[at[i]]
    BY <1>4, <1>5
  <2>3. ASSUME NEW j \in DOMAIN mailbox, mailbox[j].uuid = mailbox[at[i]].uuid
        PROVE  at[i] <= j
    <3>1. j \in stays
      BY <2>2, <2>3 DEF Find
    <3>2. PICK k \in 1 .. N : at[k] = j
      BY <1>4, <2>1a, <3>1
    <3>3. mailbox'[k] = mailbox[j] /\ k \in DOMAIN mailbox'
      BY <1>5, <3>2
    <3>4. i <= k
      BY <2>2, <2>3, <3>3 DEF IsFirst
    <3>5. i \in Nat /\ k \in Nat /\ at[i] \in Nat /\ at[k] \in Nat
      <4>1. at[i] \in Nat /\ at[k] \in Nat
        BY <2>1, <2>2, <3>1, <3>2
      <4>2. i \in Nat /\ k \in Nat
        BY IndicesAreNaturals, <1>3
      <4> QED BY <4>1, <4>2
    <3>6. i = k \/ i < k
      BY <3>4, <3>5
    <3>7. CASE i = k
      BY <3>2, <3>5, <3>7
    <3>8. CASE i < k
      <4>1. i \in DOMAIN at /\ k \in DOMAIN at
        BY <1>4
      <4>2. at[i] < at[k]
        BY <2>1a, <3>8, <4>1
      <4> QED BY <3>2, <3>5, <4>2
    <3> QED BY <3>6, <3>7, <3>8
  <2>4. IsFirst(mailbox, at[i])
    BY <2>2, <2>3 DEF IsFirst
  <2> QED BY <2>2, <2>4 DEF ClientKnows, FirstsAreTold
<1>10. ~Repeats(mailbox') => ~Dangles(told, <<MailList(mailbox')>>)
  BY <1>6, <1>9, MailListKnown
<1>11. (dangled' => Repeats(mailbox')) /\ told \subseteq told'
  BY <1>1, <1>10, Sent
<1>12. FirstsAreTold(mailbox', told')
  BY <1>9, <1>11 DEF FirstsAreTold, ToldOf
<1>13. ClientKnows'
  BY <1>1, <1>11, <1>12 DEF ClientKnows, FirstsAreTold, ToldOf, IsFirst, Repeats
<1> QED BY <1>7, <1>8, <1>13

(* What a tick holds and writes down.                                      *)
Restored(stored, list) ==
  /\ IsQueue(list) /\ DOMAIN list = DOMAIN stored
  /\ \A i \in DOMAIN list :
       /\ IsMessage(list[i]) /\ list[i].uuid = stored[i].uuid /\ list[i].flags = stored[i].flags
       /\ DOMAIN list[i].held = DOMAIN stored[i].held
       /\ \A k \in DOMAIN list[i].held :
            /\ list[i].held[k] = NoStack <=> stored[i].held[k] = "gone"
            /\ list[i].held[k] # NoStack => list[i].held[k].thing = stored[i].held[k]

LEMMA UnpackedIs ==
  ASSUME NEW stored, NEW id, IsStored(stored)
  PROVE  Restored(stored, Unpacked(stored, id))
<1> DEFINE list == Unpacked(stored, id)
<1>1. DOMAIN stored = 1 .. Len(stored) /\ Len(stored) \in Nat
  BY QueueIs DEF IsStored
<1>2. /\ DOMAIN list = DOMAIN stored /\ list = [i \in 1 .. Len(stored) |-> list[i]]
      /\ \A i \in DOMAIN stored :
           list[i] = Packed(stored[i].uuid, StartOf(stored, id, i), stored[i].flags, stored[i].held)
  BY <1>1 DEF Unpacked
<1> HIDE DEF list
<1>3. IsQueue(list)
  BY <1>1, <1>2, QueueOf
<1>4. ASSUME NEW i \in DOMAIN list
      PROVE  /\ IsMessage(list[i]) /\ list[i].uuid = stored[i].uuid /\ list[i].flags = stored[i].flags
             /\ DOMAIN list[i].held = DOMAIN stored[i].held
             /\ \A k \in DOMAIN list[i].held :
                  /\ list[i].held[k] = NoStack <=> stored[i].held[k] = "gone"
                  /\ list[i].held[k] # NoStack => list[i].held[k].thing = stored[i].held[k]
  <2>1. IsQueue(stored[i].held)
    BY <1>2 DEF IsStored
  <2>2. /\ IsMessage(list[i]) /\ list[i].uuid = stored[i].uuid /\ list[i].flags = stored[i].flags
        /\ DOMAIN list[i].held = DOMAIN stored[i].held
        /\ \A k \in DOMAIN stored[i].held :
             /\ list[i].held[k] = NoStack <=> stored[i].held[k] = "gone"
             /\ stored[i].held[k] # "gone" => list[i].held[k].thing = stored[i].held[k]
    <3>1. list[i] = Packed(stored[i].uuid, StartOf(stored, id, i), stored[i].flags, stored[i].held)
      BY <1>2
    <3> DEFINE u == stored[i].uuid
               n == StartOf(stored, id, i)
               f == stored[i].flags
               h == stored[i].held
    <3> HIDE DEF n, f, h, u
    <3>2. LET m == Packed(u, n, f, h)
          IN  /\ IsMessage(m) /\ m.uuid = u /\ m.flags = f
              /\ DOMAIN m.held = DOMAIN h
              /\ \A k \in DOMAIN h :
                   /\ m.held[k] = NoStack <=> h[k] = "gone"
                   /\ h[k] # "gone" => m.held[k].thing = h[k]
      BY <2>1, PackedIs DEF h
    <3>3. list[i] = Packed(u, n, f, h)
      BY <3>1 DEF u, n, f, h
    <3>4. /\ IsMessage(list[i]) /\ list[i].uuid = u /\ list[i].flags = f
          /\ DOMAIN list[i].held = DOMAIN h
          /\ \A k \in DOMAIN h :
               /\ list[i].held[k] = NoStack <=> h[k] = "gone"
               /\ h[k] # "gone" => list[i].held[k].thing = h[k]
      BY <3>2, <3>3
    <3> QED BY <3>4 DEF u, f, h
  <2> QED BY <2>2
<1>5. Restored(stored, list)
  BY <1>2, <1>3, <1>4 DEF Restored
<1> QED BY <1>5 DEF list

LEMMA GivenIs ==
  ASSUME NEW stored, NEW id, IsBag(stored)
  PROVE  /\ IsBag(Given(stored, id))
         /\ \A t : InBag(Given(stored, id), t) <=> InBag(stored, t)
<1> DEFINE b == Given(stored, id)
<1>1. /\ DOMAIN b = 1 .. BagSize /\ DOMAIN stored = 1 .. BagSize
      /\ b = [i \in 1 .. BagSize |-> b[i]]
      /\ \A i \in 1 .. BagSize : b[i] = IF stored[i] = NoStack THEN NoStack
                                        ELSE [entity |-> id + i - 1, thing |-> stored[i].thing]
  BY DEF Given, IsBag
<1> HIDE DEF b
<1>2. \A i \in 1 .. BagSize :
        /\ b[i] = NoStack <=> stored[i] = NoStack
        /\ stored[i] # NoStack => b[i].thing = stored[i].thing
  BY <1>1, StackIsSome
<1>3. IsBag(b) /\ \A t : InBag(b, t) <=> InBag(stored, t)
  BY <1>1, <1>2 DEF IsBag, InBag
<1> QED BY <1>3 DEF b

LEMMA StoredBagIs ==
  ASSUME NEW b, IsBag(b)
  PROVE  IsBag(StoredBag(b)) /\ \A t : InBag(StoredBag(b), t) <=> InBag(b, t)
<1> DEFINE c == StoredBag(b)
<1>1. /\ DOMAIN c = 1 .. BagSize /\ DOMAIN b = 1 .. BagSize
      /\ c = [i \in 1 .. BagSize |-> c[i]]
      /\ \A i \in 1 .. BagSize : c[i] = IF b[i] = NoStack THEN NoStack ELSE [thing |-> b[i].thing]
  BY DEF StoredBag, IsBag
<1> HIDE DEF c
<1>2. \A i \in 1 .. BagSize :
        /\ c[i] = NoStack <=> b[i] = NoStack
        /\ b[i] # NoStack => c[i].thing = b[i].thing
  BY <1>1, StackIsSome
<1>3. IsBag(c) /\ \A t : InBag(c, t) <=> InBag(b, t)
  BY <1>1, <1>2 DEF IsBag, InBag
<1> QED BY <1>3 DEF c

LEMMA StoredMailIs ==
  ASSUME NEW list, IsQueue(list), \A i \in DOMAIN list : IsMessage(list[i])
  PROVE  LET stored == stored_mail(list)
         IN  /\ IsStored(stored) /\ DOMAIN stored = DOMAIN list
             /\ \A i \in DOMAIN list :
                  stored[i].uuid = list[i].uuid /\ stored[i].flags = list[i].flags
             /\ \A t : InStored(stored, t) <=> t # "gone" /\ InMail(list, t)
<1> DEFINE stored == stored_mail(list)
<1>1. DOMAIN list = 1 .. Len(list) /\ Len(list) \in Nat
  BY QueueIs
<1>2. /\ DOMAIN stored = DOMAIN list /\ stored = [i \in 1 .. Len(list) |-> stored[i]]
      /\ \A i \in DOMAIN list :
           /\ stored[i].uuid = list[i].uuid /\ stored[i].flags = list[i].flags
           /\ stored[i].held = Things(list[i].held)
  BY <1>1 DEF stored_mail
<1> HIDE DEF stored
<1>3. IsQueue(stored)
  BY <1>1, <1>2, QueueOf
<1>4. ASSUME NEW i \in DOMAIN list
      PROVE  /\ IsQueue(stored[i].held) /\ DOMAIN stored[i].held = DOMAIN list[i].held
             /\ \A k \in DOMAIN list[i].held :
                  stored[i].held[k] = IF list[i].held[k] = NoStack THEN "gone"
                                      ELSE list[i].held[k].thing
  <2> DEFINE held == list[i].held
             kept == Things(held)
  <2>1. DOMAIN held = 1 .. Len(held) /\ Len(held) \in Nat
    BY QueueIs DEF IsMessage
  <2>2. /\ DOMAIN kept = DOMAIN held /\ kept = [k \in 1 .. Len(held) |-> kept[k]]
        /\ \A k \in DOMAIN held : kept[k] = IF held[k] = NoStack THEN "gone" ELSE held[k].thing
    BY <2>1 DEF Things
  <2> HIDE DEF kept
  <2>3. IsQueue(kept)
    BY <2>1, <2>2, QueueOf
  <2> QED BY <1>2, <2>2, <2>3 DEF kept
<1>5. IsStored(stored)
  BY <1>2, <1>3, <1>4 DEF IsStored
<1>6. ASSUME NEW t
      PROVE  InStored(stored, t) <=> t # "gone" /\ InMail(list, t)
  <2>1. ASSUME InStored(stored, t)
        PROVE  t # "gone" /\ InMail(list, t)
    <3>1. PICK i \in DOMAIN list : \E k \in DOMAIN list[i].held : stored[i].held[k] = t
      BY <1>2, <1>4, <2>1 DEF InStored
    <3>2. PICK k \in DOMAIN list[i].held : stored[i].held[k] = t
      BY <3>1
    <3>3. t # "gone"
      BY <2>1 DEF InStored
    <3>4. list[i].held[k] # NoStack /\ list[i].held[k].thing = t
      BY <1>4, <3>2, <3>3
    <3> QED BY <3>3, <3>4 DEF InMail
  <2>2. ASSUME t # "gone", InMail(list, t)
        PROVE  InStored(stored, t)
    <3>1. PICK i \in DOMAIN list : \E k \in DOMAIN list[i].held :
                 list[i].held[k] # NoStack /\ list[i].held[k].thing = t
      BY <2>2 DEF InMail
    <3>2. PICK k \in DOMAIN list[i].held : list[i].held[k] # NoStack /\ list[i].held[k].thing = t
      BY <3>1
    <3>3. k \in DOMAIN stored[i].held /\ stored[i].held[k] = t
      BY <1>4, <3>2
    <3> QED BY <1>2, <2>2, <3>3 DEF InStored
  <2> QED BY <2>1, <2>2
<1> QED BY <1>2, <1>5, <1>6 DEF stored

LEMMA SentAll ==
  ASSUME NEW groups, SendAll(groups)
  PROVE  (dangled' => DanglesIn(told, groups)) /\ told' = told \cup EntitiesOf(groups)
BY DEF SendAll, DanglesIn

(* What has changed, the rucksack first.                                   *)
LEMMA ChangesAre ==
  ASSUME NEW new
  PROVE  LET R == RecordChanges(new)
             B == Change("bag", new.bag)
             M == Change("mail", new.mail)
         IN  \/ R = <<>> /\ new.bag = state.bag /\ new.mail = state.mail
             \/ R = <<B>> /\ new.mail = state.mail
             \/ R = <<M>> /\ new.bag = state.bag
             \/ R = <<B, M>>
<1> DEFINE B == Change("bag", new.bag)
           M == Change("mail", new.mail)
           R == RecordChanges(new)
<1>1. /\ new["bag"] = new.bag /\ new["mail"] = new.mail
      /\ state["bag"] = state.bag /\ state["mail"] = state.mail
  OBVIOUS
<1>2. R = (IF new.bag = state.bag THEN <<>> ELSE <<B>>)
            \o (IF new.mail = state.mail THEN <<>> ELSE <<M>>)
  BY <1>1 DEF RecordChanges, Changes
<1> HIDE DEF R, B, M
<1>3. /\ <<>> \o <<>> = <<>> /\ <<B>> \o <<>> = <<B>> /\ <<>> \o <<M>> = <<M>>
      /\ <<B>> \o <<M>> = <<B, M>>
  <2>1. <<>> \o <<>> = <<>>
    OBVIOUS
  <2>2. <<B>> \o <<>> = <<B>>
    BY ConcatNothing, ShortQueues
  <2>3. <<>> \o <<M>> = <<M>>
    <3>1. <<M>> \in Seq({M})
      OBVIOUS
    <3> QED BY <3>1, ConcatEmptySeq
  <2>4. <<B>> \o <<M>> = <<B, M>>
    <3>1. <<B>> \in Seq({B, M}) /\ <<M>> \in Seq({B, M}) /\ <<B, M>> \in Seq({B, M})
      OBVIOUS
    <3>2. Len(<<B>>) = 1 /\ Len(<<M>>) = 1 /\ Len(<<B, M>>) = 2
      OBVIOUS
    <3>3. <<B>>[1] = B /\ <<M>>[1] = M /\ <<B, M>>[1] = B /\ <<B, M>>[2] = M
      OBVIOUS
    <3> DEFINE b == <<B>>
               m == <<M>>
               bm == <<B, M>>
    <3> HIDE DEF b, m, bm
    <3>4. b \in Seq({B, M}) /\ m \in Seq({B, M}) /\ bm \in Seq({B, M})
      BY <3>1 DEF b, m, bm
    <3>5. Len(b) = 1 /\ Len(m) = 1 /\ Len(bm) = 2 /\ b[1] = B /\ m[1] = M /\ bm[1] = B /\ bm[2] = M
      BY <3>2, <3>3 DEF b, m, bm
    <3>6. /\ b \o m \in Seq({B, M}) /\ Len(b \o m) = Len(b) + Len(m)
          /\ \A i \in 1 .. Len(b) + Len(m) :
               (b \o m)[i] = IF i <= Len(b) THEN b[i] ELSE m[i - Len(b)]
      BY <3>4, ConcatProperties
    <3>7. \A i \in 1 .. 2 : i = 1 \/ i = 2
      OBVIOUS
    <3>8. Len(b \o m) = 2 /\ (b \o m)[1] = B /\ (b \o m)[2] = M
      BY <3>5, <3>6
    <3>9. b \o m = bm
      BY <3>4, <3>5, <3>6, <3>7, <3>8, SeqEqual
    <3> QED BY <3>9 DEF b, m, bm
  <2> QED BY <2>1, <2>2, <2>3, <2>4
<1>4. \/ R = <<>> /\ new.bag = state.bag /\ new.mail = state.mail
      \/ R = <<B>> /\ new.mail = state.mail
      \/ R = <<M>> /\ new.bag = state.bag
      \/ R = <<B, M>>
  BY <1>2, <1>3
<1> QED BY <1>4 DEF R, B, M

LEMMA ChangesInQueue ==
  ASSUME NEW new
  PROVE  /\ IsQueue(RecordChanges(new))
         /\ \A i \in DOMAIN RecordChanges(new) :
              \/ RecordChanges(new)[i] = Change("bag", new.bag)
              \/ RecordChanges(new)[i] = Change("mail", new.mail)
<1> DEFINE B == Change("bag", new.bag)
           M == Change("mail", new.mail)
           R == RecordChanges(new)
<1>1. R = <<>> \/ R = <<B>> \/ R = <<M>> \/ R = <<B, M>>
  BY ChangesAre
<1> HIDE DEF R, B, M
<1>2. /\ DOMAIN <<>> = {} /\ DOMAIN <<B>> = {1} /\ <<B>>[1] = B
      /\ DOMAIN <<M>> = {1} /\ <<M>>[1] = M
  BY OnePacket
<1>3. DOMAIN <<B, M>> = 1 .. 2 /\ <<B, M>>[1] = B /\ <<B, M>>[2] = M
  OBVIOUS
<1>4. \A i \in DOMAIN R : R[i] = B \/ R[i] = M
  BY <1>1, <1>2, <1>3
<1>5. IsQueue(R)
  BY <1>1, ShortQueues
<1> QED BY <1>4, <1>5 DEF R, B, M

(* What a tick restores is of the session's types, and what it records.    *)
LEMMA TickTypes ==
  ASSUME MailTyped, Tick
  PROVE  /\ IsBag(bag') /\ IsQueue(mailbox') /\ \A i \in DOMAIN mailbox' : IsMessage(mailbox'[i])
         /\ IsRecord(state') /\ state'.bag = StoredBag(bag') /\ state'.mail = stored_mail(mailbox')
<1>1. bag' = RestoredBag /\ mailbox' = RestoredMail
      /\ state' = [bag |-> StoredBag(bag'), mail |-> stored_mail(mailbox')]
  BY DEF Tick
<1>2. IsBag(state.bag) /\ IsStored(state.mail)
  BY DEF MailTyped, IsRecord
<1>3. IsBag(bag')
  BY <1>1, <1>2, GivenIs DEF RestoredBag, MailTyped
<1>4. IsQueue(mailbox') /\ \A i \in DOMAIN mailbox' : IsMessage(mailbox'[i])
  <2>1. CASE mail_restored \/ mailbox # <<>>
    BY <1>1, <2>1 DEF RestoredMail, MailTyped
  <2>2. CASE ~(mail_restored \/ mailbox # <<>>)
    <3>1. mailbox' = Unpacked(state.mail, mint + BagSize)
      BY <1>1, <2>2 DEF RestoredMail
    <3>2. Restored(state.mail, mailbox')
      BY <1>2, <3>1, UnpackedIs
    <3> QED BY <3>2 DEF Restored
  <2> QED BY <2>1, <2>2
<1>5. IsBag(StoredBag(bag')) /\ IsStored(stored_mail(mailbox'))
  BY <1>3, <1>4, StoredBagIs, StoredMailIs
<1> QED BY <1>1, <1>3, <1>4, <1>5 DEF IsRecord

LEMMA TickKeeps ==
  ASSUME MailInv, Tick
  PROVE  MailInv'
<1> DEFINE R == RecordChanges(state')
           A == IF bag' = bag THEN <<>> ELSE BagPackets(bag')
           B == IF mailbox' = mailbox THEN <<>> ELSE RestorePackets(mailbox')
<1> USE DEF MailInv
<1>1. /\ stage = "playing" /\ stage' = stage /\ disk' = disk /\ deleted' = deleted
      /\ offered' = offered
      /\ mailbox' = RestoredMail
      /\ unwritten' = unwritten \o R
      /\ SendAll(A \o B)
  BY DEF Tick
<1>2. /\ IsBag(bag') /\ IsQueue(mailbox') /\ \A i \in DOMAIN mailbox' : IsMessage(mailbox'[i])
      /\ IsRecord(state') /\ state'.mail = stored_mail(mailbox')
  BY TickTypes
<1>3. IsQueue(R) /\ \A i \in DOMAIN R : R[i] = Change("bag", state'.bag) \/ R[i] = Change("mail", state'.mail)
  BY ChangesInQueue
<1> HIDE DEF R, A, B
<1>4. IsQueue(unwritten) /\ DOMAIN unwritten = 1 .. Len(unwritten) /\ DOMAIN R = 1 .. Len(R)
  BY <1>3, QueueIs DEF MailTyped
<1>5. /\ IsQueue(unwritten')
      /\ \A j \in DOMAIN unwritten' : \/ \E i \in DOMAIN unwritten : unwritten'[j] = unwritten[i]
                                      \/ \E i \in DOMAIN R : unwritten'[j] = R[i]
  <2>1. IsQueue(unwritten \o R)
    BY <1>3, <1>4, QueueConcat
  <2>2. /\ \A i \in 1 .. Len(unwritten) : (unwritten \o R)[i] = unwritten[i]
        /\ \A i \in 1 .. Len(R) : (unwritten \o R)[Len(unwritten) + i] = R[i]
    BY <1>3, <1>4, QueueConcat
  <2>3. \A i \in 1 .. Len(unwritten \o R) :
          i \in 1 .. Len(unwritten) \/ \E j \in 1 .. Len(R) : i = Len(unwritten) + j
    BY <1>3, <1>4, QueueConcat
  <2>4. DOMAIN (unwritten \o R) = 1 .. Len(unwritten \o R)
    BY <2>1, QueueIs
  <2>5. unwritten' = unwritten \o R
    BY <1>1
  <2>6. \A j \in DOMAIN (unwritten \o R) :
           \/ \E i \in DOMAIN unwritten : (unwritten \o R)[j] = unwritten[i]
           \/ \E i \in DOMAIN R : (unwritten \o R)[j] = R[i]
    <3> TAKE j \in DOMAIN (unwritten \o R)
    <3>1. CASE j \in 1 .. Len(unwritten)
      BY <1>4, <2>2, <3>1
    <3>2. CASE j \notin 1 .. Len(unwritten)
      <4>1. PICK i \in 1 .. Len(R) : j = Len(unwritten) + i
        BY <2>3, <2>4, <3>2
      <4>2. (unwritten \o R)[j] = R[i]
        BY <2>2, <4>1
      <4> QED BY <1>4, <4>2
    <3> QED BY <3>1, <3>2
  <2> QED BY <2>1, <2>5, <2>6
<1>6. MailTyped'
  <2>1. IsChange(Change("bag", state'.bag)) /\ IsChange(Change("mail", state'.mail))
    BY <1>2 DEF IsRecord, IsChange, Change
  <2>2. \A j \in DOMAIN unwritten' : IsChange(unwritten'[j])
    BY <1>3, <1>5, <2>1 DEF MailTyped
  <2>3. IsRecord(disk') /\ IsBag(offered')
    BY <1>1 DEF MailTyped
  <2> QED BY <1>2, <1>5, <2>2, <2>3 DEF MailTyped
<1>7. AllNumbered'
  <2> SUFFICES ASSUME NothingDeleted'
               PROVE  /\ Numbered(mailbox') /\ Numbered(state'.mail) /\ Numbered(disk'.mail)
                      /\ \A j \in DOMAIN unwritten' :
                           unwritten'[j].field = "mail" => Numbered(unwritten'[j].value)
    BY DEF AllNumbered, Numbered
  <2>1. /\ Numbered(mailbox) /\ Numbered(state.mail) /\ Numbered(disk.mail)
        /\ \A j \in DOMAIN unwritten :
             unwritten[j].field = "mail" => Numbered(unwritten[j].value)
    BY <1>1 DEF AllNumbered, NothingDeleted
  <2>2. Numbered(mailbox')
    <3>1. CASE mail_restored \/ mailbox # <<>>
      BY <1>1, <2>1, <3>1 DEF RestoredMail
    <3>2. CASE ~(mail_restored \/ mailbox # <<>>)
      <4>1. mailbox' = Unpacked(state.mail, mint + BagSize)
        BY <1>1, <3>2 DEF RestoredMail
      <4>2. IsStored(state.mail)
        BY DEF MailTyped, IsRecord
      <4>3. Restored(state.mail, mailbox')
        BY <4>1, <4>2, UnpackedIs
      <4> QED BY <2>1, <4>3 DEF Restored, Numbered
    <3> QED BY <3>1, <3>2
  <2>3. Numbered(state'.mail)
    <3> DEFINE stored == stored_mail(mailbox')
    <3>1. DOMAIN stored = DOMAIN mailbox' /\ \A i \in DOMAIN mailbox' : stored[i].uuid = mailbox'[i].uuid
      BY <1>2, StoredMailIs
    <3> HIDE DEF stored
    <3>2. Numbered(stored)
      BY <2>2, <3>1 DEF Numbered
    <3> QED BY <1>2, <3>2 DEF stored
  <2>4. \A j \in DOMAIN unwritten' :
           unwritten'[j].field = "mail" => Numbered(unwritten'[j].value)
    <3>1. Change("bag", state'.bag).field # "mail" /\ Change("mail", state'.mail).value = state'.mail
      BY DEF Change
    <3> QED BY <1>3, <1>5, <2>1, <2>3, <3>1
  <2> QED BY <1>1, <2>1, <2>2, <2>3, <2>4
<1>8. ClientKnows'
  <2>1. /\ IsQueue(A) /\ ~DanglesIn(told, A)
        /\ \/ bag' = bag
           \/ \A s \in Stacked(bag') : s.entity \in EntitiesOf(A)
    <3>1. DOMAIN <<>> = {}
      OBVIOUS
    <3>2. CASE bag' = bag
      BY <3>1, <3>2, ShortQueues DEF A, DanglesIn
    <3>3. CASE bag' # bag
      <4> DEFINE new == bag'
      <4>1. IsBag(new) /\ A = BagPackets(new)
        BY <1>2, <3>3 DEF A
      <4> HIDE DEF new
      <4>2. /\ IsQueue(BagPackets(new)) /\ ~DanglesIn(told, BagPackets(new))
            /\ \A s \in Stacked(new) : s.entity \in EntitiesOf(BagPackets(new))
        BY <4>1, BagTells
      <4> QED BY <4>1, <4>2 DEF new
    <3> QED BY <3>2, <3>3
  <2>2. /\ IsQueue(B) /\ \A K : ~Repeats(mailbox') => ~DanglesIn(K, B)
        /\ \/ mailbox' = mailbox
           \/ FirstsAreTold(mailbox', EntitiesOf(B))
    <3>1. DOMAIN <<>> = {}
      OBVIOUS
    <3>2. \A i \in DOMAIN mailbox' : IsQueue(mailbox'[i].held)
      BY <1>2 DEF IsMessage
    <3>3. CASE mailbox' = mailbox
      BY <3>1, <3>3, ShortQueues DEF B, DanglesIn
    <3>4. CASE mailbox' # mailbox
      <4> DEFINE new == mailbox'
      <4>1. IsQueue(new) /\ \A i \in DOMAIN new : IsQueue(new[i].held)
        BY <1>2, <3>2
      <4>2. B = RestorePackets(new)
        BY <3>4 DEF B
      <4> HIDE DEF new
      <4>3. /\ IsQueue(RestorePackets(new))
            /\ \A K : ~Repeats(new) => ~DanglesIn(K, RestorePackets(new))
            /\ FirstsAreTold(new, EntitiesOf(RestorePackets(new)))
        BY <4>1, RestoreTells
      <4> QED BY <4>2, <4>3 DEF new
    <3> QED BY <3>3, <3>4
  <2>3. ~Repeats(mailbox') => ~DanglesIn(told, A \o B)
    <3> SUFFICES ASSUME ~Repeats(mailbox')
                 PROVE  ~DanglesIn(told, A \o B)
      OBVIOUS
    <3>1. IsQueue(A) /\ IsQueue(B) /\ ~DanglesIn(told, A)
      BY <2>1, <2>2
    <3>2. ~DanglesIn(told \cup EntitiesOf(A), B)
      BY <2>2, Zenon
    <3> QED BY <3>1, <3>2, JoinGroups
  <2>4. EntitiesOf(A \o B) = EntitiesOf(A) \cup EntitiesOf(B)
    BY <2>1, <2>2, JoinedEntities
  <2>5. (dangled' => Repeats(mailbox')) /\ told' = told \cup EntitiesOf(A \o B)
    <3>1. (dangled' => DanglesIn(told, A \o B)) /\ told' = told \cup EntitiesOf(A \o B)
      BY <1>1, SentAll
    <3> QED BY <2>3, <3>1
  <2>6. \A s \in Stacked(bag') : s.entity \in told'
    BY <2>1, <2>4, <2>5 DEF ClientKnows
  <2>7. FirstsAreTold(mailbox', told')
    BY <2>2, <2>4, <2>5 DEF ClientKnows, FirstsAreTold, ToldOf
  <2>8. stage' # "away"
    BY <1>1
  <2> QED BY <2>5, <2>6, <2>7, <2>8 DEF ClientKnows, FirstsAreTold, ToldOf, IsFirst, Repeats
<1> QED BY <1>6, <1>7, <1>8

LEMMA NothingIsHeld ==
  /\ IsBag(NothingHeld) /\ Stacked(NothingHeld) = {} /\ IsQueue(<<>>) /\ DOMAIN <<>> = {}
  /\ IsRecord(Blank) /\ Blank.mail = <<>> /\ Blank.bag = NothingHeld /\ Numbered(<<>>)
<1>1. DOMAIN <<>> = {} /\ IsQueue(<<>>)
  BY ShortQueues
<1>2. IsBag(NothingHeld) /\ Stacked(NothingHeld) = {}
  BY DEF NothingHeld, IsBag, Stacked, ToSet
<1>3. IsRecord(Blank) /\ Blank.mail = <<>> /\ Blank.bag = NothingHeld
  BY <1>1, <1>2 DEF Blank, IsRecord, IsStored
<1>4. Numbered(<<>>)
  BY <1>1 DEF Numbered
<1> QED BY <1>1, <1>2, <1>3, <1>4

LEMMA JoinKeeps ==
  ASSUME MailInv, Join
  PROVE  MailInv'
<1> USE DEF MailInv
<1>1. /\ stage = "away" /\ bag' = bag /\ deleted' = deleted /\ mailbox' = mailbox
      /\ state' = state /\ disk' = disk /\ unwritten' = unwritten /\ offered' = offered /\ dangled' = dangled
  BY DEF Join, records
<1>2. MailTyped' /\ AllNumbered'
  BY <1>1 DEF MailTyped, AllNumbered, NothingDeleted
<1>3. ClientKnows'
  BY <1>1, NothingIsHeld DEF ClientKnows, FirstsAreTold, Repeats
<1> QED BY <1>2, <1>3

LEMMA EnterKeeps ==
  ASSUME MailInv, Enter
  PROVE  MailInv'
<1> USE DEF MailInv
<1>1. /\ stage = "joining" /\ stage' = "playing"
      /\ bag' = bag /\ deleted' = deleted /\ mailbox' = mailbox /\ told' = told
      /\ state' = state /\ disk' = disk /\ unwritten' = unwritten /\ offered' = offered /\ dangled' = dangled
  BY DEF Enter, records
<1>2. MailTyped' /\ AllNumbered'
  BY <1>1 DEF MailTyped, AllNumbered, NothingDeleted
<1>3. ClientKnows'
  BY <1>1 DEF ClientKnows, FirstsAreTold, ToldOf, IsFirst, Repeats
<1> QED BY <1>2, <1>3

LEMMA GoneKeeps ==
  ASSUME MailInv, GoneSession, disk' = disk, IsBag(offered'),
         IsRecord(state'), IsQueue(unwritten'), \A j \in DOMAIN unwritten' : IsChange(unwritten'[j]),
         NothingDeleted => /\ Numbered(state'.mail)
                           /\ \A j \in DOMAIN unwritten' :
                                unwritten'[j].field = "mail" => Numbered(unwritten'[j].value)
  PROVE  MailInv'
<1> USE DEF MailInv
<1>1. /\ stage' = "away" /\ mailbox' = <<>> /\ bag' = NothingHeld
      /\ deleted' = deleted /\ ~dangled'
  BY DEF GoneSession
<1>2. MailTyped'
  BY <1>1, NothingIsHeld DEF MailTyped
<1>3. AllNumbered'
  <2>1. NothingDeleted => Numbered(disk.mail)
    BY DEF AllNumbered
  <2>2. NothingDeleted' <=> NothingDeleted
    BY <1>1 DEF NothingDeleted
  <2>3. Numbered(disk'.mail) <=> Numbered(disk.mail)
    OBVIOUS
  <2>4. Numbered(mailbox')
    BY <1>1, NothingIsHeld
  <2> QED BY <2>1, <2>2, <2>3, <2>4 DEF AllNumbered, Numbered
<1>4. ClientKnows'
  BY <1>1, NothingIsHeld DEF ClientKnows, FirstsAreTold
<1> QED BY <1>2, <1>3, <1>4

LEMMA LeaveKeeps ==
  ASSUME MailInv, Leave
  PROVE  MailInv'
<1>1. GoneSession /\ state' = state /\ disk' = disk /\ unwritten' = unwritten /\ offered' = offered
  BY DEF Leave, records
<1>2. /\ IsBag(offered) /\ IsRecord(state) /\ IsQueue(unwritten) /\ \A j \in DOMAIN unwritten : IsChange(unwritten[j])
      /\ NothingDeleted => /\ Numbered(state.mail)
                           /\ \A j \in DOMAIN unwritten :
                                unwritten[j].field = "mail" => Numbered(unwritten[j].value)
  BY DEF MailInv, MailTyped, AllNumbered
<1> QED BY <1>1, <1>2, GoneKeeps

LEMMA CrashKeeps ==
  ASSUME MailInv, CrashAndRestart
  PROVE  MailInv'
<1>1. /\ GoneSession /\ state' = disk /\ disk' = disk /\ unwritten' = <<>>
      /\ offered' = disk.bag
  BY DEF CrashAndRestart
<1>2. IsRecord(disk) /\ (NothingDeleted => Numbered(disk.mail))
  BY DEF MailInv, MailTyped, AllNumbered
<1>3. IsBag(offered')
  BY <1>1, <1>2 DEF IsRecord
<1> QED BY <1>1, <1>2, <1>3, GoneKeeps, NothingIsHeld

(* The first change is made or refused, and the rest move up.              *)
LEMMA WriteMovesUp ==
  ASSUME MailTyped, WriteOne
  PROVE  LET c == unwritten[1]
         IN  /\ state' = state /\ deleted' = deleted /\ bag' = bag /\ mailbox' = mailbox
             /\ mail_restored' = mail_restored /\ stage' = stage
             /\ told' = told /\ dangled' = dangled
             /\ IsChange(c) /\ 1 \in DOMAIN unwritten
             /\ offered' = (IF c.field = "bag" THEN c.value ELSE offered)
             /\ disk' = [bag |-> disk'.bag, mail |-> disk'.mail]
             /\ disk'.bag = disk.bag \/ (c.field = "bag" /\ disk'.bag = c.value)
             /\ disk'.mail = disk.mail \/ (c.field = "mail" /\ disk'.mail = c.value)
             /\ Len(unwritten') \in Nat /\ Len(unwritten) = Len(unwritten') + 1
             /\ IsQueue(unwritten')
             /\ DOMAIN unwritten = 1 .. Len(unwritten) /\ DOMAIN unwritten' = 1 .. Len(unwritten')
             /\ \A k \in DOMAIN unwritten' : k + 1 \in DOMAIN unwritten /\ unwritten'[k] = unwritten[k + 1]
<1> DEFINE c == unwritten[1]
<1>1. /\ state' = state /\ deleted' = deleted /\ bag' = bag /\ mailbox' = mailbox
      /\ mail_restored' = mail_restored /\ stage' = stage
      /\ told' = told /\ dangled' = dangled
      /\ unwritten # <<>> /\ unwritten' = Tail(unwritten)
      /\ \/ disk' = [disk EXCEPT ![Head(unwritten).field] = Head(unwritten).value]
         \/ disk' = disk
      /\ offered' = IF Head(unwritten).field = "bag" THEN Head(unwritten).value ELSE offered
  BY DEF WriteOne, session
<1>2. IsQueue(unwritten) /\ DOMAIN unwritten = 1 .. Len(unwritten)
  BY QueueIs DEF MailTyped
<1>3. /\ IsQueue(unwritten') /\ Len(unwritten) \in Nat /\ Len(unwritten) >= 1
      /\ Len(unwritten') = Len(unwritten) - 1 /\ Head(unwritten) = c
      /\ \A i \in 1 .. Len(unwritten') : unwritten'[i] = unwritten[i + 1] /\ i + 1 \in 1 .. Len(unwritten)
  BY <1>1, <1>2, QueueTail
<1>4. DOMAIN unwritten' = 1 .. Len(unwritten') /\ Len(unwritten') \in Nat
  BY <1>3, QueueIs
<1>5. 1 \in DOMAIN unwritten /\ IsChange(c)
  BY <1>2, <1>3 DEF MailTyped
<1> HIDE DEF c
<1>6. /\ disk' = [bag |-> disk'.bag, mail |-> disk'.mail]
      /\ disk'.bag = disk.bag \/ (c.field = "bag" /\ disk'.bag = c.value)
      /\ disk'.mail = disk.mail \/ (c.field = "mail" /\ disk'.mail = c.value)
  <2>1. disk = [bag |-> disk.bag, mail |-> disk.mail]
    BY DEF MailTyped, IsRecord
  <2>2. CASE disk' = disk
    BY <2>1, <2>2
  <2>3. CASE disk' = [disk EXCEPT ![c.field] = c.value] /\ c.field = "bag"
    BY <2>1, <2>3
  <2>4. CASE disk' = [disk EXCEPT ![c.field] = c.value] /\ c.field = "mail"
    BY <2>1, <2>4
  <2> QED BY <1>1, <1>3, <1>5, <2>2, <2>3, <2>4 DEF IsChange
<1>7. Len(unwritten) = Len(unwritten') + 1
  BY <1>3
<1>8. offered' = IF c.field = "bag" THEN c.value ELSE offered
  BY <1>1, <1>3
<1> QED BY <1>1, <1>2, <1>3, <1>4, <1>5, <1>6, <1>7, <1>8 DEF c

LEMMA WriteKeeps ==
  ASSUME MailInv, WriteOne
  PROVE  MailInv'
<1> DEFINE c == unwritten[1]
<1> USE DEF MailInv
<1>1. /\ stage' = stage /\ bag' = bag /\ deleted' = deleted /\ mailbox' = mailbox /\ told' = told
      /\ state' = state /\ dangled' = dangled
      /\ IsChange(c) /\ 1 \in DOMAIN unwritten
      /\ offered' = (IF c.field = "bag" THEN c.value ELSE offered)
      /\ disk' = [bag |-> disk'.bag, mail |-> disk'.mail]
      /\ disk'.bag = disk.bag \/ (c.field = "bag" /\ disk'.bag = c.value)
      /\ disk'.mail = disk.mail \/ (c.field = "mail" /\ disk'.mail = c.value)
      /\ IsQueue(unwritten')
      /\ \A k \in DOMAIN unwritten' : k + 1 \in DOMAIN unwritten /\ unwritten'[k] = unwritten[k + 1]
  BY WriteMovesUp
<1> HIDE DEF c
<1>2. MailTyped'
  <2>1. IsRecord(disk')
    BY <1>1 DEF MailTyped, IsRecord, IsChange
  <2>2. \A j \in DOMAIN unwritten' : IsChange(unwritten'[j])
    BY <1>1 DEF MailTyped
  <2>3. IsBag(offered')
    BY <1>1 DEF MailTyped, IsChange
  <2> QED BY <1>1, <2>1, <2>2, <2>3 DEF MailTyped
<1>3. AllNumbered'
  <2> SUFFICES ASSUME NothingDeleted'
               PROVE  /\ Numbered(mailbox') /\ Numbered(state'.mail) /\ Numbered(disk'.mail)
                      /\ \A j \in DOMAIN unwritten' :
                           unwritten'[j].field = "mail" => Numbered(unwritten'[j].value)
    BY DEF AllNumbered, Numbered
  <2>1. /\ Numbered(mailbox) /\ Numbered(state.mail) /\ Numbered(disk.mail)
        /\ \A j \in DOMAIN unwritten :
             unwritten[j].field = "mail" => Numbered(unwritten[j].value)
    BY <1>1 DEF AllNumbered, NothingDeleted
  <2>2. Numbered(disk'.mail)
    BY <1>1, <2>1 DEF c
  <2> QED BY <1>1, <2>1, <2>2
<1>4. ClientKnows'
  BY <1>1 DEF ClientKnows, FirstsAreTold, ToldOf, IsFirst, Repeats
<1> QED BY <1>2, <1>3, <1>4

LEMMA MailInitHasInv == MailInit => MailInv
<1> SUFFICES ASSUME MailInit
             PROVE  MailInv
  OBVIOUS
<1>1. MailTyped
  BY NothingIsHeld DEF MailInit, MailTyped
<1>2. AllNumbered
  BY NothingIsHeld DEF MailInit, AllNumbered
<1>3. ClientKnows
  BY NothingIsHeld DEF MailInit, ClientKnows, FirstsAreTold
<1> QED BY <1>1, <1>2, <1>3 DEF MailInv

LEMMA MailStepKeepsInv ==
  ASSUME MailInv, [MailNext]_mail_vars
  PROVE  MailInv'
<1>0. Compose(<<>>) => MailInv'
  BY ComposeKeeps, ShortQueues
<1>1. ASSUME NEW t, Compose(<<t>>)
      PROVE  MailInv'
  BY <1>1, ComposeKeeps, ShortQueues
<1>2. ASSUME NEW s, NEW t, Compose(<<s, t>>)
      PROVE  MailInv'
  BY <1>2, ComposeKeeps, ShortQueues
<1>3. ASSUME NEW uuid, NEW flag, Flag(uuid, flag)
      PROVE  MailInv'
  BY <1>3, FlagKeeps
<1>4. ASSUME NEW uuid, NEW item_uuid, claim_attachment(uuid, item_uuid)
      PROVE  MailInv'
  BY <1>4, ClaimKeeps
<1>5. ASSUME NEW uuid, DeleteMail(uuid)
      PROVE  MailInv'
  BY <1>5, DeleteKeeps
<1>6. CASE UNCHANGED mail_vars
  BY <1>6 DEF mail_vars, MailInv, MailTyped, AllNumbered, NothingDeleted, ClientKnows,
              FirstsAreTold, ToldOf, IsFirst, Repeats
<1> QED
  BY <1>0, <1>1, <1>2, <1>3, <1>4, <1>5, <1>6, MailCheckKeeps, TickKeeps, JoinKeeps, EnterKeeps,
     LeaveKeeps, WriteKeeps, CrashKeeps DEF MailNext

(* The invariant holds in every state.                                     *)
THEOREM MailInvHolds == MailSpec => []MailInv
<1>1. MailInit => MailInv
  BY MailInitHasInv
<1>2. MailInv /\ [MailNext]_mail_vars => MailInv'
  BY MailStepKeepsInv
<1> QED BY <1>1, <1>2, PTL DEF MailSpec

(* No packet names an entity before its client has been told of it,        *)
(* whatever is composed, claimed, deleted or restored in whatever order,   *)
(* unless two messages of the inbox have one uuid.                         *)
THEOREM InboxIsAnnounced == MailSpec => []InboxNeverDangles
<1>1. MailInv => InboxNeverDangles
  BY DEF MailInv, ClientKnows, InboxNeverDangles
<1> QED BY <1>1, MailInvHolds, PTL

(* As long as nothing has been deleted no two messages have the same uuid, *)
(* over sessions, restores and restarts that start the ids again.          *)
THEOREM MessagesStayApart == MailSpec => []UuidsAreUnique
<1>1. MailInv => UuidsAreUnique
  <2> SUFFICES ASSUME MailInv, NothingDeleted, NEW i \in DOMAIN mailbox, NEW j \in DOMAIN mailbox,
                      mailbox[i].uuid = mailbox[j].uuid
               PROVE  i = j
    BY DEF UuidsAreUnique, NothingDeleted
  <2>1. i \in Nat /\ j \in Nat
    BY QueueIs DEF MailInv, MailTyped
  <2>2. mailbox[i].uuid[2] = i - 1 /\ mailbox[j].uuid[2] = j - 1
    BY DEF MailInv, AllNumbered, Numbered
  <2> QED BY <2>1, <2>2
<1> QED BY <1>1, MailInvHolds, PTL

-----------------------------------------------------------------------------
(* What is written down is kept.  What has been recorded has been given to *)
(* the database or is in one of the changes on their way to it: before the *)
(* n-th of those is given, an attachment is in a rucksack or in an inbox,  *)
(* and a message has a flag.  A rucksack the database was given it may     *)
(* have refused; an inbox counts from when it took it.                     *)

BagAt(n, t) ==
  \/ InBag(offered, t)
  \/ \E j \in DOMAIN unwritten :
       j < n /\ unwritten[j].field = "bag" /\ InBag(unwritten[j].value, t)

MailAt(n, t) ==
  \/ InStored(disk.mail, t)
  \/ \E j \in DOMAIN unwritten :
       j < n /\ unwritten[j].field = "mail" /\ InStored(unwritten[j].value, t)

FlagAt(n, i, f) ==
  \/ Flagged(disk.mail, i, f)
  \/ \E j \in DOMAIN unwritten :
       j < n /\ unwritten[j].field = "mail" /\ Flagged(unwritten[j].value, i, f)

(* A rucksack that is written keeps what was in those before it, taken or  *)
(* refused,                                                                *)
BagGrows(t) ==
  /\ InBag(disk.bag, t) => InBag(offered, t)
  /\ \A k \in DOMAIN unwritten :
       unwritten[k].field = "bag" /\ BagAt(k, t) => InBag(unwritten[k].value, t)
  /\ InBag(state.bag, t) <=> BagAt(Len(unwritten) + 1, t)

(* an inbox keeps what was in those before it, unless a rucksack written   *)
(* earlier has it or it was deleted,                                       *)
StackIsKept(t) ==
  /\ \A k \in DOMAIN unwritten :
       unwritten[k].field = "mail" /\ MailAt(k, t) =>
         InStored(unwritten[k].value, t) \/ BagAt(k, t) \/ t \in deleted
  /\ MailAt(Len(unwritten) + 1, t) =>
       InStored(state.mail, t) \/ InBag(state.bag, t) \/ t \in deleted

(* a message keeps its flags,                                              *)
FlagIsKept(i, f) ==
  NothingDeleted =>
    /\ \A k \in DOMAIN unwritten :
         unwritten[k].field = "mail" /\ FlagAt(k, i, f) => Flagged(unwritten[k].value, i, f)
    /\ FlagAt(Len(unwritten) + 1, i, f) => Flagged(state.mail, i, f)

(* and a session that has been handed what was stored has it all.          *)
SessionHas(t) ==
  mail_restored =>
    /\ InBag(state.bag, t) => InBag(bag, t)
    /\ InStored(state.mail, t) => InMail(mailbox, t) \/ InBag(bag, t) \/ t \in deleted

SessionFlags(i, f) ==
  mail_restored /\ NothingDeleted => (Flagged(state.mail, i, f) => Flagged(mailbox, i, f))

BeforeRestore == ~mail_restored => mailbox = <<>> /\ bag = NothingHeld

KeptInv ==
  /\ BeforeRestore
  /\ \A t : BagGrows(t) /\ StackIsKept(t) /\ SessionHas(t)
  /\ \A i, f : FlagIsKept(i, f) /\ SessionFlags(i, f)

(* A step that writes nothing down.                                        *)
LEMMA RecordsStay ==
  ASSUME KeptInv, state' = state, disk' = disk, unwritten' = unwritten, offered' = offered,
         deleted \subseteq deleted'
  PROVE  /\ \A t : BagGrows(t)' /\ StackIsKept(t)'
         /\ \A i, f : FlagIsKept(i, f)'
<1>1. ASSUME NEW t
      PROVE  BagGrows(t)' /\ StackIsKept(t)'
  <2>1. /\ \A k : BagAt(k, t)' <=> BagAt(k, t)
        /\ \A k : MailAt(k, t)' <=> MailAt(k, t)
    BY DEF BagAt, MailAt, InBag, InStored
  <2>2. BagGrows(t) /\ StackIsKept(t)
    BY DEF KeptInv
  <2>3. BagGrows(t)'
    BY <2>1, <2>2 DEF BagGrows
  <2>4. StackIsKept(t)'
    BY <2>1, <2>2 DEF StackIsKept
  <2> QED BY <2>3, <2>4
<1>2. ASSUME NEW i, NEW f
      PROVE  FlagIsKept(i, f)'
  <2>1. \A k : FlagAt(k, i, f)' <=> FlagAt(k, i, f)
    BY DEF FlagAt, Flagged
  <2>2. FlagIsKept(i, f)
    BY DEF KeptInv
  <2>3. NothingDeleted' => NothingDeleted
    BY DEF NothingDeleted
  <2> QED BY <2>1, <2>2, <2>3 DEF FlagIsKept
<1> QED BY <1>1, <1>2

(* A step of the session alone: what it holds it still holds, or has moved *)
(* from the inbox to the rucksack, or has deleted.                         *)
LEMMA SessionKeepsKept ==
  ASSUME KeptInv, state' = state, disk' = disk, unwritten' = unwritten, offered' = offered,
         deleted \subseteq deleted', mail_restored, mail_restored' = mail_restored,
         \A t : InBag(bag, t) => InBag(bag', t),
         \A t : InMail(mailbox, t) => InMail(mailbox', t) \/ InBag(bag', t) \/ t \in deleted',
         NothingDeleted' => \A i, f : Flagged(mailbox, i, f) => Flagged(mailbox', i, f)
  PROVE  KeptInv'
<1>1. /\ \A t : BagGrows(t)' /\ StackIsKept(t)'
      /\ \A i, f : FlagIsKept(i, f)'
  BY RecordsStay
<1>2. ASSUME NEW t
      PROVE  SessionHas(t)'
  <2>1. SessionHas(t)
    BY DEF KeptInv
  <2>2. InBag(state'.bag, t) => InBag(bag', t)
    BY <2>1 DEF SessionHas
  <2>3. InStored(state'.mail, t) => InMail(mailbox', t) \/ InBag(bag', t) \/ t \in deleted'
    BY <2>1 DEF SessionHas
  <2> QED BY <2>2, <2>3 DEF SessionHas, InBag, InStored, InMail
<1>3. ASSUME NEW i, NEW f
      PROVE  SessionFlags(i, f)'
  <2>1. SessionFlags(i, f)
    BY DEF KeptInv
  <2>2. NothingDeleted' => NothingDeleted
    BY DEF NothingDeleted
  <2>3. NothingDeleted' => (Flagged(state'.mail, i, f) => Flagged(mailbox', i, f))
    BY <2>1, <2>2 DEF SessionFlags
  <2> QED BY <2>3 DEF SessionFlags, Flagged
<1>4. BeforeRestore'
  BY DEF BeforeRestore
<1> QED BY <1>1, <1>2, <1>3, <1>4 DEF KeptInv

LEMMA FoundIsRestored ==
  ASSUME KeptInv, MailTyped, NEW uuid, Find(mailbox, uuid) # {}
  PROVE  mail_restored
<1>1. DOMAIN <<>> = {}
  OBVIOUS
<1> QED BY <1>1 DEF KeptInv, BeforeRestore, Find

LEMMA ComposeKeepsKept ==
  ASSUME KeptInv, MailInv, ~Hasty, NEW attachments, IsQueue(attachments), Compose(attachments)
  PROVE  KeptInv'
<1> DEFINE things  == [i \in {j \in DOMAIN attachments : j <= MAIL_ATTACHMENT_SLOTS}
                         |-> attachments[i]]
           message == Packed(next_uuid(mailbox), mint, {}, things)
<1>1. /\ mail_restored /\ mail_restored' = mail_restored /\ bag' = bag /\ deleted' = deleted
      /\ state' = state /\ disk' = disk /\ unwritten' = unwritten /\ offered' = offered
      /\ mailbox' = Append(mailbox, message)
  BY DEF Compose, records
<1> HIDE DEF message
<1>2. IsQueue(mailbox)
  BY DEF MailInv, MailTyped
<1>3. \A i \in DOMAIN mailbox : i \in DOMAIN mailbox' /\ mailbox'[i] = mailbox[i]
  <2>1. DOMAIN mailbox = 1 .. Len(mailbox) /\ Len(mailbox) \in Nat
    BY <1>2, QueueIs
  <2>2. /\ DOMAIN mailbox' = 1 .. Len(mailbox) + 1
        /\ \A i \in DOMAIN mailbox : mailbox'[i] = mailbox[i]
    BY <1>1, <1>2, QueueAppend
  <2> QED BY <2>1, <2>2
<1>4. \A t : InMail(mailbox, t) => InMail(mailbox', t)
  BY <1>3 DEF InMail
<1>5. \A i, f : Flagged(mailbox, i, f) => Flagged(mailbox', i, f)
  BY <1>3 DEF Flagged
<1> QED BY <1>1, <1>4, <1>5, SessionKeepsKept

LEMMA FlagKeepsKept ==
  ASSUME KeptInv, MailInv, NEW uuid, NEW flag, Flag(uuid, flag)
  PROVE  KeptInv'
<1> DEFINE at == FirstOf(Find(mailbox, uuid))
<1>1. /\ Find(mailbox, uuid) # {} /\ mail_restored' = mail_restored /\ bag' = bag /\ deleted' = deleted
      /\ state' = state /\ disk' = disk /\ unwritten' = unwritten /\ offered' = offered
      /\ mailbox' = [mailbox EXCEPT ![at].flags = @ \cup {flag}]
  BY DEF Flag, records
<1>2. MailTyped
  BY DEF MailInv
<1>3. mail_restored
  BY <1>1, <1>2, FoundIsRestored
<1> HIDE DEF at
<1>4. /\ DOMAIN mailbox' = DOMAIN mailbox
      /\ \A i \in DOMAIN mailbox :
           mailbox'[i] = IF i = at THEN [mailbox[i] EXCEPT !.flags = @ \cup {flag}] ELSE mailbox[i]
  BY <1>1, <1>2 DEF MailTyped
<1>5. \A i \in DOMAIN mailbox :
        mailbox'[i].held = mailbox[i].held /\ mailbox[i].flags \subseteq mailbox'[i].flags
  BY <1>2, <1>4 DEF MailTyped, IsMessage
<1>6. \A t : InMail(mailbox, t) => InMail(mailbox', t)
  BY <1>4, <1>5 DEF InMail
<1>7. \A i, f : Flagged(mailbox, i, f) => Flagged(mailbox', i, f)
  BY <1>4, <1>5 DEF Flagged
<1> QED BY <1>1, <1>3, <1>6, <1>7, SessionKeepsKept

LEMMA ClaimKeepsKept ==
  ASSUME KeptInv, MailInv, NEW uuid, NEW item_uuid, claim_attachment(uuid, item_uuid)
  PROVE  KeptInv'
<1>1. /\ Find(mailbox, uuid) # {} /\ mail_restored' = mail_restored /\ deleted' = deleted
      /\ state' = state /\ disk' = disk /\ unwritten' = unwritten /\ offered' = offered
  BY DEF claim_attachment, records
<1>2. MailTyped
  BY DEF MailInv
<1>3. mail_restored
  BY <1>1, <1>2, FoundIsRestored
<1>4. CASE mailbox' = mailbox /\ bag' = bag
  <2>1. \A t : InBag(bag, t) => InBag(bag', t)
    BY <1>4
  <2>2. \A t : InMail(mailbox, t) => InMail(mailbox', t)
    BY <1>4
  <2>3. \A i, f : Flagged(mailbox, i, f) => Flagged(mailbox', i, f)
    BY <1>4
  <2> QED BY <1>1, <1>3, <2>1, <2>2, <2>3, SessionKeepsKept
<1>5. ASSUME NEW at \in DOMAIN mailbox, NEW source \in DOMAIN mailbox[at].held,
             NEW target \in DOMAIN bag,
             mailbox[at].held[source] # NoStack, bag[target] = NoStack,
             bag' = [bag EXCEPT ![target] = mailbox[at].held[source]],
             mailbox' = [mailbox EXCEPT ![at].held[source] = NoStack]
      PROVE  KeptInv'
  <2>1. /\ DOMAIN bag' = DOMAIN bag
        /\ \A i \in DOMAIN bag : bag'[i] = IF i = target THEN mailbox[at].held[source] ELSE bag[i]
    BY <1>2, <1>5 DEF MailTyped, IsBag
  <2>2. \A t : InBag(bag, t) => InBag(bag', t)
    BY <1>5, <2>1 DEF InBag
  <2>3. /\ DOMAIN mailbox' = DOMAIN mailbox
        /\ \A i \in DOMAIN mailbox :
             mailbox'[i] = IF i = at
                           THEN [mailbox[i] EXCEPT !.held = [mailbox[i].held EXCEPT ![source] = NoStack]]
                           ELSE mailbox[i]
    BY <1>2, <1>5 DEF MailTyped
  <2>4. \A i \in DOMAIN mailbox :
          /\ mailbox'[i].flags = mailbox[i].flags
          /\ mailbox'[i].held = IF i = at THEN [mailbox[i].held EXCEPT ![source] = NoStack]
                                ELSE mailbox[i].held
    BY <1>2, <2>3 DEF MailTyped, IsMessage
  <2>5. ASSUME NEW t, InMail(mailbox, t)
        PROVE  InMail(mailbox', t) \/ InBag(bag', t)
    <3>1. PICK i \in DOMAIN mailbox : \E k \in DOMAIN mailbox[i].held :
                 mailbox[i].held[k] # NoStack /\ mailbox[i].held[k].thing = t
      BY <2>5 DEF InMail
    <3>2. PICK k \in DOMAIN mailbox[i].held :
                 mailbox[i].held[k] # NoStack /\ mailbox[i].held[k].thing = t
      BY <3>1
    <3>3. CASE i = at /\ k = source
      BY <2>1, <3>2, <3>3 DEF InBag
    <3>4. CASE ~(i = at /\ k = source)
      <4>1. k \in DOMAIN mailbox'[i].held /\ mailbox'[i].held[k] = mailbox[i].held[k]
        BY <1>2, <2>4, <3>2, <3>4, QueueIs DEF MailTyped, IsMessage
      <4> QED BY <2>3, <3>2, <4>1 DEF InMail
    <3> QED BY <3>3, <3>4
  <2>6. \A i, f : Flagged(mailbox, i, f) => Flagged(mailbox', i, f)
    BY <2>3, <2>4 DEF Flagged
  <2> QED BY <1>1, <1>3, <2>2, <2>5, <2>6, SessionKeepsKept
<1> QED
  <2>1. \/ mailbox' = mailbox /\ bag' = bag
        \/ \E at \in DOMAIN mailbox : \E source \in DOMAIN mailbox[at].held, target \in DOMAIN bag :
              /\ mailbox[at].held[source] # NoStack /\ bag[target] = NoStack
              /\ bag' = [bag EXCEPT ![target] = mailbox[at].held[source]]
              /\ mailbox' = [mailbox EXCEPT ![at].held[source] = NoStack]
    BY <1>2, ClaimMoves
  <2> QED BY <1>4, <1>5, <2>1

LEMMA DeleteKeepsKept ==
  ASSUME KeptInv, MailInv, NEW uuid, DeleteMail(uuid)
  PROVE  KeptInv'
<1> DEFINE stays == DOMAIN mailbox \ Find(mailbox, uuid)
           going == {mailbox[i] : i \in Find(mailbox, uuid)}
<1>1. /\ Find(mailbox, uuid) # {} /\ mail_restored' = mail_restored /\ bag' = bag
      /\ state' = state /\ disk' = disk /\ unwritten' = unwritten /\ offered' = offered
      /\ deleted' = deleted \cup {s.thing : s \in UNION {Stacked(m.held) : m \in going}}
                            \cup {"a message"}
  BY DEF DeleteMail, records
<1>2. MailTyped
  BY DEF MailInv
<1>3. mail_restored
  BY <1>1, <1>2, FoundIsRestored
<1>4. PICK at \in InTheirOrder(stays) : mailbox' = [i \in DOMAIN at |-> mailbox[at[i]]]
  BY DEF DeleteMail
<1>5. stays \subseteq Nat /\ IsFiniteSet(stays)
  <2>1. DOMAIN mailbox = 1 .. Len(mailbox) /\ Len(mailbox) \in Nat
    BY <1>2, QueueIs DEF MailTyped
  <2>2. IsFiniteSet(1 .. Len(mailbox))
    BY <2>1, FS_Interval
  <2>3. IsFiniteSet(stays)
    BY <2>1, <2>2, FS_Subset
  <2> QED BY <2>1, <2>3
<1> HIDE DEF stays
<1>6. \A i \in stays : \E j \in DOMAIN at : at[j] = i
  BY <1>4, <1>5, StaysAreKept
<1>7. ~NothingDeleted' /\ deleted \subseteq deleted'
  BY <1>1 DEF NothingDeleted
<1>8. ASSUME NEW t, InMail(mailbox, t)
      PROVE  InMail(mailbox', t) \/ t \in deleted'
  <2>1. PICK i \in DOMAIN mailbox : \E k \in DOMAIN mailbox[i].held :
               mailbox[i].held[k] # NoStack /\ mailbox[i].held[k].thing = t
    BY <1>8 DEF InMail
  <2>2. PICK k \in DOMAIN mailbox[i].held :
               mailbox[i].held[k] # NoStack /\ mailbox[i].held[k].thing = t
    BY <2>1
  <2>3. CASE i \in Find(mailbox, uuid)
    <3>1. mailbox[i] \in going
      BY <2>3
    <3>2. mailbox[i].held[k] \in Stacked(mailbox[i].held)
      BY <2>2 DEF Stacked, ToSet
    <3> HIDE DEF going
    <3>3. mailbox[i].held[k] \in UNION {Stacked(m.held) : m \in going}
      BY <3>1, <3>2
    <3>4. t \in {s.thing : s \in UNION {Stacked(m.held) : m \in going}}
      BY <2>2, <3>3
    <3> QED BY <1>1, <3>4
  <2>4. CASE i \notin Find(mailbox, uuid)
    <3>1. i \in stays
      BY <2>4 DEF stays
    <3>2. PICK j \in DOMAIN at : at[j] = i
      BY <1>6, <3>1
    <3>3. j \in DOMAIN mailbox' /\ mailbox'[j] = mailbox[i]
      BY <1>4, <3>2
    <3> QED BY <2>2, <3>3 DEF InMail
  <2> QED BY <2>3, <2>4
<1>9. \A t : InBag(bag, t) => InBag(bag', t)
  BY <1>1
<1> QED BY <1>1, <1>3, <1>7, <1>8, <1>9, SessionKeepsKept

LEMMA MailCheckKeepsKept ==
  ASSUME KeptInv, MailCheck
  PROVE  KeptInv'
<1>1. /\ mail_restored' = mail_restored /\ bag' = bag /\ deleted' = deleted /\ mailbox' = mailbox
      /\ state' = state /\ disk' = disk /\ unwritten' = unwritten /\ offered' = offered
  BY DEF MailCheck, session, records
<1> QED BY <1>1 DEF KeptInv, BeforeRestore, BagGrows, StackIsKept, SessionHas, FlagIsKept,
                    SessionFlags, BagAt, MailAt, FlagAt, NothingDeleted

LEMMA JoinEnterKeepKept ==
  ASSUME KeptInv, Join \/ Enter
  PROVE  KeptInv'
<1>1. /\ mail_restored' = mail_restored /\ bag' = bag /\ deleted' = deleted /\ mailbox' = mailbox
      /\ state' = state /\ disk' = disk /\ unwritten' = unwritten /\ offered' = offered
  BY DEF Join, Enter, records
<1> QED BY <1>1 DEF KeptInv, BeforeRestore, BagGrows, StackIsKept, SessionHas, FlagIsKept,
                    SessionFlags, BagAt, MailAt, FlagAt, NothingDeleted

LEMMA LeaveKeepsKept ==
  ASSUME KeptInv, Leave
  PROVE  KeptInv'
<1>1. /\ ~mail_restored' /\ bag' = NothingHeld /\ mailbox' = <<>> /\ deleted' = deleted
      /\ state' = state /\ disk' = disk /\ unwritten' = unwritten /\ offered' = offered
  BY DEF Leave, GoneSession, records
<1>2. /\ \A t : BagGrows(t)' /\ StackIsKept(t)'
      /\ \A i, f : FlagIsKept(i, f)'
  BY <1>1, RecordsStay
<1> QED BY <1>1, <1>2 DEF KeptInv, BeforeRestore, SessionHas, SessionFlags

LEMMA CrashKeepsKept ==
  ASSUME KeptInv, CrashAndRestart
  PROVE  KeptInv'
<1>1. /\ ~mail_restored' /\ bag' = NothingHeld /\ mailbox' = <<>> /\ deleted' = deleted
      /\ state' = disk /\ disk' = disk /\ unwritten' = <<>> /\ offered' = disk.bag
  BY DEF CrashAndRestart, GoneSession
<1>2. DOMAIN <<>> = {}
  OBVIOUS
<1>3. ASSUME NEW t
      PROVE  BagGrows(t)' /\ StackIsKept(t)'
  BY <1>1, <1>2 DEF BagGrows, StackIsKept, BagAt, MailAt
<1>4. ASSUME NEW i, NEW f
      PROVE  FlagIsKept(i, f)'
  BY <1>1, <1>2 DEF FlagIsKept, FlagAt
<1> QED BY <1>1, <1>3, <1>4 DEF KeptInv, BeforeRestore, SessionHas, SessionFlags

LEMMA KeptInitHasInv ==
  ASSUME MailInit
  PROVE  KeptInv
<1>1. DOMAIN <<>> = {} /\ Blank.mail = <<>> /\ Blank.bag = NothingHeld
  BY NothingIsHeld
<1>2. /\ state = Blank /\ disk = Blank /\ unwritten = <<>> /\ ~mail_restored
      /\ offered = NothingHeld
      /\ mailbox = <<>> /\ bag = NothingHeld
  BY DEF MailInit
<1>3. ASSUME NEW t
      PROVE  BagGrows(t) /\ StackIsKept(t)
  BY <1>1, <1>2 DEF BagGrows, StackIsKept, BagAt, MailAt
<1>4. ASSUME NEW i, NEW f
      PROVE  FlagIsKept(i, f)
  BY <1>1, <1>2 DEF FlagIsKept, FlagAt
<1> QED BY <1>2, <1>3, <1>4 DEF KeptInv, BeforeRestore, SessionHas, SessionFlags

(* What a tick adds to the changes underway: the rucksack if it has        *)
(* changed, and last the inbox.                                            *)
LEMMA ChangesFollow ==
  ASSUME NEW q, IsQueue(q), NEW new
  PROVE  LET Q == q \o RecordChanges(new)
             n == Len(q)
         IN  /\ DOMAIN Q = 1 .. Len(Q) /\ Len(Q) \in Nat /\ n \in Nat /\ n <= Len(Q)
             /\ \A k \in 1 .. n : Q[k] = q[k]
             /\ \A k \in 1 .. Len(Q) :
                  \/ k \in 1 .. n
                  \/ k = n + 1 /\ Q[k] = Change("bag", new.bag)
                  \/ k = Len(Q) /\ k > n /\ Q[k] = Change("mail", new.mail)
             /\ \/ new.bag = state.bag
                \/ n + 1 \in 1 .. Len(Q) /\ Q[n + 1] = Change("bag", new.bag)
<1> DEFINE B == Change("bag", new.bag)
           M == Change("mail", new.mail)
           R == RecordChanges(new)
           Q == q \o R
           n == Len(q)
<1>1. \/ R = <<>> /\ new.bag = state.bag
      \/ R = <<B>>
      \/ R = <<M>> /\ new.bag = state.bag
      \/ R = <<B, M>>
  BY ChangesAre
<1>2. IsQueue(R)
  BY ChangesInQueue
<1> HIDE DEF B, M, R
<1>3. /\ Len(<<>>) = 0 /\ Len(<<B>>) = 1 /\ Len(<<M>>) = 1 /\ Len(<<B, M>>) = 2
      /\ <<B>>[1] = B /\ <<M>>[1] = M /\ <<B, M>>[1] = B /\ <<B, M>>[2] = M
  OBVIOUS
<1>4. IsQueue(Q) /\ Len(Q) = n + Len(R) /\ n \in Nat /\ Len(R) \in Nat
  BY <1>2, QueueConcat
<1>5. \A k \in 1 .. n : Q[k] = q[k]
  BY <1>2, QueueConcat
<1>6. \A i \in 1 .. Len(R) : Q[n + i] = R[i]
  BY <1>2, QueueConcat
<1>7. \A k \in 1 .. Len(Q) : k \in 1 .. n \/ \E j \in 1 .. Len(R) : k = n + j
  BY <1>2, QueueConcat
<1>8. DOMAIN Q = 1 .. Len(Q) /\ Len(Q) \in Nat
  BY <1>4, QueueIs
<1> HIDE DEF Q, n
<1>9. ASSUME NEW k \in 1 .. Len(Q)
      PROVE  \/ k \in 1 .. n
             \/ k = n + 1 /\ Q[k] = B
             \/ k = Len(Q) /\ k > n /\ Q[k] = M
  <2>1. CASE k \in 1 .. n
    BY <2>1
  <2>2. CASE k \notin 1 .. n
    <3>1. PICK j \in 1 .. Len(R) : k = n + j
      BY <1>7, <2>2
    <3>2. Q[k] = R[j]
      BY <1>6, <3>1
    <3>3. CASE R = <<>>
      BY <1>3, <3>1, <3>3
    <3>4. CASE R = <<B>>
      <4>1. j = 1
        BY <1>3, <3>1, <3>4
      <4> QED BY <1>3, <3>1, <3>2, <3>4, <4>1
    <3>5. CASE R = <<M>>
      <4>1. j = 1 /\ k = Len(Q) /\ k > n
        BY <1>3, <1>4, <3>1, <3>5
      <4> QED BY <1>3, <3>2, <3>5, <4>1
    <3>6. CASE R = <<B, M>>
      <4>1. j = 1 \/ j = 2
        BY <1>3, <3>1, <3>6
      <4>2. CASE j = 1
        BY <1>3, <3>1, <3>2, <3>6, <4>2
      <4>3. CASE j = 2
        <5>1. k = Len(Q) /\ k > n
          BY <1>3, <1>4, <3>1, <3>6, <4>3
        <5> QED BY <1>3, <3>2, <3>6, <4>3, <5>1
      <4> QED BY <4>1, <4>2, <4>3
    <3> QED BY <1>1, <3>3, <3>4, <3>5, <3>6
  <2> QED BY <2>1, <2>2
<1>10. \/ new.bag = state.bag
       \/ n + 1 \in 1 .. Len(Q) /\ Q[n + 1] = B
  <2>1. CASE R = <<B>> \/ R = <<B, M>>
    <3>1. Len(R) >= 1 /\ R[1] = B
      BY <1>3, <2>1
    <3>2. n + 1 \in 1 .. Len(Q)
      BY <1>4, <3>1
    <3>3. Q[n + 1] = B
      BY <1>4, <1>6, <3>1
    <3> QED BY <3>2, <3>3
  <2> QED BY <1>1, <2>1
<1>11. n <= Len(Q)
  BY <1>4
<1> QED BY <1>4, <1>5, <1>8, <1>9, <1>10, <1>11 DEF Q, R, n, B, M

(* What a tick has restored is all that was recorded.                      *)
LEMMA TickHasAll ==
  ASSUME KeptInv, MailTyped, Tick
  PROVE  /\ \A t : InBag(state.bag, t) => InBag(bag', t)
         /\ \A t : InStored(state.mail, t) => InMail(mailbox', t) \/ InBag(bag', t) \/ t \in deleted
         /\ NothingDeleted =>
              \A i, f : Flagged(state.mail, i, f) => Flagged(mailbox', i, f)
<1>1. bag' = RestoredBag /\ mailbox' = RestoredMail
  BY DEF Tick
<1>2. CASE mail_restored
  <2>1. bag' = bag /\ mailbox' = mailbox
    BY <1>1, <1>2 DEF RestoredBag, RestoredMail
  <2> QED BY <1>2, <2>1 DEF KeptInv, SessionHas, SessionFlags
<1>3. CASE ~mail_restored
  <2>1. mailbox = <<>> /\ bag = NothingHeld
    BY <1>3 DEF KeptInv, BeforeRestore
  <2>2. bag' = Given(state.bag, mint) /\ mailbox' = Unpacked(state.mail, mint + BagSize)
    BY <1>1, <1>3, <2>1, NothingIsHeld DEF RestoredBag, RestoredMail
  <2>3. IsBag(state.bag) /\ IsStored(state.mail)
    BY DEF MailTyped, IsRecord
  <2>4. \A t : InBag(state.bag, t) => InBag(bag', t)
    BY <2>2, <2>3, GivenIs
  <2>5. Restored(state.mail, mailbox')
    BY <2>2, <2>3, UnpackedIs
  <2>6. \A t : InStored(state.mail, t) => InMail(mailbox', t)
    BY <2>5 DEF Restored, InStored, InMail
  <2>7. \A i, f : Flagged(state.mail, i, f) => Flagged(mailbox', i, f)
    BY <2>5 DEF Restored, Flagged
  <2> QED BY <2>4, <2>6, <2>7
<1> QED BY <1>2, <1>3

LEMMA TickKeepsKept ==
  ASSUME KeptInv, MailInv, Tick
  PROVE  KeptInv'
<1> DEFINE n == Len(unwritten)
           N == Len(unwritten')
<1>1. /\ mail_restored' = TRUE /\ disk' = disk /\ deleted' = deleted /\ offered' = offered
      /\ unwritten' = unwritten \o RecordChanges(state')
  BY DEF Tick
<1>2. MailTyped
  BY DEF MailInv
<1>3. /\ IsBag(bag') /\ IsQueue(mailbox') /\ \A i \in DOMAIN mailbox' : IsMessage(mailbox'[i])
      /\ state'.bag = StoredBag(bag') /\ state'.mail = stored_mail(mailbox')
  BY <1>2, TickTypes
<1>4. /\ IsQueue(unwritten) /\ DOMAIN unwritten = 1 .. n
  BY <1>2, QueueIs DEF MailTyped
<1>5. /\ DOMAIN unwritten' = 1 .. N /\ N \in Nat /\ n \in Nat /\ n <= N
      /\ \A k \in 1 .. n : unwritten'[k] = unwritten[k]
  BY <1>1, <1>4, ChangesFollow
<1>6. \A k \in 1 .. N :
        \/ k \in 1 .. n
        \/ k = n + 1 /\ unwritten'[k] = Change("bag", state'.bag)
        \/ k = N /\ k > n /\ unwritten'[k] = Change("mail", state'.mail)
  BY <1>1, <1>4, ChangesFollow
<1>7. \/ state'.bag = state.bag
      \/ n + 1 \in 1 .. N /\ unwritten'[n + 1] = Change("bag", state'.bag)
  BY <1>1, <1>4, ChangesFollow
<1>8. \A v : /\ Change("bag", v).field = "bag" /\ Change("bag", v).value = v
             /\ Change("mail", v).field = "mail" /\ Change("mail", v).value = v
  BY DEF Change
<1>9. /\ \A t : InBag(state.bag, t) => InBag(bag', t)
      /\ \A t : InStored(state.mail, t) => InMail(mailbox', t) \/ InBag(bag', t) \/ t \in deleted
      /\ NothingDeleted => \A i, f : Flagged(state.mail, i, f) => Flagged(mailbox', i, f)
  BY <1>2, TickHasAll
<1>10. \A t : InBag(state'.bag, t) <=> InBag(bag', t)
  BY <1>3, StoredBagIs
<1>11. /\ \A t : InStored(state'.mail, t) <=> t # "gone" /\ InMail(mailbox', t)
       /\ \A i, f : Flagged(state'.mail, i, f) <=> Flagged(mailbox', i, f)
  <2> DEFINE list == mailbox'
             stored == stored_mail(list)
  <2>1. IsQueue(list) /\ \A i \in DOMAIN list : IsMessage(list[i])
    BY <1>3
  <2>2. state'.mail = stored
    BY <1>3
  <2> HIDE DEF list
  <2>3. /\ DOMAIN stored = DOMAIN list
        /\ \A i \in DOMAIN list : stored[i].flags = list[i].flags
        /\ \A t : InStored(stored, t) <=> t # "gone" /\ InMail(list, t)
    BY <2>1, StoredMailIs
  <2> HIDE DEF stored
  <2>4. \A i, f : Flagged(stored, i, f) <=> Flagged(list, i, f)
    BY <2>3 DEF Flagged
  <2> QED BY <2>2, <2>3, <2>4 DEF list
<1> HIDE DEF n, N
<1>11a. PICK last : last = N + 1
  OBVIOUS
<1>12. ASSUME NEW t
       PROVE  BagGrows(t)' /\ StackIsKept(t)'
  <2>1. BagGrows(t) /\ StackIsKept(t)
    BY DEF KeptInv
  <2>2. /\ \A k : BagAt(k, t)' <=> \/ InBag(offered, t)
                                   \/ \E j \in 1 .. N : /\ j < k /\ unwritten'[j].field = "bag"
                                                        /\ InBag(unwritten'[j].value, t)
        /\ \A k : MailAt(k, t)' <=> \/ InStored(disk.mail, t)
                                    \/ \E j \in 1 .. N : /\ j < k /\ unwritten'[j].field = "mail"
                                                         /\ InStored(unwritten'[j].value, t)
    BY <1>1, <1>5 DEF BagAt, MailAt, InBag, InStored
  <2>3. /\ \A k : BagAt(k, t) <=> \/ InBag(offered, t)
                                  \/ \E j \in 1 .. n : /\ j < k /\ unwritten[j].field = "bag"
                                                       /\ InBag(unwritten[j].value, t)
        /\ \A k : MailAt(k, t) <=> \/ InStored(disk.mail, t)
                                   \/ \E j \in 1 .. n : /\ j < k /\ unwritten[j].field = "mail"
                                                        /\ InStored(unwritten[j].value, t)
    BY <1>4 DEF BagAt, MailAt
  <2>4. \A k \in 1 .. n + 1 : (BagAt(k, t)' <=> BagAt(k, t)) /\ (MailAt(k, t)' <=> MailAt(k, t))
    <3> TAKE k \in 1 .. n + 1
    <3>1. \A j \in 1 .. N : j < k => j \in 1 .. n /\ unwritten'[j] = unwritten[j]
      BY <1>5
    <3>2. \A j \in 1 .. n : j \in 1 .. N /\ unwritten'[j] = unwritten[j]
      BY <1>5
    <3>3. BagAt(k, t)' <=> BagAt(k, t)
      BY <2>2, <2>3, <3>1, <3>2
    <3>4. MailAt(k, t)' <=> MailAt(k, t)
      BY <2>2, <2>3, <3>1, <3>2
    <3> QED BY <3>3, <3>4
  <2>5. /\ InBag(state.bag, t) <=> BagAt(n + 1, t)
        /\ MailAt(n + 1, t) => InStored(state.mail, t) \/ InBag(state.bag, t) \/ t \in deleted
    BY <2>1 DEF BagGrows, StackIsKept, n
  <2>6. \A k \in 1 .. N + 1 : k > n =>
          /\ BagAt(k, t)' => InBag(state'.bag, t)
          /\ BagAt(n + 1, t) => BagAt(k, t)'
    <3> SUFFICES ASSUME NEW k \in 1 .. N + 1, k > n
                 PROVE  /\ BagAt(k, t)' => InBag(state'.bag, t)
                        /\ BagAt(n + 1, t) => BagAt(k, t)'
      OBVIOUS
    <3>1. ASSUME BagAt(k, t)'
          PROVE  InBag(state'.bag, t)
      <4>1. \/ InBag(offered, t)
            \/ \E j \in 1 .. N : unwritten'[j].field = "bag" /\ InBag(unwritten'[j].value, t)
        BY <2>2, <3>1
      <4>2. CASE InBag(offered, t)
        <5>1. BagAt(n + 1, t)
          BY <2>3, <4>2
        <5> QED BY <1>9, <1>10, <2>5, <5>1
      <4>3. ASSUME NEW j \in 1 .. N, unwritten'[j].field = "bag", InBag(unwritten'[j].value, t)
            PROVE  InBag(state'.bag, t)
        <5>1. CASE j \in 1 .. n
          <6>1. unwritten'[j] = unwritten[j] /\ j < n + 1
            BY <1>5, <5>1
          <6>2. BagAt(n + 1, t)
            BY <2>3, <4>3, <5>1, <6>1
          <6> QED BY <1>9, <1>10, <2>5, <6>2
        <5>2. CASE j \notin 1 .. n
          <6>1. unwritten'[j] = Change("bag", state'.bag)
            BY <1>6, <1>8, <4>3, <5>2
          <6> QED BY <1>8, <4>3, <6>1
        <5> QED BY <5>1, <5>2
      <4> QED BY <4>1, <4>2, <4>3
    <3>2. ASSUME BagAt(n + 1, t)
          PROVE  BagAt(k, t)'
      <4>1. CASE InBag(offered, t)
        BY <2>2, <4>1
      <4>2. ASSUME NEW j \in 1 .. n, unwritten[j].field = "bag", InBag(unwritten[j].value, t)
            PROVE  BagAt(k, t)'
        <5>1. j \in 1 .. N /\ j < k /\ unwritten'[j] = unwritten[j]
          BY <1>5
        <5> QED BY <2>2, <4>2, <5>1
      <4> QED BY <2>3, <3>2, <4>1, <4>2
    <3> QED BY <3>1, <3>2
  <2>7. BagGrows(t)'
    <3>1. ASSUME NEW k \in 1 .. N, unwritten'[k].field = "bag", BagAt(k, t)'
          PROVE  InBag(unwritten'[k].value, t)
      <4>1. CASE k \in 1 .. n
        <5>1. BagAt(k, t) /\ unwritten'[k] = unwritten[k]
          BY <1>5, <2>4, <3>1, <4>1
        <5> QED BY <1>4, <2>1, <3>1, <4>1, <5>1 DEF BagGrows
      <4>2. CASE k \notin 1 .. n
        <5>1. k > n /\ k \in 1 .. N + 1
          BY <1>5, <4>2
        <5>2. unwritten'[k] = Change("bag", state'.bag)
          BY <1>6, <1>8, <3>1, <4>2
        <5> QED BY <1>8, <2>6, <3>1, <5>1, <5>2
      <4> QED BY <4>1, <4>2
    <3>2. InBag(state'.bag, t) <=> BagAt(last, t)'
      <4>1. last \in 1 .. N + 1 /\ last > n
        BY <1>5, <1>11a
      <4>2. BagAt(last, t)' => InBag(state'.bag, t)
        BY <2>6, <4>1
      <4>3. CASE state'.bag = state.bag
        BY <2>5, <2>6, <4>1, <4>2, <4>3
      <4>4. CASE n + 1 \in 1 .. N /\ unwritten'[n + 1] = Change("bag", state'.bag)
        <5>1. n + 1 < last
          BY <1>5, <1>11a, <4>4
        <5>2. InBag(state'.bag, t) => BagAt(last, t)'
          BY <1>8, <2>2, <4>4, <5>1
        <5> QED BY <4>2, <5>2
      <4> QED BY <1>7, <4>3, <4>4
    <3>3. InBag(disk'.bag, t) => InBag(offered', t)
      BY <1>1, <2>1 DEF BagGrows
    <3> QED BY <1>5, <1>11a, <3>1, <3>2, <3>3 DEF BagGrows, N, InBag
  <2>8. StackIsKept(t)'
    <3>1. ASSUME NEW k \in 1 .. N + 1, k > n, k < N + 1 => unwritten'[k].field = "mail",
                 MailAt(k, t)'
          PROVE  InStored(state'.mail, t) \/ InBag(state'.bag, t) \/ t \in deleted'
      <4>1. \/ InStored(disk.mail, t)
            \/ \E j \in 1 .. N : /\ j < k /\ unwritten'[j].field = "mail"
                                 /\ InStored(unwritten'[j].value, t)
        BY <2>2, <3>1
      <4>2. ASSUME MailAt(n + 1, t)
            PROVE  InStored(state'.mail, t) \/ InBag(state'.bag, t) \/ t \in deleted'
        <5>1. InStored(state.mail, t) => t # "gone"
          BY DEF InStored
        <5> QED BY <1>1, <1>9, <1>10, <1>11, <2>5, <4>2, <5>1
      <4>3. CASE InStored(disk.mail, t)
        BY <2>3, <4>2, <4>3
      <4>4. ASSUME NEW j \in 1 .. N, unwritten'[j].field = "mail", InStored(unwritten'[j].value, t)
            PROVE  InStored(state'.mail, t) \/ InBag(state'.bag, t) \/ t \in deleted'
        <5>1. CASE j \in 1 .. n
          <6>1. unwritten'[j] = unwritten[j] /\ j < n + 1
            BY <1>5, <5>1
          <6>2. MailAt(n + 1, t)
            BY <2>3, <4>4, <5>1, <6>1
          <6> QED BY <4>2, <6>2
        <5>2. CASE j \notin 1 .. n
          <6>1. unwritten'[j] = Change("mail", state'.mail)
            BY <1>6, <1>8, <4>4, <5>2
          <6> QED BY <1>8, <4>4, <6>1
        <5> QED BY <5>1, <5>2
      <4> QED BY <4>1, <4>3, <4>4
    <3>2. ASSUME NEW k \in 1 .. N, unwritten'[k].field = "mail", MailAt(k, t)'
          PROVE  InStored(unwritten'[k].value, t) \/ BagAt(k, t)' \/ t \in deleted'
      <4>1. CASE k \in 1 .. n
        <5>1. MailAt(k, t) /\ unwritten'[k] = unwritten[k] /\ (BagAt(k, t)' <=> BagAt(k, t))
          BY <1>5, <2>4, <3>2, <4>1
        <5> QED BY <1>1, <1>4, <2>1, <3>2, <4>1, <5>1 DEF StackIsKept
      <4>2. CASE k \notin 1 .. n
        <5>1. k > n /\ k \in 1 .. N + 1
          BY <1>5, <4>2
        <5>2. unwritten'[k] = Change("mail", state'.mail)
          BY <1>6, <1>8, <3>2, <4>2
        <5>3. InStored(state'.mail, t) \/ InBag(state'.bag, t) \/ t \in deleted'
          BY <3>1, <3>2, <5>1
        <5>4. InBag(state'.bag, t) => BagAt(k, t)'
          <6>1. CASE state'.bag = state.bag
            BY <2>5, <2>6, <5>1, <6>1
          <6>2. CASE n + 1 \in 1 .. N /\ unwritten'[n + 1] = Change("bag", state'.bag)
            <7>1. k # n + 1
              BY <1>8, <5>2, <6>2
            <7>2. n + 1 < k
              BY <1>5, <5>1, <7>1
            <7> QED BY <1>8, <2>2, <6>2, <7>2
          <6> QED BY <1>7, <6>1, <6>2
        <5> QED BY <1>8, <5>2, <5>3, <5>4
      <4> QED BY <4>1, <4>2
    <3>3. MailAt(last, t)' => InStored(state'.mail, t) \/ InBag(state'.bag, t) \/ t \in deleted'
      <4>1. last \in 1 .. N + 1 /\ last > n /\ ~(last < N + 1)
        BY <1>5, <1>11a
      <4> QED BY <3>1, <4>1
    <3> QED BY <1>5, <1>11a, <3>2, <3>3 DEF StackIsKept, N, InBag, InStored
  <2> QED BY <2>7, <2>8
<1>13. ASSUME NEW i, NEW f
       PROVE  FlagIsKept(i, f)'
  <2> SUFFICES ASSUME NothingDeleted
               PROVE  /\ \A k \in 1 .. N :
                           unwritten'[k].field = "mail" /\ FlagAt(k, i, f)' =>
                             Flagged(unwritten'[k].value, i, f)
                      /\ FlagAt(last, i, f)' => Flagged(state'.mail, i, f)
    BY <1>1, <1>5, <1>11a DEF FlagIsKept, NothingDeleted, N, Flagged
  <2>1. /\ \A k \in 1 .. n :
             unwritten[k].field = "mail" /\ FlagAt(k, i, f) => Flagged(unwritten[k].value, i, f)
        /\ FlagAt(n + 1, i, f) => Flagged(state.mail, i, f)
    BY <1>4 DEF KeptInv, FlagIsKept, n
  <2>2. \A k : FlagAt(k, i, f)' <=> \/ Flagged(disk.mail, i, f)
                                    \/ \E j \in 1 .. N : /\ j < k /\ unwritten'[j].field = "mail"
                                                         /\ Flagged(unwritten'[j].value, i, f)
    BY <1>1, <1>5 DEF FlagAt, Flagged
  <2>3. \A k : FlagAt(k, i, f) <=> \/ Flagged(disk.mail, i, f)
                                   \/ \E j \in 1 .. n : /\ j < k /\ unwritten[j].field = "mail"
                                                        /\ Flagged(unwritten[j].value, i, f)
    BY <1>4 DEF FlagAt
  <2>4. \A k \in 1 .. n + 1 : FlagAt(k, i, f)' <=> FlagAt(k, i, f)
    <3> TAKE k \in 1 .. n + 1
    <3>1. \A j \in 1 .. N : j < k => j \in 1 .. n /\ unwritten'[j] = unwritten[j]
      BY <1>5
    <3>2. \A j \in 1 .. n : j \in 1 .. N /\ unwritten'[j] = unwritten[j]
      BY <1>5
    <3> QED BY <2>2, <2>3, <3>1, <3>2
  <2>5. \A k : FlagAt(k, i, f)' => Flagged(state'.mail, i, f)
    <3> SUFFICES ASSUME NEW k, FlagAt(k, i, f)'
                 PROVE  Flagged(state'.mail, i, f)
      OBVIOUS
    <3>1. FlagAt(n + 1, i, f) => Flagged(state'.mail, i, f)
      BY <1>9, <1>11, <2>1
    <3>2. CASE Flagged(disk.mail, i, f)
      BY <2>3, <3>1, <3>2
    <3>3. ASSUME NEW j \in 1 .. N, unwritten'[j].field = "mail", Flagged(unwritten'[j].value, i, f)
          PROVE  Flagged(state'.mail, i, f)
      <4>1. CASE j \in 1 .. n
        <5>1. unwritten'[j] = unwritten[j] /\ j < n + 1
          BY <1>5, <4>1
        <5>2. FlagAt(n + 1, i, f)
          BY <2>3, <3>3, <4>1, <5>1
        <5> QED BY <3>1, <5>2
      <4>2. CASE j \notin 1 .. n
        <5>1. unwritten'[j] = Change("mail", state'.mail)
          BY <1>6, <1>8, <3>3, <4>2
        <5> QED BY <1>8, <3>3, <5>1
      <4> QED BY <4>1, <4>2
    <3> QED BY <2>2, <3>2, <3>3
  <2>6. ASSUME NEW k \in 1 .. N, unwritten'[k].field = "mail", FlagAt(k, i, f)'
        PROVE  Flagged(unwritten'[k].value, i, f)
    <3>1. CASE k \in 1 .. n
      <4>1. FlagAt(k, i, f) /\ unwritten'[k] = unwritten[k]
        BY <1>5, <2>4, <2>6, <3>1
      <4> QED BY <2>1, <2>6, <3>1, <4>1
    <3>2. CASE k \notin 1 .. n
      <4>1. unwritten'[k] = Change("mail", state'.mail)
        BY <1>6, <1>8, <2>6, <3>2
      <4> QED BY <1>8, <2>5, <2>6, <4>1
    <3> QED BY <3>1, <3>2
  <2> QED BY <2>5, <2>6
<1>14. ASSUME NEW t
       PROVE  SessionHas(t)'
  <2>1. /\ InBag(state'.bag, t) => InBag(bag', t)
        /\ InStored(state'.mail, t) => InMail(mailbox', t)
    BY <1>10, <1>11
  <2> QED BY <2>1 DEF SessionHas, InBag, InStored, InMail
<1>15. ASSUME NEW i, NEW f
       PROVE  SessionFlags(i, f)'
  BY <1>11 DEF SessionFlags, Flagged
<1>16. BeforeRestore'
  BY <1>1 DEF BeforeRestore
<1> QED BY <1>12, <1>13, <1>14, <1>15, <1>16 DEF KeptInv

LEMMA WriteKeepsKept ==
  ASSUME KeptInv, MailInv, WriteOne
  PROVE  KeptInv'
<1> DEFINE c == unwritten[1]
           n == Len(unwritten')
<1>1. /\ state' = state /\ deleted' = deleted /\ bag' = bag /\ mailbox' = mailbox
      /\ mail_restored' = mail_restored
      /\ IsChange(c) /\ 1 \in DOMAIN unwritten
      /\ offered' = (IF c.field = "bag" THEN c.value ELSE offered)
      /\ disk'.bag = disk.bag \/ (c.field = "bag" /\ disk'.bag = c.value)
      /\ disk'.mail = disk.mail \/ (c.field = "mail" /\ disk'.mail = c.value)
      /\ n \in Nat /\ Len(unwritten) = n + 1
      /\ DOMAIN unwritten = 1 .. Len(unwritten) /\ DOMAIN unwritten' = 1 .. n
      /\ \A k \in DOMAIN unwritten' : k + 1 \in DOMAIN unwritten /\ unwritten'[k] = unwritten[k + 1]
  BY WriteMovesUp DEF MailInv
<1> HIDE DEF n
<1>2. PICK last : last = n + 1
  OBVIOUS
<1>3. ASSUME NEW t
      PROVE  BagGrows(t)' /\ StackIsKept(t)'
  <2>1. BagGrows(t) /\ StackIsKept(t)
    BY DEF KeptInv
  <2>2. /\ \A k : BagAt(k, t)' <=> \/ InBag(offered', t)
                                   \/ \E j \in 1 .. n : /\ j < k /\ unwritten'[j].field = "bag"
                                                        /\ InBag(unwritten'[j].value, t)
        /\ \A k : MailAt(k, t)' <=> \/ InStored(disk'.mail, t)
                                    \/ \E j \in 1 .. n : /\ j < k /\ unwritten'[j].field = "mail"
                                                         /\ InStored(unwritten'[j].value, t)
    BY <1>1 DEF BagAt, MailAt, InBag, InStored
  <2>3. ASSUME NEW k \in 1 .. last
        PROVE  BagAt(k, t)' <=> BagAt(k + 1, t)
    <3>1. ASSUME BagAt(k, t)'
          PROVE  BagAt(k + 1, t)
      <4>1. CASE InBag(offered', t)
        <5>1. CASE c.field = "bag"
          <6>1. InBag(c.value, t) /\ 1 < k + 1
            BY <1>1, <1>2, <4>1, <5>1
          <6> QED BY <1>1, <5>1, <6>1 DEF BagAt
        <5>2. CASE c.field # "bag"
          BY <1>1, <4>1, <5>2 DEF BagAt
        <5> QED BY <5>1, <5>2
      <4>2. ASSUME NEW j \in 1 .. n, j < k, unwritten'[j].field = "bag", InBag(unwritten'[j].value, t)
            PROVE  BagAt(k + 1, t)
        <5>1. j + 1 \in DOMAIN unwritten /\ unwritten'[j] = unwritten[j + 1] /\ j + 1 < k + 1
          BY <1>1, <1>2, <4>2
        <5> QED BY <4>2, <5>1 DEF BagAt
      <4> QED BY <2>2, <3>1, <4>1, <4>2
    <3>2. ASSUME BagAt(k + 1, t)
          PROVE  BagAt(k, t)'
      <4>1. ASSUME InBag(offered, t)
            PROVE  BagAt(k, t)'
        <5>1. BagAt(1, t)
          BY <4>1 DEF BagAt
        <5>2. InBag(offered', t)
          BY <1>1, <2>1, <4>1, <5>1 DEF BagGrows
        <5> QED BY <2>2, <5>2
      <4>2. ASSUME NEW j \in DOMAIN unwritten, j < k + 1, unwritten[j].field = "bag",
                   InBag(unwritten[j].value, t)
            PROVE  BagAt(k, t)'
        <5>1. CASE j = 1
          <6>1. InBag(offered', t)
            BY <1>1, <4>2, <5>1
          <6> QED BY <2>2, <6>1
        <5>2. CASE j # 1
          <6>1. j - 1 \in 1 .. n /\ j - 1 < k /\ (j - 1) + 1 = j
            BY <1>1, <1>2, <4>2, <5>2
          <6>2. unwritten'[j - 1] = unwritten[j]
            BY <1>1, <6>1
          <6> QED BY <2>2, <4>2, <6>1, <6>2
        <5> QED BY <5>1, <5>2
      <4> QED BY <3>2, <4>1, <4>2 DEF BagAt
    <3> QED BY <3>1, <3>2
  <2>4. ASSUME NEW k \in 1 .. last, MailAt(k, t)'
        PROVE  MailAt(k + 1, t)
    <3>1. CASE InStored(disk'.mail, t)
      <4>1. CASE c.field = "mail" /\ disk'.mail = c.value
        <5>1. InStored(c.value, t) /\ 1 < k + 1
          BY <1>1, <1>2, <3>1, <4>1
        <5> QED BY <1>1, <4>1, <5>1 DEF MailAt
      <4>2. CASE disk'.mail = disk.mail
        BY <3>1, <4>2 DEF MailAt
      <4> QED BY <1>1, <4>1, <4>2
    <3>2. ASSUME NEW j \in 1 .. n, j < k, unwritten'[j].field = "mail", InStored(unwritten'[j].value, t)
          PROVE  MailAt(k + 1, t)
      <4>1. j + 1 \in DOMAIN unwritten /\ unwritten'[j] = unwritten[j + 1] /\ j + 1 < k + 1
        BY <1>1, <1>2, <3>2
      <4> QED BY <3>2, <4>1 DEF MailAt
    <3> QED BY <2>2, <2>4, <3>1, <3>2
  <2>5. last \in 1 .. last /\ last + 1 = Len(unwritten) + 1 /\ 1 .. n \subseteq 1 .. last
    BY <1>1, <1>2
  <2>6. BagGrows(t)'
    <3>1. ASSUME NEW k \in 1 .. n, unwritten'[k].field = "bag", BagAt(k, t)'
          PROVE  InBag(unwritten'[k].value, t)
      <4>1. BagAt(k + 1, t)
        BY <2>3, <2>5, <3>1
      <4> QED BY <1>1, <2>1, <3>1, <4>1 DEF BagGrows
    <3>2. InBag(state'.bag, t) <=> BagAt(last, t)'
      BY <1>1, <2>1, <2>3, <2>5 DEF BagGrows
    <3>3. InBag(disk'.bag, t) => InBag(offered', t)
      <4>1. CASE InBag(disk.bag, t)
        <5>1. InBag(offered, t) /\ BagAt(1, t)
          BY <2>1, <4>1 DEF BagGrows, BagAt
        <5> QED BY <1>1, <2>1, <5>1 DEF BagGrows
      <4>2. CASE c.field = "bag" /\ disk'.bag = c.value
        BY <1>1, <4>2
      <4> QED BY <1>1, <4>1, <4>2
    <3> QED BY <1>1, <1>2, <3>1, <3>2, <3>3 DEF BagGrows, n, InBag
  <2>7. StackIsKept(t)'
    <3>1. ASSUME NEW k \in 1 .. n, unwritten'[k].field = "mail", MailAt(k, t)'
          PROVE  InStored(unwritten'[k].value, t) \/ BagAt(k, t)' \/ t \in deleted'
      <4>1. MailAt(k + 1, t) /\ (BagAt(k, t)' <=> BagAt(k + 1, t))
        BY <2>3, <2>4, <2>5, <3>1
      <4> QED BY <1>1, <2>1, <3>1, <4>1 DEF StackIsKept
    <3>2. MailAt(last, t)' => InStored(state'.mail, t) \/ InBag(state'.bag, t) \/ t \in deleted'
      BY <1>1, <2>1, <2>4, <2>5 DEF StackIsKept
    <3> QED BY <1>1, <1>2, <3>1, <3>2 DEF StackIsKept, n, InBag, InStored
  <2> QED BY <2>6, <2>7
<1>4. ASSUME NEW i, NEW f
      PROVE  FlagIsKept(i, f)'
  <2> SUFFICES ASSUME NothingDeleted
               PROVE  /\ \A k \in 1 .. n :
                           unwritten'[k].field = "mail" /\ FlagAt(k, i, f)' =>
                             Flagged(unwritten'[k].value, i, f)
                      /\ FlagAt(last, i, f)' => Flagged(state'.mail, i, f)
    BY <1>1, <1>2 DEF FlagIsKept, NothingDeleted, n, Flagged
  <2>1. FlagIsKept(i, f)
    BY DEF KeptInv
  <2>2. \A k : FlagAt(k, i, f)' <=> \/ Flagged(disk'.mail, i, f)
                                    \/ \E j \in 1 .. n : /\ j < k /\ unwritten'[j].field = "mail"
                                                         /\ Flagged(unwritten'[j].value, i, f)
    BY <1>1 DEF FlagAt, Flagged
  <2>3. ASSUME NEW k \in 1 .. last, FlagAt(k, i, f)'
        PROVE  FlagAt(k + 1, i, f)
    <3>1. CASE Flagged(disk'.mail, i, f)
      <4>1. CASE c.field = "mail" /\ disk'.mail = c.value
        <5>1. Flagged(c.value, i, f) /\ 1 < k + 1
          BY <1>1, <1>2, <3>1, <4>1
        <5> QED BY <1>1, <4>1, <5>1 DEF FlagAt
      <4>2. CASE disk'.mail = disk.mail
        BY <3>1, <4>2 DEF FlagAt
      <4> QED BY <1>1, <4>1, <4>2
    <3>2. ASSUME NEW j \in 1 .. n, j < k, unwritten'[j].field = "mail", Flagged(unwritten'[j].value, i, f)
          PROVE  FlagAt(k + 1, i, f)
      <4>1. j + 1 \in DOMAIN unwritten /\ unwritten'[j] = unwritten[j + 1] /\ j + 1 < k + 1
        BY <1>1, <1>2, <3>2
      <4> QED BY <3>2, <4>1 DEF FlagAt
    <3> QED BY <2>2, <2>3, <3>1, <3>2
  <2>4. last \in 1 .. last /\ last + 1 = Len(unwritten) + 1 /\ 1 .. n \subseteq 1 .. last
    BY <1>1, <1>2
  <2>5. ASSUME NEW k \in 1 .. n, unwritten'[k].field = "mail", FlagAt(k, i, f)'
        PROVE  Flagged(unwritten'[k].value, i, f)
    <3>1. FlagAt(k + 1, i, f)
      BY <2>3, <2>4, <2>5
    <3> QED BY <1>1, <2>1, <2>5, <3>1 DEF FlagIsKept
  <2>6. FlagAt(last, i, f)' => Flagged(state'.mail, i, f)
    BY <1>1, <2>1, <2>3, <2>4 DEF FlagIsKept
  <2> QED BY <2>5, <2>6
<1>5. ASSUME NEW t
      PROVE  SessionHas(t)'
  <2>1. SessionHas(t)
    BY DEF KeptInv
  <2> QED BY <1>1, <2>1 DEF SessionHas, InBag, InStored, InMail
<1>6. ASSUME NEW i, NEW f
      PROVE  SessionFlags(i, f)'
  <2>1. SessionFlags(i, f)
    BY DEF KeptInv
  <2> QED BY <1>1, <2>1 DEF SessionFlags, NothingDeleted, Flagged
<1>7. BeforeRestore'
  BY <1>1 DEF KeptInv, BeforeRestore
<1> QED BY <1>3, <1>4, <1>5, <1>6, <1>7 DEF KeptInv

LEMMA KeptStepKeepsInv ==
  ASSUME KeptInv, MailInv, ~Hasty, [MailNext]_mail_vars
  PROVE  KeptInv'
<1>0. Compose(<<>>) => KeptInv'
  BY ComposeKeepsKept, ShortQueues
<1>1. ASSUME NEW t, Compose(<<t>>)
      PROVE  KeptInv'
  BY <1>1, ComposeKeepsKept, ShortQueues
<1>2. ASSUME NEW s, NEW t, Compose(<<s, t>>)
      PROVE  KeptInv'
  BY <1>2, ComposeKeepsKept, ShortQueues
<1>3. ASSUME NEW uuid, NEW flag, Flag(uuid, flag)
      PROVE  KeptInv'
  BY <1>3, FlagKeepsKept
<1>4. ASSUME NEW uuid, NEW item_uuid, claim_attachment(uuid, item_uuid)
      PROVE  KeptInv'
  BY <1>4, ClaimKeepsKept
<1>5. ASSUME NEW uuid, DeleteMail(uuid)
      PROVE  KeptInv'
  BY <1>5, DeleteKeepsKept
<1>6. CASE UNCHANGED mail_vars
  BY <1>6 DEF mail_vars, KeptInv, BeforeRestore, BagGrows, StackIsKept, SessionHas, FlagIsKept,
              SessionFlags, BagAt, MailAt, FlagAt, NothingDeleted
<1> QED
  BY <1>0, <1>1, <1>2, <1>3, <1>4, <1>5, <1>6, MailCheckKeepsKept, TickKeepsKept, JoinEnterKeepKept,
     LeaveKeepsKept, WriteKeepsKept, CrashKeepsKept DEF MailNext

(* In a process whose messages wait for the restore what has been recorded *)
(* is in every later rucksack, or in every later inbox until a rucksack    *)
(* written before that inbox has it: whatever the database has refused of  *)
(* either.                                                                 *)
THEOREM RecordedMailStays ==
  ASSUME ~Hasty
  PROVE  MailSpec => [](MailInv /\ KeptInv)
<1>1. MailInit => MailInv /\ KeptInv
  BY MailInitHasInv, KeptInitHasInv
<1>2. (MailInv /\ KeptInv) /\ [MailNext]_mail_vars => (MailInv /\ KeptInv)'
  BY MailStepKeepsInv, KeptStepKeepsInv
<1> QED BY <1>1, <1>2, PTL DEF MailSpec

(* What the database has.                                                  *)
LEMMA DatabaseIs ==
  ASSUME MailTyped
  PROVE  \A t : t \in InDatabase <=> InBag(disk.bag, t) \/ InStored(disk.mail, t)
<1> TAKE t
<1>1. t \in ThingsIn(disk.bag) <=> InBag(disk.bag, t)
  BY DEF ThingsIn, Stacked, ToSet, InBag
<1>2. t \in (UNION {ToSet(m.held) : m \in ToSet(disk.mail)}) \ {"gone"} <=> InStored(disk.mail, t)
  BY DEF ToSet, InStored
<1> QED BY <1>1, <1>2 DEF InDatabase

(* An attachment that has once been written down is in the database until  *)
(* it is deleted with its message or has been claimed into a rucksack the  *)
(* database refused, and a message keeps its flags there; whatever is      *)
(* claimed, whenever the process crashes, whichever other write is refused *)
(* and however far the writer is behind.                                   *)
THEOREM StoredMailStays ==
  ASSUME ~Hasty
  PROVE  MailSpec => StoredMailIsKept
<1> DEFINE Kept ==
      /\ InDatabase \ InDatabase'
           \subseteq deleted \cup (ThingsIn(offered') \ ThingsIn(disk'.bag))
      /\ \A m \in ToSet(disk.mail), n \in ToSet(disk'.mail) :
           m.uuid = n.uuid /\ "a message" \notin deleted => m.flags \subseteq n.flags
<1>1. ASSUME MailInv, MailInv', KeptInv, [MailNext]_mail_vars
      PROVE  Kept
  <2>1. \A t : t \in InDatabase <=> InBag(disk.bag, t) \/ InStored(disk.mail, t)
    BY <1>1, DatabaseIs DEF MailInv
  <2>2. \A t : t \in InDatabase' <=> InBag(disk'.bag, t) \/ InStored(disk'.mail, t)
    <3>1. MailTyped'
      BY <1>1 DEF MailInv
    <3>2. \A t : t \in ThingsIn(disk'.bag) <=> InBag(disk'.bag, t)
      BY DEF ThingsIn, Stacked, ToSet, InBag
    <3>3. \A t : t \in (UNION {ToSet(m.held) : m \in ToSet(disk'.mail)}) \ {"gone"}
                   <=> InStored(disk'.mail, t)
      BY DEF ToSet, InStored
    <3>4. InDatabase' = ThingsIn(disk'.bag)
                          \cup ((UNION {ToSet(m.held) : m \in ToSet(disk'.mail)}) \ {"gone"})
      BY DEF InDatabase, ThingsIn, Stacked, ToSet
    <3> QED BY <3>2, <3>3, <3>4
  <2>3. IsQueue(disk.mail) /\ IsQueue(disk'.mail)
    BY <1>1 DEF MailInv, MailTyped, IsRecord, IsStored
  <2>4. NothingDeleted => Numbered(disk.mail)
    BY <1>1 DEF MailInv, AllNumbered
  <2>5. ASSUME NothingDeleted, Numbered(disk'.mail),
               \A i, f : Flagged(disk.mail, i, f) => Flagged(disk'.mail, i, f)
        PROVE  \A m \in ToSet(disk.mail), n \in ToSet(disk'.mail) :
                 m.uuid = n.uuid => m.flags \subseteq n.flags
    <3> SUFFICES ASSUME NEW i \in DOMAIN disk.mail, NEW j \in DOMAIN disk'.mail,
                        disk.mail[i].uuid = disk'.mail[j].uuid
                 PROVE  disk.mail[i].flags \subseteq disk'.mail[j].flags
      BY DEF ToSet
    <3>1. i \in Nat /\ j \in Nat
      BY <2>3, QueueIs
    <3>2. disk.mail[i].uuid[2] = i - 1 /\ disk'.mail[j].uuid[2] = j - 1
      BY <2>4, <2>5 DEF Numbered
    <3>3. i = j
      BY <3>1, <3>2
    <3> QED BY <2>5, <3>3 DEF Flagged
  <2>6. CASE disk' = disk
    <3>1. InDatabase \ InDatabase' = {}
      BY <2>1, <2>2, <2>6
    <3>2. NothingDeleted =>
            \A m \in ToSet(disk.mail), n \in ToSet(disk'.mail) :
              m.uuid = n.uuid => m.flags \subseteq n.flags
      BY <2>4, <2>5, <2>6
    <3> QED BY <3>1, <3>2 DEF NothingDeleted
  <2>7. CASE WriteOne
    <3> DEFINE c == unwritten[1]
    <3>1. /\ IsChange(c) /\ 1 \in DOMAIN unwritten
          /\ offered' = (IF c.field = "bag" THEN c.value ELSE offered)
          /\ disk'.bag = disk.bag \/ (c.field = "bag" /\ disk'.bag = c.value)
          /\ disk'.mail = disk.mail \/ (c.field = "mail" /\ disk'.mail = c.value)
      BY <1>1, <2>7, WriteMovesUp DEF MailInv
    <3>2. DOMAIN unwritten = 1 .. Len(unwritten) /\ Len(unwritten) \in Nat
      BY <1>1, QueueIs DEF MailInv, MailTyped
    <3>3. ASSUME NEW t, t \in InDatabase, t \notin InDatabase'
          PROVE  t \in deleted \cup (ThingsIn(offered') \ ThingsIn(disk'.bag))
      <4>1. BagGrows(t) /\ StackIsKept(t)
        BY <1>1 DEF KeptInv
      <4>2. ~InBag(disk'.bag, t) /\ ~InStored(disk'.mail, t)
        BY <2>2, <3>3
      <4>3. BagAt(1, t) <=> InBag(offered, t)
        BY <3>2 DEF BagAt
      <4>4. ~InBag(disk.bag, t)
        <5>1. ASSUME InBag(disk.bag, t), c.field = "bag", disk'.bag = c.value
              PROVE  FALSE
          BY <3>1, <4>1, <4>2, <4>3, <5>1 DEF BagGrows
        <5> QED BY <3>1, <4>2, <5>1
      <4>5. InStored(disk.mail, t) /\ c.field = "mail" /\ disk'.mail = c.value
        BY <2>1, <3>1, <3>3, <4>2, <4>4
      <4>6. MailAt(1, t) /\ ~InStored(c.value, t)
        BY <4>2, <4>5 DEF MailAt
      <4>7. InBag(offered, t) \/ t \in deleted
        BY <3>1, <4>1, <4>3, <4>5, <4>6 DEF StackIsKept
      <4>8. offered' = offered
        BY <3>1, <4>5
      <4>9. /\ t \in ThingsIn(offered') <=> InBag(offered', t)
            /\ t \in ThingsIn(disk'.bag) <=> InBag(disk'.bag, t)
        BY DEF ThingsIn, Stacked, ToSet, InBag
      <4> QED BY <4>2, <4>7, <4>8, <4>9
    <3>4. ASSUME NothingDeleted
          PROVE  \A m \in ToSet(disk.mail), n \in ToSet(disk'.mail) :
                   m.uuid = n.uuid => m.flags \subseteq n.flags
      <4>1. Numbered(disk'.mail)
        BY <1>1, <3>1, <3>4, <2>4 DEF MailInv, AllNumbered
      <4>2. ASSUME NEW i, NEW f, Flagged(disk.mail, i, f)
            PROVE  Flagged(disk'.mail, i, f)
        <5>1. FlagIsKept(i, f)
          BY <1>1 DEF KeptInv
        <5>2. FlagAt(1, i, f)
          BY <4>2 DEF FlagAt
        <5> QED BY <3>1, <3>4, <4>2, <5>1, <5>2 DEF FlagIsKept
      <4> QED BY <2>5, <3>4, <4>1, <4>2
    <3> QED BY <3>3, <3>4 DEF NothingDeleted
  <2>8. disk' = disk \/ WriteOne
    BY <1>1 DEF MailNext, mail_vars, Compose, MailCheck, Flag, claim_attachment, DeleteMail,
                Tick, Join, Enter, Leave, CrashAndRestart, records
  <2> QED BY <2>6, <2>7, <2>8
<1>2. ASSUME MailInv, MailInv', KeptInv, [MailNext]_mail_vars
      PROVE  [Kept]_mail_vars
  BY <1>1, <1>2
<1> HIDE DEF Kept
<1>3. MailSpec => []MailInv
  BY MailInvHolds
<1>4. MailSpec => [](MailInv /\ KeptInv)
  BY RecordedMailStays
<1>5. MailSpec => [][Kept]_mail_vars
  BY <1>2, <1>3, <1>4, PTL DEF MailSpec
<1> QED BY <1>5 DEF Kept, StoredMailIsKept
=============================================================================
