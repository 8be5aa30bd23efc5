---------------------------- MODULE WorldProofs ----------------------------
(***************************************************************************)
(* Theorems about what players share, for every number of connections,     *)
(* worlds, creatures and things, and of players, blocks and devices.       *)
(*                                                                         *)
(* SharedWorld: what a client holds changes in three ways only: it         *)
(* arrives, it leaves, or somebody's packet is handled.  The last is       *)
(* covered once, for every packet, by what `Handled' does to players and   *)
(* to things; an action then has to show only that what it sends is what   *)
(* it changed.                                                             *)
(*                                                                         *)
(* Island: a queue of changes says of each slot, a place and what may      *)
(* stand there, what the last change says (`Latest').  That is what every  *)
(* fold over such a queue comes to, and what the invariant is about.       *)
(***************************************************************************)
EXTENDS SharedWorld, Island, Facts

(* Who is not connected holds nothing. *)
Absent == \A g \in Guids \ Live : known[g] = {} /\ queue[g] = {}

(* What somebody may have to be told of in a world, and what may be taken  *)
(* from it again.                                                          *)
Lasting(w) == devices[w] \cup drops[w] \cup ({title[w]} \ {None}) \cup (Seeded \ dead[w])

(* A thing is one thing: a device, a creature, a drop or a title.          *)
OneThing ==
  \A w \in Worlds :
    /\ devices[w] \cup spawned[w] \cup drops[w] \cup ({title[w]} \ {None}) \subseteq made
    /\ devices[w] \cap (spawned[w] \cup drops[w] \cup {title[w]}) = {}
    /\ spawned[w] \cap (drops[w] \cup {title[w]}) = {}
    /\ title[w] \notin drops[w]
    /\ dead[w] \subseteq Seeded \cup spawned[w]

IInv == TypeOK /\ Absent /\ OneThing /\ PlayersSeeEachOther /\ WorldIsSeen

(* Bodies, creatures and things are told apart by their ids. *)
LEMMA Apart ==
  /\ Guids \cap Creatures = {} /\ Seeded \cap Things = {}
  /\ None \notin Things /\ Home \in Worlds
BY SharedWorldAssumption DEF Creatures, Worlds

-----------------------------------------------------------------------------
(* What the handling of a packet may send: bodies of those who are there,  *)
(* and only to the player who asked; everyone else gets things, and nobody *)
(* loses a body.                                                           *)
Proper(g, mine, lost, theirs, gone) ==
  /\ mine \subseteq Guids \cup Creatures /\ mine \cap Guids \subseteq {g} \cup Neighbours(g)
  /\ theirs \subseteq Creatures
  /\ lost \subseteq Creatures /\ gone \subseteq Creatures

(* After a packet the clients and the queues are still what they can be.   *)
LEMMA HandledTypes ==
  ASSUME TypeOK, NEW g \in Live,
         NEW mine, NEW lost, NEW theirs, NEW gone,
         Proper(g, mine, lost, theirs, gone), Handled(g, mine, lost, theirs, gone)
  PROVE  /\ known' \in [Guids -> SUBSET (Guids \cup Creatures)]
         /\ queue' \in [Guids -> SUBSET Things]
BY DEF TypeOK, Proper, Handled, Live, Creatures

(* A packet moves nobody's body: everyone goes on seeing everyone.         *)
LEMMA HandledPlayers ==
  ASSUME TypeOK, PlayersSeeEachOther, Absent, NEW g \in Live,
         NEW mine, NEW lost, NEW theirs, NEW gone,
         Proper(g, mine, lost, theirs, gone), Handled(g, mine, lost, theirs, gone),
         Live' = Live, place' = place,
         stage'[g] \in Arrived => stage[g] \in Arrived \/ {g} \cup Neighbours(g) \subseteq mine,
         \A h \in Live \ {g} : stage'[h] = stage[h]
  PROVE  PlayersSeeEachOther' /\ Absent'
<1>1. \A h \in Live : Neighbours(h)' = Neighbours(h)
  BY DEF Neighbours
<1>2. Live \subseteq Guids /\ Neighbours(g) \subseteq Guids \ {g} /\ Guids \cap Creatures = {}
  BY Apart DEF Live, Neighbours
<1>3. ASSUME NEW h \in Live
      PROVE  /\ known'[h] \cap Guids \subseteq {h} \cup Neighbours(h)
             /\ stage'[h] \in Arrived => {h} \cup Neighbours(h) \subseteq known'[h]
  <2>1. /\ known[h] \cap Guids \subseteq {h} \cup Neighbours(h)
        /\ stage[h] \in Arrived => {h} \cup Neighbours(h) \subseteq known[h]
    BY DEF PlayersSeeEachOther
  <2>2. Neighbours(h) \subseteq Guids /\ h \in Guids
    BY DEF Neighbours, Live
  <2>3. CASE h = g
    <3>1. known'[g] = (known[g] \cup mine) \ lost
      BY <1>2 DEF Handled
    <3> QED BY <1>2, <2>1, <2>2, <2>3, <3>1 DEF Proper
  <2>4. CASE h \in Neighbours(g)
    <3>1. known'[h] = (known[h] \cup queue[g] \cup theirs) \ gone
      BY <1>2, <2>4 DEF Handled
    <3>2. queue[g] \subseteq Creatures
      BY <1>2 DEF TypeOK, Creatures
    <3>3. stage'[h] = stage[h]
      BY <2>4, <1>2
    <3> QED BY <1>2, <2>1, <2>2, <3>1, <3>2, <3>3 DEF Proper
  <2>5. CASE h # g /\ h \notin Neighbours(g)
    <3>1. known'[h] = known[h]
      BY <1>2, <2>5 DEF Handled
    <3> QED BY <2>1, <2>5, <3>1
  <2> QED BY <2>3, <2>4, <2>5
<1>4. ASSUME NEW h \in Guids \ Live
      PROVE  known'[h] = {} /\ queue'[h] = {}
  <2>1. h # g /\ h \notin Neighbours(g) /\ known[h] = {} /\ queue[h] = {}
    BY DEF Absent, Neighbours
  <2> QED BY <2>1, <1>2 DEF Handled, TypeOK
<1>5. PlayersSeeEachOther'
  BY <1>1, <1>3 DEF PlayersSeeEachOther
<1>6. Absent'
  BY <1>4 DEF Absent
<1> QED BY <1>5, <1>6

(* What is added to g's world is sent to g and to the neighbours, and what *)
(* they lose is no longer in it: everyone goes on seeing the world.        *)
LEMMA HandledThings ==
  ASSUME TypeOK, WorldIsSeen, NEW g \in Live,
         NEW mine, NEW lost, NEW theirs, NEW gone,
         Handled(g, mine, lost, theirs, gone),
         Live' = Live, place' = place,
         \A h \in Live \ {g} : stage'[h] = stage[h],
         stage'[g] \in Arrived => stage[g] \in Arrived \/ Lasting(place[g]) \subseteq mine,
         Lasting(place[g])' \subseteq Lasting(place[g]) \cup (mine \cap theirs),
         Lasting(place[g])' \cap (lost \cup gone) = {},
         \A w \in Worlds \ {place[g]} : Lasting(w)' = Lasting(w)
  PROVE  WorldIsSeen'
<1>1. Live \subseteq Guids /\ Neighbours(g) \subseteq Live \ {g}
  BY DEF Live, Neighbours
<1>2. ASSUME NEW h \in Live, stage'[h] \in Arrived
      PROVE  Lasting(place[h])' \subseteq known'[h]
  <2>1. stage[h] \in Arrived => Lasting(place[h]) \subseteq known[h]
    BY DEF WorldIsSeen, Lasting
  <2>2. place[h] \in Worlds /\ h \in Guids
    BY <1>1 DEF TypeOK
  <2>3. CASE h = g
    <3>1. known'[g] = (known[g] \cup mine) \ lost
      BY <1>1 DEF Handled
    <3> QED BY <1>2, <2>1, <2>3, <3>1
  <2>4. CASE h \in Neighbours(g)
    <3>1. known'[h] = (known[h] \cup queue[g] \cup theirs) \ gone
      BY <1>1, <2>4, <2>2 DEF Handled
    <3>2. place[h] = place[g] /\ stage'[h] = stage[h]
      BY <1>1, <2>4 DEF Neighbours
    <3> QED BY <1>2, <2>1, <3>1, <3>2
  <2>5. CASE h # g /\ h \notin Neighbours(g)
    <3>1. known'[h] = known[h] /\ stage'[h] = stage[h]
      BY <2>2, <2>5 DEF Handled
    <3>2. place[h] # place[g]
      BY <2>5 DEF Neighbours
    <3>3. Lasting(place[h])' = Lasting(place[h])
      BY <2>2, <3>2
    <3> QED BY <1>2, <2>1, <3>1, <3>3
  <2> QED BY <2>3, <2>4, <2>5
<1> QED BY <1>2 DEF WorldIsSeen, Lasting

-----------------------------------------------------------------------------
(* Steps of a handshake, and packets that change nothing in the world.     *)

(* The steps that only answer keep the invariant.                          *)
LEMMA Answered ==
  ASSUME IInv, NEW g \in Live,
         NEW to \in Stages, stage' = [stage EXCEPT ![g] = to],
         to \in Arrived => stage[g] \in Arrived,
         Handled(g, {}, {}, {}, {}), UNCHANGED place, UNCHANGED worlds
  PROVE  IInv'
<1>1. Live' = Live /\ \A h \in Live \ {g} : stage'[h] = stage[h]
  BY DEF IInv, TypeOK, Live
<1>2. stage'[g] = to /\ g \in Guids
  BY DEF IInv, TypeOK, Live
<1>3. Proper(g, {}, {}, {}, {})
  BY DEF Proper
<1>4. TypeOK'
  <2>1. stage' \in [Guids -> Stages \cup {"none", "gone"}]
    BY DEF IInv, TypeOK
  <2> QED BY <2>1, <1>3, HandledTypes DEF IInv, TypeOK, worlds
<1>5. PlayersSeeEachOther' /\ Absent'
  BY <1>1, <1>2, <1>3, HandledPlayers DEF IInv
<1>6. \A w : Lasting(w)' = Lasting(w)
  BY DEF Lasting, worlds
<1>7. WorldIsSeen'
  <2>1. Lasting(place[g])' \subseteq Lasting(place[g]) \cup ({} \cap {})
    BY <1>6
  <2> QED BY <2>1, <1>1, <1>2, <1>6, HandledThings DEF IInv
<1>8. OneThing'
  BY DEF IInv, OneThing, worlds
<1> QED BY <1>4, <1>5, <1>7, <1>8 DEF IInv

(* The burst has everyone who is there and everything there is to tell.    *)
LEMMA BurstInv ==
  ASSUME IInv, NEW g \in Guids, ClientInitialSyncFinished(g)
  PROVE  IInv'
<1> USE DEF ClientInitialSyncFinished
<1> DEFINE w == place[g]
<1>1. g \in Live /\ w \in Worlds /\ Live' = Live /\ \A h \in Live \ {g} : stage'[h] = stage[h]
  BY DEF IInv, TypeOK, Live, Stages
<1>2. stage' \in [Guids -> Stages \cup {"none", "gone"}]
  BY DEF IInv, TypeOK, Stages
<1>3. /\ devices[w] \subseteq Things /\ spawned[w] \subseteq Things /\ drops[w] \subseteq Things
      /\ title[w] \in Things \cup {None} /\ dead[w] \subseteq Seeded \cup spawned[w]
      /\ devices[w] \cap spawned[w] = {}
  BY <1>1 DEF IInv, TypeOK, OneThing
<1>4. Neighbours(g) \subseteq Guids
  BY DEF Neighbours, Live
<1>5. Proper(g, Burst(g), {}, {}, {})
  BY <1>3, <1>4, Apart DEF Proper, Burst, Creatures
<1>6. {g} \cup Neighbours(g) \subseteq Burst(g)
  BY DEF Burst
<1>7. Lasting(w) \subseteq Burst(g)
  BY <1>3, Apart DEF Burst, Lasting
<1>8. TypeOK'
  BY <1>1, <1>2, <1>5, HandledTypes DEF IInv, TypeOK, worlds
<1>9. PlayersSeeEachOther' /\ Absent'
  BY <1>1, <1>5, <1>6, HandledPlayers DEF IInv
<1>10. \A v : Lasting(v)' = Lasting(v)
  BY DEF Lasting, worlds
<1>11. WorldIsSeen'
  <2>1. Lasting(w)' \subseteq Lasting(w) \cup (Burst(g) \cap {}) /\ Lasting(w)' \cap ({} \cup {}) = {}
    BY <1>10
  <2> QED BY <2>1, <1>1, <1>7, <1>10, HandledThings DEF IInv
<1>12. OneThing'
  BY DEF IInv, OneThing, worlds
<1> QED BY <1>8, <1>9, <1>11, <1>12 DEF IInv

(* A handshake, whichever step it has come to.                             *)
LEMMA HandshakeInv ==
  ASSUME IInv, NEW g \in Guids, Handshake(g)
  PROVE  IInv'
<1>1. CASE ClientConnected(g)
  <2>1. g \in Live /\ "SentWorldInfo" \in Stages \ Arrived
    BY <1>1 DEF ClientConnected, Live, Stages, Arrived
  <2> QED BY <1>1, <2>1, Answered DEF ClientConnected
<1>2. CASE ClientReadyToSync(g)
  <2>1. g \in Live /\ "SentChunks" \in Stages \ Arrived
    BY <1>2 DEF ClientReadyToSync, Live, Stages, Arrived
  <2> QED BY <1>2, <2>1, Answered DEF ClientReadyToSync
<1>3. CASE ClientInitialSyncFinished(g)
  BY <1>3, BurstInv
<1>4. CASE ClientReadyToPlay(g)
  <2>1. g \in Live /\ "Playing" \in Stages /\ stage[g] \in Arrived
    BY <1>4 DEF ClientReadyToPlay, Live, Stages, Arrived
  <2> QED BY <1>4, <2>1, Answered DEF ClientReadyToPlay
<1> QED BY <1>1, <1>2, <1>3, <1>4 DEF Handshake

(* Nor does a packet that changes nothing. *)
LEMMA OtherPacketInv ==
  ASSUME IInv, NEW g \in Guids, OtherPacket(g)
  PROVE  IInv'
<1>1. g \in Live /\ stage[g] \in Stages /\ stage' = [stage EXCEPT ![g] = stage[g]]
  BY DEF OtherPacket, Live, IInv, TypeOK
<1> QED BY <1>1, Answered DEF OtherPacket

-----------------------------------------------------------------------------
(* Arrivals and departures. *)

(* Whoever arrives is announced to those who are there, and holds nothing. *)
LEMMA ConnectInv ==
  ASSUME IInv, NEW g \in Guids, NEW w \in Worlds, Connect(g, w)
  PROVE  IInv'
<1> USE DEF Connect
<1>1. g \notin Live /\ Live' = Live \cup {g} /\ Live \subseteq Guids
  BY DEF IInv, TypeOK, Live, Stages
<1>2. /\ place'[g] = w /\ stage'[g] = "Connected"
      /\ \A h \in Guids \ {g} : place'[h] = place[h] /\ stage'[h] = stage[h]
  BY DEF IInv, TypeOK
<1>3. TypeOK'
  BY DEF IInv, TypeOK, Stages, worlds
<1>4. Absent'
  BY <1>1 DEF IInv, Absent
<1>5. OneThing'
  BY DEF IInv, OneThing, worlds
<1>6. ASSUME NEW h \in Live'
      PROVE  /\ known'[h] \cap Guids \subseteq {h} \cup Neighbours(h)'
             /\ stage'[h] \in Arrived => {h} \cup Neighbours(h)' \subseteq known'[h]
             /\ stage'[h] \in Arrived => h # g /\ known[h] \subseteq known'[h]
  <2>1. CASE h = g
    <3>1. known'[g] = {}
      BY <1>1 DEF IInv, Absent
    <3> QED BY <1>2, <2>1, <3>1 DEF Arrived
  <2>2. CASE h # g
    <3>1. h \in Live /\ h \in Guids
      BY <1>1, <2>2
    <3>2. /\ known[h] \cap Guids \subseteq {h} \cup Neighbours(h)
          /\ stage[h] \in Arrived => {h} \cup Neighbours(h) \subseteq known[h]
      BY <3>1 DEF IInv, PlayersSeeEachOther
    <3>3. Neighbours(h)' = IF place[h] = w THEN Neighbours(h) \cup {g} ELSE Neighbours(h)
      BY <1>1, <1>2, <2>2, <3>1 DEF Neighbours
    <3>4. known'[h] = IF place[h] = w THEN known[h] \cup {g} ELSE known[h]
      BY <3>1
    <3> QED BY <1>2, <2>2, <3>1, <3>2, <3>3, <3>4
  <2> QED BY <2>1, <2>2
<1>7. PlayersSeeEachOther'
  BY <1>6 DEF PlayersSeeEachOther
<1>8. WorldIsSeen'
  <2> SUFFICES ASSUME NEW h \in Live', stage'[h] \in Arrived
               PROVE  Lasting(place[h])' \subseteq known'[h]
    BY DEF WorldIsSeen, Lasting
  <2>1. h # g /\ h \in Live /\ h \in Guids /\ known[h] \subseteq known'[h]
    BY <1>1, <1>6
  <2>2. Lasting(place[h]) \subseteq known[h]
    BY <1>2, <2>1 DEF IInv, WorldIsSeen, Lasting
  <2>3. place'[h] = place[h]
    BY <1>2, <2>1
  <2>4. Lasting(place[h])' = Lasting(place[h])
    BY <2>3 DEF Lasting, worlds
  <2> QED BY <2>1, <2>2, <2>4
<1> QED BY <1>3, <1>4, <1>5, <1>7, <1>8 DEF IInv

(* Whoever leaves is taken from those who are left. *)
LEMMA DisconnectInv ==
  ASSUME IInv, NEW g \in Guids, Disconnect(g)
  PROVE  IInv'
<1> USE DEF Disconnect
<1>1. g \in Live /\ Live' = Live \ {g} /\ Live \subseteq Guids
  BY DEF IInv, TypeOK, Live, Stages
<1>2. place' = place /\ \A h \in Guids \ {g} : stage'[h] = stage[h]
  BY DEF IInv, TypeOK
<1>3. TypeOK'
  BY DEF IInv, TypeOK, worlds
<1>4. Absent'
  BY <1>1 DEF IInv, Absent, Neighbours, TypeOK
<1>5. OneThing'
  BY DEF IInv, OneThing, worlds
<1>6. ASSUME NEW h \in Live'
      PROVE  /\ known'[h] \cap Guids \subseteq {h} \cup Neighbours(h)'
             /\ stage'[h] \in Arrived => {h} \cup Neighbours(h)' \subseteq known'[h]
             /\ known[h] \ {g} \subseteq known'[h]
  <2>1. h \in Live /\ h \in Guids /\ h # g
    BY <1>1
  <2>2. /\ known[h] \cap Guids \subseteq {h} \cup Neighbours(h)
        /\ stage[h] \in Arrived => {h} \cup Neighbours(h) \subseteq known[h]
    BY <2>1 DEF IInv, PlayersSeeEachOther
  <2>3. Neighbours(h)' = Neighbours(h) \ {g}
    BY <1>1, <1>2 DEF Neighbours
  <2>4. known'[h] = IF h \in Neighbours(g) THEN known[h] \ {g} ELSE known[h]
    BY <2>1
  <2>5. h \in Neighbours(g) <=> g \in Neighbours(h)
    BY <1>1, <2>1 DEF Neighbours
  <2> QED BY <1>2, <2>1, <2>2, <2>3, <2>4, <2>5
<1>7. PlayersSeeEachOther'
  BY <1>6 DEF PlayersSeeEachOther
<1>8. WorldIsSeen'
  <2> SUFFICES ASSUME NEW h \in Live', stage'[h] \in Arrived
               PROVE  Lasting(place[h])' \subseteq known'[h]
    BY <1>2 DEF WorldIsSeen, Lasting
  <2>1. h # g /\ h \in Live /\ h \in Guids /\ known[h] \ {g} \subseteq known'[h]
    BY <1>1, <1>6
  <2>2. Lasting(place[h]) \subseteq known[h]
    BY <1>2, <2>1 DEF IInv, WorldIsSeen, Lasting
  <2>3. g \notin Lasting(place[h])
    BY <2>1, SharedWorldAssumption DEF IInv, TypeOK, Lasting
  <2>4. Lasting(place[h])' = Lasting(place[h])
    BY <1>2 DEF Lasting, worlds
  <2> QED BY <2>1, <2>2, <2>3, <2>4
<1> QED BY <1>3, <1>4, <1>5, <1>7, <1>8 DEF IInv

-----------------------------------------------------------------------------
(* What players do to the world. *)

(* A packet that sends what it changed keeps what clients have been told.  *)
LEMMA Told ==
  ASSUME IInv, NEW g \in Live,
         NEW mine \in SUBSET Creatures, NEW lost \in SUBSET Creatures,
         NEW theirs \in SUBSET Creatures, NEW gone \in SUBSET Creatures,
         Handled(g, mine, lost, theirs, gone), UNCHANGED <<stage, place>>,
         Lasting(place[g])' \subseteq Lasting(place[g]) \cup (mine \cap theirs),
         Lasting(place[g])' \cap (lost \cup gone) = {},
         \A w \in Worlds \ {place[g]} : Lasting(w)' = Lasting(w)
  PROVE  /\ known' \in [Guids -> SUBSET (Guids \cup Creatures)]
         /\ queue' \in [Guids -> SUBSET Things]
         /\ PlayersSeeEachOther' /\ Absent' /\ WorldIsSeen'
<1>1. Live' = Live
  BY DEF Live
<1>2. Proper(g, mine, lost, theirs, gone)
  BY Apart DEF Proper
<1> QED BY <1>1, <1>2, HandledTypes, HandledPlayers, HandledThings DEF IInv

(* In particular one that makes something and sends it to everyone there.  *)
LEMMA Added ==
  ASSUME IInv, NEW g \in Live, NEW e \in Creatures,
         Handled(g, {e}, {}, {e}, {}), UNCHANGED <<stage, place>>,
         \A w \in Worlds :
           Lasting(w)' = IF w = place[g] THEN Lasting(w) \cup {e} ELSE Lasting(w)
  PROVE  /\ known' \in [Guids -> SUBSET (Guids \cup Creatures)]
         /\ queue' \in [Guids -> SUBSET Things]
         /\ PlayersSeeEachOther' /\ Absent' /\ WorldIsSeen'
<1>1. place[g] \in Worlds
  BY DEF IInv, TypeOK, Live
<1>2. /\ Lasting(place[g])' \subseteq Lasting(place[g]) \cup ({e} \cap {e})
      /\ Lasting(place[g])' \cap ({} \cup {}) = {}
      /\ \A w \in Worlds \ {place[g]} : Lasting(w)' = Lasting(w)
  BY <1>1
<1>3. {e} \in SUBSET Creatures /\ {} \in SUBSET Creatures
  OBVIOUS
<1> QED BY <1>2, <1>3, Told

(* What is put down is new, and everyone there is told. *)
LEMMA PlaceEntityInv ==
  ASSUME IInv, NEW g \in Guids, NEW e, PlaceEntity(g, e)
  PROVE  IInv'
<1> USE DEF PlaceEntity
<1> DEFINE w == place[g]
<1>1. g \in Live /\ w \in Worlds /\ e \in Things \ made /\ e \in Creatures
  BY DEF IInv, TypeOK, Unused, Creatures
<1>2. devices' \in [Worlds -> SUBSET Things]
  BY <1>1 DEF IInv, TypeOK
<1>3. \A v \in Worlds : devices'[v] = IF v = w THEN devices[v] \cup {e} ELSE devices[v]
  BY <1>1 DEF IInv, TypeOK
<1>4. \A v \in Worlds :
        Lasting(v)' = IF v = w THEN Lasting(v) \cup {e} ELSE Lasting(v)
  BY <1>3 DEF Lasting
<1>5. /\ known' \in [Guids -> SUBSET (Guids \cup Creatures)]
      /\ queue' \in [Guids -> SUBSET Things]
      /\ PlayersSeeEachOther' /\ Absent' /\ WorldIsSeen'
  BY <1>1, <1>4, Added
<1>6. TypeOK'
  BY <1>1, <1>2, <1>5 DEF IInv, TypeOK
<1>7. OneThing'
  BY <1>1, <1>3, Apart DEF IInv, OneThing, TypeOK
<1> QED BY <1>5, <1>6, <1>7 DEF IInv

(* So is what a block leaves behind. *)
LEMMA DigInv ==
  ASSUME IInv, NEW g \in Guids, NEW e, Dig(g, e)
  PROVE  IInv'
<1> USE DEF Dig
<1> DEFINE w == place[g]
<1>1. g \in Live /\ w \in Worlds /\ e \in Things \ made /\ e \in Creatures
  BY DEF IInv, TypeOK, Unused, Creatures
<1>2. drops' \in [Worlds -> SUBSET Things]
  BY <1>1 DEF IInv, TypeOK
<1>3. \A v \in Worlds : drops'[v] = IF v = w THEN drops[v] \cup {e} ELSE drops[v]
  BY <1>1 DEF IInv, TypeOK
<1>4. \A v \in Worlds :
        Lasting(v)' = IF v = w THEN Lasting(v) \cup {e} ELSE Lasting(v)
  BY <1>3 DEF Lasting
<1>5. /\ known' \in [Guids -> SUBSET (Guids \cup Creatures)]
      /\ queue' \in [Guids -> SUBSET Things]
      /\ PlayersSeeEachOther' /\ Absent' /\ WorldIsSeen'
  BY <1>1, <1>4, Added
<1>6. TypeOK'
  BY <1>1, <1>2, <1>5 DEF IInv, TypeOK
<1>7. OneThing'
  BY <1>1, <1>3, Apart DEF IInv, OneThing, TypeOK
<1> QED BY <1>5, <1>6, <1>7 DEF IInv

(* What was collected is no device and no title.                           *)
LEMMA CollectPickupInv ==
  ASSUME IInv, NEW g \in Guids, NEW e, CollectPickup(g, e)
  PROVE  IInv'
<1> USE DEF CollectPickup
<1> DEFINE w == place[g]
<1>1. g \in Live /\ w \in Worlds
  BY DEF IInv, TypeOK, Live
<1>2. e \in Things /\ e \in Creatures /\ e \notin Seeded
  BY <1>1, Apart DEF IInv, TypeOK, Creatures
<1>3. drops' \in [Worlds -> SUBSET Things]
  BY <1>1 DEF IInv, TypeOK
<1>4. \A v \in Worlds : drops'[v] = IF v = w THEN drops[v] \ {e} ELSE drops[v]
  BY <1>1 DEF IInv, TypeOK
<1>5. \A v \in Worlds :
        Lasting(v)' = IF v = w THEN Lasting(v) \ {e} ELSE Lasting(v)
  BY <1>1, <1>2, <1>4 DEF Lasting, IInv, OneThing
<1>6. /\ known' \in [Guids -> SUBSET (Guids \cup Creatures)]
      /\ queue' \in [Guids -> SUBSET Things]
      /\ PlayersSeeEachOther' /\ Absent' /\ WorldIsSeen'
  <2>1. /\ Lasting(place[g])' \subseteq Lasting(place[g]) \cup ({} \cap {})
        /\ Lasting(place[g])' \cap ({e} \cup {}) = {}
    BY <1>1, <1>5
  <2> QED BY <2>1, <1>1, <1>2, <1>5, Told
<1>7. TypeOK'
  BY <1>3, <1>6 DEF IInv, TypeOK
<1>8. OneThing'
  BY <1>4 DEF IInv, OneThing
<1> QED BY <1>6, <1>7, <1>8 DEF IInv

(* The first title is a new entity; later ones change what it says. *)
LEMMA LearnHomeTitleInv ==
  ASSUME IInv, NEW g \in Guids, LearnHomeTitle(g)
  PROVE  IInv'
<1> USE DEF LearnHomeTitle
<1> DEFINE w == place[g]
<1>1. g \in Live /\ w \in Worlds
  BY DEF IInv, TypeOK, Live
<1>2. CASE title[w] # None
  <2>1. \A v \in Worlds : Lasting(v)' = Lasting(v)
    BY <1>2 DEF Lasting
  <2>2. Handled(g, {}, {}, {}, {}) /\ UNCHANGED <<title, made>>
    BY <1>2
  <2>3. /\ known' \in [Guids -> SUBSET (Guids \cup Creatures)]
        /\ queue' \in [Guids -> SUBSET Things]
        /\ PlayersSeeEachOther' /\ Absent' /\ WorldIsSeen'
    <3>1. Lasting(place[g])' \subseteq Lasting(place[g]) \cup ({} \cap {})
      BY <1>1, <2>1
    <3> QED BY <3>1, <1>1, <2>1, <2>2, Told
  <2> QED BY <2>2, <2>3 DEF IInv, TypeOK, OneThing
<1>3. CASE title[w] = None
  <2>1. PICK e \in Unused : /\ title' = [title EXCEPT ![w] = e]
                            /\ made' = made \cup {e}
                            /\ Handled(g, {e}, {}, {e}, {})
    BY <1>3
  <2>2. e \in Things \ made /\ e \in Creatures /\ e # None
    BY Apart DEF Unused, Creatures
  <2>3. title' \in [Worlds -> Things \cup {None}]
    BY <1>1, <2>1, <2>2 DEF IInv, TypeOK
  <2>4. \A v \in Worlds : title'[v] = IF v = w THEN e ELSE title[v]
    BY <1>1, <2>1 DEF IInv, TypeOK
  <2>5. \A v \in Worlds :
          Lasting(v)' = IF v = w THEN Lasting(v) \cup {e} ELSE Lasting(v)
    BY <1>3, <2>2, <2>4 DEF Lasting
  <2>6. /\ known' \in [Guids -> SUBSET (Guids \cup Creatures)]
        /\ queue' \in [Guids -> SUBSET Things]
        /\ PlayersSeeEachOther' /\ Absent' /\ WorldIsSeen'
    BY <1>1, <2>1, <2>2, <2>5, Added
  <2>7. TypeOK'
    BY <2>1, <2>2, <2>3, <2>6 DEF IInv, TypeOK
  <2>8. OneThing'
    BY <1>1, <2>1, <2>2, <2>4, Apart DEF IInv, OneThing, TypeOK
  <2> QED BY <2>6, <2>7, <2>8 DEF IInv
<1> QED BY <1>2, <1>3

(* The others are not told yet, and nothing says they have to be.          *)
LEMMA MobInv ==
  ASSUME IInv, NEW g \in Guids, NEW e, Mob(g, e)
  PROVE  IInv'
<1> USE DEF Mob
<1>1. g \in Live /\ Live' = Live /\ e \in Things \ made /\ e \in Creatures /\ e \notin Guids
  BY Apart DEF Unused, Creatures, Live
<1>2. /\ known' \in [Guids -> SUBSET (Guids \cup Creatures)]
      /\ queue' \in [Guids -> SUBSET Things]
      /\ spawned' \in [Worlds -> SUBSET Things]
  BY <1>1, Apart DEF IInv, TypeOK
<1>3. \A v \in Worlds : spawned'[v] = IF v = Home THEN spawned[v] \cup {e} ELSE spawned[v]
  BY Apart DEF IInv, TypeOK
<1>4. \A h \in Guids : known'[h] = IF h = g THEN known[h] \cup {e} ELSE known[h]
  BY DEF IInv, TypeOK
<1>5. \A h \in Guids \ {g} : queue'[h] = queue[h]
  BY DEF IInv, TypeOK
<1>6. TypeOK'
  BY <1>1, <1>2 DEF IInv, TypeOK
<1>7. Absent'
  BY <1>1, <1>4, <1>5 DEF IInv, Absent
<1>8. PlayersSeeEachOther'
  <2>1. \A h \in Live : Neighbours(h)' = Neighbours(h)
    BY <1>1 DEF Neighbours
  <2>2. \A h \in Live : h \in Guids /\ known'[h] \cap Guids = known[h] \cap Guids
                        /\ known[h] \subseteq known'[h]
    BY <1>1, <1>4 DEF Live
  <2> QED BY <1>1, <2>1, <2>2 DEF IInv, PlayersSeeEachOther
<1>9. WorldIsSeen'
  <2>1. \A h \in Live : known[h] \subseteq known'[h]
    BY <1>4 DEF Live
  <2> QED BY <1>1, <2>1 DEF IInv, WorldIsSeen
<1>10. OneThing'
  BY <1>1, <1>3, Apart DEF IInv, OneThing, TypeOK
<1> QED BY <1>6, <1>7, <1>8, <1>9, <1>10 DEF IInv

(* What is left of a creature is never less than nothing. *)
LEMMA TakenWithinHealth ==
  ASSUME NEW was \in 0 .. MaxHealth, NEW strength \in Strengths
  PROVE  Taken(was, strength) \in 0 .. MaxHealth
BY SharedWorldAssumption DEF Taken

(* A creature that dies is neither a device nor a drop nor a title, and    *)
(* nothing it leaves behind is itself.                                     *)
LEMMA HitInv ==
  ASSUME IInv, NEW g \in Guids, NEW c \in Creatures, Hit(g, c)
  PROVE  IInv'
<1> DEFINE w == place[g]
<1>1. g \in Live /\ w \in Worlds /\ c \in Seeded \cup spawned[w] /\ c \notin dead[w]
  BY DEF Hit, IInv, TypeOK, Live
<1>2. PICK strength \in Strengths, loot \in {{}} \cup {{e} : e \in Unused} :
        LET now   == Taken(damage[w][c], strength)
            kills == now = MaxHealth
        IN  /\ damage' = [damage EXCEPT ![w][c] = now]
            /\ dead' = IF kills THEN [dead EXCEPT ![w] = @ \cup {c}] ELSE dead
            /\ drops' = [drops EXCEPT ![w] = @ \cup loot]
            /\ made' = made \cup loot
            /\ IF kills THEN Handled(g, loot, {c}, loot, Removed(g, c))
                        ELSE Handled(g, loot, {}, loot, {})
  BY DEF Hit
<1> DEFINE now   == Taken(damage[w][c], strength)
           kills == now = MaxHealth
           dies  == IF kills THEN {c} ELSE {}
<1>3. UNCHANGED <<stage, place, devices, spawned, title>>
  BY DEF Hit
<1>4. loot \subseteq Things \ made /\ loot \in SUBSET Creatures /\ loot \cap Seeded = {}
  BY Apart DEF Unused, Creatures
<1>5. dies \in SUBSET Creatures /\ dies \subseteq {c}
  OBVIOUS
<1>6. Handled(g, loot, dies, loot, dies)
  BY <1>2 DEF Removed
<1>7. damage' \in [Worlds -> [Creatures -> 0 .. MaxHealth]]
  <2>1. damage[w][c] \in 0 .. MaxHealth
    BY <1>1 DEF IInv, TypeOK
  <2>2. now \in 0 .. MaxHealth
    BY <2>1, TakenWithinHealth
  <2> HIDE DEF now
  <2>3. damage' = [damage EXCEPT ![w][c] = now]
    BY <1>2 DEF now
  <2> QED BY <1>1, <2>2, <2>3 DEF IInv, TypeOK
<1>8. dead' = [dead EXCEPT ![w] = @ \cup dies]
  <2>1. CASE kills
    BY <1>2, <2>1
  <2>2. CASE ~kills
    BY <1>1, <1>2, <2>2 DEF IInv, TypeOK
  <2> QED BY <2>1, <2>2
<1> HIDE DEF now, kills, dies
<1>9. drops' = [drops EXCEPT ![w] = @ \cup loot] /\ made' = made \cup loot
  BY <1>2
<1>10. drops' \in [Worlds -> SUBSET Things] /\ dead' \in [Worlds -> SUBSET Creatures]
  BY <1>1, <1>4, <1>5, <1>8, <1>9 DEF IInv, TypeOK
<1>11. /\ drops'[w] = drops[w] \cup loot /\ dead'[w] = dead[w] \cup dies
       /\ \A v \in Worlds \ {w} : drops'[v] = drops[v] /\ dead'[v] = dead[v]
  BY <1>1, <1>8, <1>9 DEF IInv, TypeOK
<1>12. /\ devices[w] \cup spawned[w] \cup drops[w] \cup ({title[w]} \ {None}) \subseteq made
       /\ devices[w] \cap (spawned[w] \cup drops[w] \cup {title[w]}) = {}
       /\ spawned[w] \cap (drops[w] \cup {title[w]}) = {}
       /\ title[w] \notin drops[w]
       /\ dead[w] \subseteq Seeded \cup spawned[w]
       /\ devices[w] \cup drops[w] \subseteq Things /\ title[w] \in Things \cup {None}
  BY <1>1 DEF IInv, TypeOK, OneThing
<1>13. dies \cap (devices[w] \cup drops[w] \cup ({title[w]} \ {None}) \cup loot) = {}
  BY <1>1, <1>4, <1>5, <1>12, Apart DEF IInv, TypeOK
<1>14. /\ Lasting(w)' \subseteq Lasting(w) \cup (loot \cap loot)
       /\ Lasting(w)' \cap (dies \cup dies) = {}
       /\ \A v \in Worlds \ {w} : Lasting(v)' = Lasting(v)
  BY <1>3, <1>11, <1>13 DEF Lasting
<1>15. /\ known' \in [Guids -> SUBSET (Guids \cup Creatures)]
       /\ queue' \in [Guids -> SUBSET Things]
       /\ PlayersSeeEachOther' /\ Absent' /\ WorldIsSeen'
  BY <1>1, <1>3, <1>4, <1>5, <1>6, <1>14, Told
<1>16. TypeOK'
  BY <1>3, <1>4, <1>7, <1>9, <1>10, <1>15 DEF IInv, TypeOK
<1>17. OneThing'
  <2>1. title[w] \notin loot
    BY <1>4, <1>12, Apart
  <2>2. loot \cap (devices[w] \cup spawned[w]) = {}
    BY <1>4, <1>12
  <2> SUFFICES ASSUME NEW v \in Worlds
               PROVE  /\ devices[v] \cup spawned[v] \cup drops'[v] \cup ({title[v]} \ {None})
                           \subseteq made'
                      /\ devices[v] \cap (spawned[v] \cup drops'[v] \cup {title[v]}) = {}
                      /\ spawned[v] \cap (drops'[v] \cup {title[v]}) = {}
                      /\ title[v] \notin drops'[v]
                      /\ dead'[v] \subseteq Seeded \cup spawned[v]
    BY <1>3 DEF OneThing
  <2>3. CASE v = w
    BY <1>1, <1>5, <1>9, <1>11, <1>12, <2>1, <2>2, <2>3
  <2>4. CASE v # w
    BY <1>9, <1>11, <2>4 DEF IInv, OneThing
  <2> QED BY <2>3, <2>4
<1> QED BY <1>15, <1>16, <1>17 DEF IInv

-----------------------------------------------------------------------------
(* The theorems. *)

(* Nobody is there and nothing has happened. *)
LEMMA InitInv == Init => IInv
<1> SUFFICES ASSUME Init PROVE IInv
  OBVIOUS
<1>1. Live = {}
  BY DEF Init, Live, Stages
<1>2. TypeOK
  BY SharedWorldAssumption DEF Init, TypeOK, Worlds
<1>3. Absent
  BY DEF Init, Absent
<1>4. OneThing
  BY DEF Init, OneThing
<1> QED BY <1>1, <1>2, <1>3, <1>4 DEF IInv, PlayersSeeEachOther, WorldIsSeen

(* Whatever a player does keeps the invariant. *)
LEMMA ActInv ==
  ASSUME IInv, NEW g \in Guids, Act(g)
  PROVE  IInv'
<1>1. CASE OtherPacket(g)
  BY <1>1, OtherPacketInv
<1>2. CASE \E e \in Unused : PlaceEntity(g, e) \/ Dig(g, e) \/ Mob(g, e)
  BY <1>2, PlaceEntityInv, DigInv, MobInv
<1>3. CASE \E e \in drops[place[g]] : CollectPickup(g, e)
  BY <1>3, CollectPickupInv
<1>4. CASE \E c \in Creatures : Hit(g, c)
  BY <1>4, HitInv
<1>5. CASE LearnHomeTitle(g)
  BY <1>5, LearnHomeTitleInv
<1> QED BY <1>1, <1>2, <1>3, <1>4, <1>5 DEF Act

(* So does every step. *)
LEMMA NextInv == IInv /\ [Next]_vars => IInv'
<1> SUFFICES ASSUME IInv, [Next]_vars PROVE IInv'
  OBVIOUS
<1>1. CASE Next
  <2>1. PICK g \in Guids : \/ \E w \in Worlds : Connect(g, w)
                           \/ Disconnect(g) \/ Handshake(g) \/ Act(g)
    BY <1>1 DEF Next
  <2> QED BY <2>1, ConnectInv, DisconnectInv, HandshakeInv, ActInv
<1>2. CASE UNCHANGED vars
  BY <1>2 DEF vars, IInv, TypeOK, Absent, OneThing, PlayersSeeEachOther, WorldIsSeen,
              Live, Neighbours
<1> QED BY <1>1, <1>2

(* The invariant holds always. *)
LEMMA Inductive == Spec => []IInv
<1> QED BY InitInv, NextInv, PTL DEF Spec

(* Every variable keeps its type; no creature is more than dead.           *)
THEOREM TypeCorrect == Spec => []TypeOK
<1>1. IInv => TypeOK
  BY DEF IInv
<1> QED BY <1>1, Inductive, PTL

(* However arrivals, departures and handshakes interleave, a client past   *)
(* its burst holds the bodies of exactly the players in its world.         *)
THEOREM PlayersAreSeen == Spec => []PlayersSeeEachOther
<1>1. IInv => PlayersSeeEachOther
  BY DEF IInv
<1> QED BY <1>1, Inductive, PTL

(* Past its burst a client holds whatever there is to see of its world.    *)
THEOREM TheWorldIsSeen == Spec => []WorldIsSeen
<1>1. IInv => WorldIsSeen
  BY DEF IInv
<1> QED BY <1>1, Inductive, PTL

(* Only a swing kills, and the removal of what it killed reaches every     *)
(* client in the world.                                                    *)
LEMMA HitIsSeen ==
  ASSUME TypeOK, NEW g \in Guids, NEW c \in Creatures, Hit(g, c),
         NEW w \in Worlds, NEW h \in Live, place[h] = w
  PROVE  known'[h] \cap (dead'[w] \ dead[w]) = {}
<1>1. g \in Live /\ place[g] \in Worlds /\ h \in Guids
  BY DEF Hit, TypeOK, Live
<1>2. CASE dead' = dead
  BY <1>2
<1>3. CASE dead' # dead
  <2>1. PICK loot \in {{}} \cup {{e} : e \in Unused} :
          /\ dead' = [dead EXCEPT ![place[g]] = @ \cup {c}]
          /\ Handled(g, loot, {c}, loot, {c})
    BY <1>3 DEF Hit, Removed
  <2>2. \A v \in Worlds : dead'[v] = IF v = place[g] THEN dead[v] \cup {c} ELSE dead[v]
    BY <1>1, <2>1 DEF TypeOK
  <2>3. place[h] = place[g] => h = g \/ h \in Neighbours(g)
    BY DEF Neighbours
  <2>4. place[h] = place[g] => c \notin known'[h]
    BY <1>1, <2>1, <2>3 DEF Handled
  <2> QED BY <2>2, <2>4
<1> QED BY <1>2, <1>3

(* When a creature dies no client in its world goes on holding it.         *)
THEOREM DeathsAreSeen == Spec => DeathIsSeen
<1> DEFINE Seen == \A w \in Worlds : \A g \in Live :
                     place[g] = w => known'[g] \cap (dead'[w] \ dead[w]) = {}
<1>1. TypeOK /\ [Next]_vars => [Seen]_vars
  <2> SUFFICES ASSUME TypeOK, Next PROVE Seen
    OBVIOUS
  <2>1. PICK g \in Guids : \/ \E w \in Worlds : Connect(g, w)
                           \/ Disconnect(g) \/ Handshake(g) \/ Act(g)
    BY DEF Next
  <2>2. CASE \E c \in Creatures : Hit(g, c)
    BY <2>2, HitIsSeen
  <2>3. CASE ~\E c \in Creatures : Hit(g, c)
    <3>1. dead' = dead
      BY <2>1, <2>3 DEF Connect, Disconnect, Handshake, ClientConnected, ClientReadyToSync,
           ClientInitialSyncFinished, ClientReadyToPlay, Act, OtherPacket, PlaceEntity, Dig,
           Mob, CollectPickup, LearnHomeTitle, worlds
    <3> QED BY <3>1
  <2> QED BY <2>2, <2>3
<1> QED BY <1>1, TypeCorrect, PTL DEF Spec, DeathIsSeen

-----------------------------------------------------------------------------
(* The island. *)

Blocks == Soil \cup Bare \cup {AIR}
Change == [kind : {"block"}, at : Places, what : Blocks]
            \cup [kind : {"device"}, at : Places, what : Fixings]
Held   == [blocks : [Places -> Blocks \cup {Kept}], devices : [Places -> Fixings \cup {Nothing}]]

LandTyped ==
  /\ blocks \in [Places -> Blocks \cup {Kept}]
  /\ unsaved \in Seq([at : Places, material : Blocks])
  /\ IsQueue(fixtures)
  /\ \A i \in DOMAIN fixtures : fixtures[i].name \in Fixings /\ fixtures[i].at \in Places
  /\ unsaved_devices \in Seq([name : Fixings, at : Places])
  /\ floor \in [Soil -> Nat]
BagTyped ==
  /\ load \in [Soil \cup Fixings -> Nat]
  /\ bag \in [Players -> [Soil \cup Fixings -> Nat]]
StoreTyped ==
  /\ stored \in Held /\ disk \in Held
  /\ pipeline \in Seq(Change)
  /\ restarts \in Nat
IslandTyped == LandTyped /\ BagTyped /\ StoreTyped

-----------------------------------------------------------------------------
(* The voxels are words, and so finitely many. *)
LEMMA PlacesAre ==
  /\ Voxels \subseteq Places /\ Places \subseteq Nat
  /\ IsFiniteSet(Places) /\ IsFiniteSet(Voxels)
  /\ \A v \in Voxels, d \in Towards : placement_voxel(v, d) \in Places
<1>1. CHUNK_SIZE \in Nat \ {0} /\ WORD \in Nat /\ WORD > CHUNK_SIZE + 1
  BY IslandAssumption
<1>2. Voxels \subseteq 0 .. WORD - 1
  BY <1>1 DEF Voxels
<1>3. ASSUME NEW v \in Voxels, NEW d \in Towards
      PROVE  placement_voxel(v, d) \in 0 .. WORD - 1 /\ placement_voxel(v, d) \in Places
  <2>1. v + d \in Nat
    BY <1>1 DEF Voxels, Towards
  <2>2. (v + d) % WORD \in 0 .. WORD - 1
    BY <1>1, <2>1
  <2> QED BY <2>2 DEF placement_voxel, Places
<1>4. Places \subseteq 0 .. WORD - 1
  <2>1. ASSUME NEW u \in Places, u \notin Voxels
        PROVE  \E v \in Voxels, d \in Towards : u = placement_voxel(v, d)
    BY <2>1 DEF Places, placement_voxel
  <2> QED BY <1>2, <1>3, <2>1
<1>5. IsFiniteSet(0 .. WORD - 1) /\ IsFiniteSet(Voxels)
  BY <1>1, FS_Interval DEF Voxels
<1>6. IsFiniteSet(Places)
  BY <1>4, <1>5, FS_Subset
<1>7. Voxels \subseteq Places /\ 0 .. WORD - 1 \subseteq Nat
  BY <1>1 DEF Places
<1> QED BY <1>3, <1>4, <1>5, <1>6, <1>7

LEMMA EmptyIsHeld == Empty \in Held
BY DEF Empty, Held

LEMMA PutIsHeld ==
  ASSUME NEW held \in Held, NEW c \in Change
  PROVE  Put(held, c) \in Held
<1>1. CASE c.kind = "block"
  BY <1>1 DEF Held, Change, Put
<1>2. CASE c.kind # "block"
  BY <1>2 DEF Held, Change, Put
<1> QED BY <1>1, <1>2

-----------------------------------------------------------------------------
(* Every step keeps the types. *)
LEMMA IslandInitTyped == IslandInit => IslandTyped
<1> SUFFICES ASSUME IslandInit PROVE IslandTyped
  OBVIOUS
<1>1. LandTyped
  <2>1. blocks \in [Places -> Blocks \cup {Kept}] /\ floor \in [Soil -> Nat]
    BY DEF IslandInit, Empty
  <2>2. unsaved = <<>> /\ fixtures = <<>> /\ unsaved_devices = <<>>
    BY DEF IslandInit
  <2>3. IsQueue(fixtures)
    BY <2>2 DEF IsQueue
  <2> QED BY <2>1, <2>2, <2>3 DEF LandTyped
<1>2. BagTyped
  BY IslandAssumption DEF IslandInit, BagTyped
<1>3. StoreTyped
  BY EmptyIsHeld DEF IslandInit, StoreTyped
<1> QED BY <1>1, <1>2, <1>3 DEF IslandTyped

LEMMA BlockTyped ==
  ASSUME LandTyped, NEW v \in Places, NEW m \in Blocks, set_block(v, m)
  PROVE  /\ blocks' \in [Places -> Blocks \cup {Kept}]
         /\ unsaved' \in Seq([at : Places, material : Blocks])
<1>1. [at |-> v, material |-> m] \in [at : Places, material : Blocks]
  OBVIOUS
<1> QED BY <1>1 DEF LandTyped, set_block, Queued

LEMMA VoxelActionsTyped ==
  ASSUME IslandTyped, NEW p \in Players, NEW v \in Voxels, NEW d \in Towards,
         NEW item \in Soil \cup Fixings \cup {Nothing}, PerformVoxelActions(p, v, d, item)
  PROVE  IslandTyped'
<1>1. StoreTyped' /\ fixtures' = fixtures /\ unsaved_devices' = unsaved_devices /\ load' = load
  BY DEF PerformVoxelActions, store_vars, IslandTyped, StoreTyped
<1>2. CASE PlaceBlock(p, v, d, item) /\ item \in Soil /\ bag[p][item] > 0
  <2>1. placement_voxel(v, d) \in Places /\ item \in Blocks
    BY <1>2, PlacesAre DEF Blocks
  <2>2. set_block(placement_voxel(v, d), item) /\ floor' = floor
    BY <1>2 DEF PlaceBlock
  <2>3. LandTyped'
    BY <1>1, <2>1, <2>2, BlockTyped DEF IslandTyped, LandTyped
  <2>4. BagTyped'
    <3>1. bag[p] \in [Soil \cup Fixings -> Nat] /\ item \in Soil \cup Fixings /\ bag[p][item] - 1 \in Nat
      BY <1>2 DEF IslandTyped, BagTyped
    <3>2. bag' = [bag EXCEPT ![p][item] = @ - 1]
      BY <1>2 DEF PlaceBlock
    <3> QED BY <1>1, <3>1, <3>2 DEF IslandTyped, BagTyped
  <2> QED BY <1>1, <2>3, <2>4 DEF IslandTyped
<1>3. CASE dig(p, v)
  <2>1. v \in Places /\ bag' = bag /\ BagTyped'
    BY <1>1, <1>3, PlacesAre DEF dig, IslandTyped, BagTyped
  <2>2. CASE UNCHANGED <<blocks, unsaved, floor>>
    <3>1. LandTyped'
      BY <1>1, <2>2 DEF IslandTyped, LandTyped
    <3> QED BY <1>1, <2>1, <3>1 DEF IslandTyped
  <2>3. CASE Breaks(p, v, block_at(v))
    <3>1. set_block(v, AIR) /\ AIR \in Blocks
      BY <2>3 DEF Breaks, Blocks
    <3>2. floor' \in [Soil -> Nat]
      BY <2>3 DEF Breaks, IslandTyped, LandTyped
    <3>3. LandTyped'
      BY <1>1, <2>1, <3>1, <3>2, BlockTyped DEF IslandTyped, LandTyped
    <3> QED BY <1>1, <2>1, <3>3 DEF IslandTyped
  <2> QED BY <1>3, <2>2, <2>3 DEF dig
<1> QED BY <1>2, <1>3 DEF PerformVoxelActions

LEMMA CollectsTyped ==
  ASSUME IslandTyped, NEW p \in Players, NEW item \in Soil, Collects(p, item)
  PROVE  IslandTyped'
<1>1. StoreTyped' /\ UNCHANGED <<blocks, unsaved, fixtures, unsaved_devices, load>>
  BY DEF Collects, store_vars, IslandTyped, StoreTyped
<1>2. floor[item] - 1 \in Nat /\ bag[p] \in [Soil \cup Fixings -> Nat]
  <2>1. floor[item] \in Nat /\ floor[item] > 0
    BY DEF Collects, IslandTyped, LandTyped
  <2> QED BY <2>1 DEF IslandTyped, BagTyped
<1>3. floor' = [floor EXCEPT ![item] = @ - 1] /\ bag' = [bag EXCEPT ![p][item] = @ + 1]
  BY DEF Collects
<1>4. LandTyped'
  BY <1>1, <1>2, <1>3 DEF IslandTyped, LandTyped
<1>5. BagTyped'
  BY <1>1, <1>2, <1>3 DEF IslandTyped, BagTyped
<1> QED BY <1>1, <1>4, <1>5 DEF IslandTyped

LEMMA PlaceEntityTyped ==
  ASSUME IslandTyped, NEW p \in Players, NEW v \in Voxels, NEW d \in Towards,
         NEW item \in Soil \cup Fixings \cup {Nothing}, place_entity(p, v, d, item)
  PROVE  IslandTyped'
<1>1. StoreTyped' /\ UNCHANGED <<blocks, unsaved, floor, load>>
  BY DEF place_entity, store_vars, IslandTyped, StoreTyped
<1>2. item \in Fixings /\ placement_voxel(v, d) \in Places
  BY PlacesAre DEF place_entity
<1>3. LandTyped'
  <2> DEFINE f == [id |-> next_entity_id, name |-> item, at |-> placement_voxel(v, d)]
             e == [name |-> item, at |-> placement_voxel(v, d)]
  <2>1. f.name \in Fixings /\ f.at \in Places /\ e \in [name : Fixings, at : Places]
    BY <1>2
  <2>2. fixtures' = Append(fixtures, f) /\ unsaved_devices' = Append(unsaved_devices, e)
    BY DEF place_entity
  <2> HIDE DEF f, e
  <2>3. IsQueue(fixtures) /\ \A i \in DOMAIN fixtures : fixtures[i].name \in Fixings /\ fixtures[i].at \in Places
    BY DEF IslandTyped, LandTyped
  <2>4. IsQueue(fixtures') /\ \A i \in DOMAIN fixtures' : fixtures'[i].name \in Fixings /\ fixtures'[i].at \in Places
    BY <2>1, <2>2, <2>3, QueueAppend
  <2>5. unsaved_devices' \in Seq([name : Fixings, at : Places])
    BY <2>1, <2>2 DEF IslandTyped, LandTyped
  <2> QED BY <1>1, <2>4, <2>5 DEF IslandTyped, LandTyped
<1>4. BagTyped'
  <2>1. bag[p] \in [Soil \cup Fixings -> Nat] /\ item \in Soil \cup Fixings /\ bag[p][item] - 1 \in Nat
    BY <1>2 DEF place_entity, IslandTyped, BagTyped
  <2>2. bag' = [bag EXCEPT ![p][item] = @ - 1]
    BY DEF place_entity
  <2> QED BY <1>1, <2>1, <2>2 DEF IslandTyped, BagTyped
<1> QED BY <1>1, <1>3, <1>4 DEF IslandTyped

-----------------------------------------------------------------------------
(* What is written where: a slot is a place and what may stand there. *)
Slots == {"block", "device"} \X Places
Cell(held, slot) == IF slot[1] = "block" THEN held.blocks[slot[2]] ELSE held.devices[slot[2]]
Said(c) == [at |-> <<c.kind, c.at>>, what |-> c.what]

SaidChanges(cs)  == [i \in DOMAIN cs |-> Said(cs[i])]
SaidBlocks(es)   == [i \in DOMAIN es |-> [at |-> <<"block", es[i].at>>, what |-> es[i].material]]
SaidDevices(ds)  == [i \in DOMAIN ds |-> [at |-> <<"device", ds[i].at>>, what |-> ds[i].name]]

LEMMA SameCells ==
  ASSUME NEW held \in Held, NEW other \in Held,
         \A slot \in Slots : Cell(held, slot) = Cell(other, slot)
  PROVE  held = other
<1>1. \A v \in Places : held.blocks[v] = other.blocks[v]
  <2> TAKE v \in Places
  <2>1. <<"block", v>> \in Slots
    BY DEF Slots
  <2> QED BY <2>1 DEF Cell
<1>2. \A v \in Places : held.devices[v] = other.devices[v]
  <2> TAKE v \in Places
  <2>1. <<"device", v>> \in Slots
    BY DEF Slots
  <2> QED BY <2>1 DEF Cell
<1>3. held.blocks = other.blocks /\ held.devices = other.devices
  BY <1>1, <1>2 DEF Held
<1> QED BY <1>3 DEF Held

LEMMA PutInCells ==
  ASSUME NEW held \in Held, NEW c \in Change, NEW slot \in Slots
  PROVE  Cell(Put(held, c), slot) = IF Said(c).at = slot THEN Said(c).what ELSE Cell(held, slot)
<1>1. PICK k \in {"block", "device"}, v \in Places : slot = <<k, v>>
  BY DEF Slots
<1>2. c.at \in Places
  BY DEF Change
<1>3. CASE c.kind = "block"
  BY <1>1, <1>2, <1>3 DEF Held, Put, Cell, Said
<1>4. CASE c.kind # "block"
  <2>1. c.kind = "device"
    BY <1>4 DEF Change
  <2> QED BY <1>1, <1>2, <2>1 DEF Held, Put, Cell, Said
<1> QED BY <1>3, <1>4

LEMMA SaidAre ==
  ASSUME NEW cs, IsQueue(cs)
  PROVE  /\ IsQueue(SaidChanges(cs)) /\ Len(SaidChanges(cs)) = Len(cs)
         /\ \A i \in 1 .. Len(cs) : SaidChanges(cs)[i] = Said(cs[i])
<1>1. Len(cs) \in Nat /\ DOMAIN cs = 1 .. Len(cs)
  BY QueueIs
<1> DEFINE f == SaidChanges(cs)  n == Len(cs)
<1>2. f = [i \in 1 .. n |-> f[i]]
  BY <1>1 DEF SaidChanges
<1> HIDE DEF f
<1>3. IsQueue(f) /\ Len(f) = n
  BY <1>1, <1>2, QueueOf
<1> QED BY <1>1, <1>3 DEF f, SaidChanges

(* Changes put one after the other: of each slot the last one stays.       *)
PutAll(held, cs) == FoldLeft(Put, held, cs)

LEMMA PutAllIs ==
  ASSUME NEW held \in Held, NEW cs, IsQueue(cs), \A i \in DOMAIN cs : cs[i] \in Change
  PROVE  /\ PutAll(held, cs) \in Held
         /\ \A slot \in Slots :
              Cell(PutAll(held, cs), slot) = Latest(SaidChanges(cs), slot, Cell(held, slot))
<1> DEFINE n     == Len(cs)
           step  == [i \in 1 .. n |-> [h \in Held |-> Put(h, cs[i])]]
           Is(h) == h = [s \in SUBSET DOMAIN cs |->
                           IF s = {} THEN held ELSE Put(h[s \ {Max(s)}], cs[Max(s)])]
           h     == CHOOSE h : Is(h)
<1>1. n \in Nat /\ DOMAIN cs = 1 .. n
  BY QueueIs
<1>2. PutAll(held, cs) = h[DOMAIN cs]
  BY Zenon DEF PutAll, FoldLeft, MapThenFoldSet
<1>3. \E g : Is(g)
  <2>1. step \in [1 .. n -> [Held -> Held]]
    BY <1>1, PutIsHeld
  <2>2. PICK g \in [SUBSET (1 .. n) -> Held] : FoldsUpTo(g, n, held, step)
    <3> HIDE DEF step, n
    <3> QED BY <1>1, <2>1, FoldHasValue
  <2>3. ASSUME NEW s \in SUBSET DOMAIN cs
        PROVE  g[s] = IF s = {} THEN held ELSE Put(g[s \ {Max(s)}], cs[Max(s)])
    <3>1. s \in SUBSET (1 .. n) /\ s \ {Max(s)} \in SUBSET (1 .. n)
      BY <1>1
    <3>2. g[s] = IF s = {} THEN held ELSE step[Max(s)][g[s \ {Max(s)}]]
      <4> HIDE DEF step, n
      <4> QED BY <2>2, <3>1 DEF FoldsUpTo
    <3>3. CASE s = {}
      BY <3>2, <3>3
    <3>4. CASE s # {}
      <4>1. Max(s) \in 1 .. n
        <5> HIDE DEF n
        <5>1. Max(s) \in s
          BY <1>1, <3>1, <3>4, MaxIsThere
        <5> QED BY <3>1, <5>1
      <4>2. g[s \ {Max(s)}] \in Held
        BY <2>2, <3>1
      <4> QED BY <3>2, <3>4, <4>1, <4>2
    <3> QED BY <3>3, <3>4
  <2>4. DOMAIN g = SUBSET DOMAIN cs
    BY <1>1, <2>2
  <2>5. Is(g)
    BY <2>3, <2>4
  <2> QED BY <2>5
<1>4. Is(h)
  BY <1>3, Zenon
<1>5. \A s \in SUBSET (1 .. n) :
        h[s] = IF s = {} THEN held ELSE Put(h[s \ {Max(s)}], cs[Max(s)])
  <2> HIDE DEF h
  <2> QED BY <1>1, <1>4
<1> HIDE DEF h, Is
<1>6. h[1 .. 0] = held
  <2>1. 1 .. 0 = {} /\ {} \in SUBSET (1 .. n)
    OBVIOUS
  <2> QED BY <1>5, <2>1
<1>7. \A k \in 1 .. n : h[1 .. k] = Put(h[1 .. k - 1], cs[k])
  <2> TAKE k \in 1 .. n
  <2>1. 1 .. k \in SUBSET (1 .. n) /\ k \in Nat \ {0}
    BY <1>1
  <2>2. 1 .. k # {} /\ Max(1 .. k) = k /\ (1 .. k) \ {Max(1 .. k)} = 1 .. k - 1
    BY <2>1, UpTo
  <2>3. h[1 .. k] = IF 1 .. k = {} THEN held ELSE Put(h[(1 .. k) \ {Max(1 .. k)}], cs[Max(1 .. k)])
    BY <1>5, <2>1
  <2> QED BY <2>2, <2>3
<1> DEFINE S == {k \in 0 .. n : h[1 .. k] \in Held}
<1>8. \A k \in 0 .. n : h[1 .. k] \in Held
  <2>1. 0 \in S
    BY <1>1, <1>6
  <2>2. ASSUME NEW k \in 1 .. n, k - 1 \in S
        PROVE  k \in S
    <3>1. cs[k] \in Change /\ h[1 .. k - 1] \in Held /\ k \in 0 .. n
      BY <1>1, <2>2
    <3>2. h[1 .. k] = Put(h[1 .. k - 1], cs[k])
      BY <1>7
    <3>3. Put(h[1 .. k - 1], cs[k]) \in Held
      BY <3>1, PutIsHeld
    <3> QED BY <3>1, <3>2, <3>3
  <2> HIDE DEF S
  <2>3. \A k \in 0 .. n : k \in S
    BY <1>1, <2>1, <2>2, CountingUp
  <2> QED BY <2>3 DEF S
<1>9. ASSUME NEW slot \in Slots
      PROVE  Cell(h[1 .. n], slot) = Latest(SaidChanges(cs), slot, Cell(held, slot))
  <2> DEFINE said  == SaidChanges(cs)
             tally == [k \in 0 .. n |-> Cell(h[1 .. k], slot)]
  <2>1. IsQueue(said) /\ Len(said) = n /\ \A i \in 1 .. n : said[i] = Said(cs[i])
    BY SaidAre
  <2>2. ASSUME NEW k \in 1 .. n
        PROVE  tally[k] = IF said[k].at = slot THEN said[k].what ELSE tally[k - 1]
    <3>1. k \in 0 .. n /\ k - 1 \in 0 .. n /\ cs[k] \in Change
      BY <1>1
    <3>2. Cell(Put(h[1 .. k - 1], cs[k]), slot)
            = IF Said(cs[k]).at = slot THEN Said(cs[k]).what ELSE Cell(h[1 .. k - 1], slot)
      <4>1. h[1 .. k - 1] \in Held
        BY <1>8, <3>1
      <4> QED BY <3>1, <4>1, PutInCells
    <3>3. tally[k] = Cell(h[1 .. k], slot) /\ tally[k - 1] = Cell(h[1 .. k - 1], slot)
      BY <3>1
    <3> HIDE DEF tally, said
    <3> QED BY <1>7, <2>1, <3>2, <3>3
  <2>3. n \in 0 .. n /\ 0 \in 0 .. n
    BY <1>1
  <2>4. tally[n] = Cell(h[1 .. n], slot) /\ tally[0] = Cell(held, slot)
    BY <1>6, <2>3
  <2> HIDE DEF tally, said, n
  <2>5. \A k \in 1 .. Len(said) :
          tally[k] = IF said[k].at = slot THEN said[k].what ELSE tally[k - 1]
    BY <2>1, <2>2
  <2>6. tally[Len(said)] = Latest(said, slot, tally[0])
    BY <2>1, <2>5, LatestByStep
  <2> QED BY <2>1, <2>3, <2>4, <2>6 DEF said
<1>10. n \in 0 .. n
  BY <1>1
<1> QED BY <1>1, <1>2, <1>8, <1>9, <1>10

-----------------------------------------------------------------------------
(* What is recorded is what the shared state did not hold: of each slot    *)
(* the last of it stands in the shared state, and reaches the disk.        *)
RecordAll(held, sent, cs) == FoldLeft(Record, [held |-> held, sent |-> sent], cs)
Reaches(sent, d, held) ==
  \A slot \in Slots : Latest(SaidChanges(sent), slot, Cell(d, slot)) = Cell(held, slot)
Books == [held : Held, sent : Seq(Change)]

LEMMA RecordIs ==
  ASSUME NEW s \in Books, NEW c \in Change
  PROVE  /\ Record(s, c) \in Books
         /\ Record(s, c).held = Put(s.held, c)
         /\ Record(s, c).sent \in {s.sent, Append(s.sent, c)}
         /\ Record(s, c).sent = s.sent => Put(s.held, c) = s.held
<1>1. s.held \in Held /\ s.sent \in Seq(Change) /\ Put(s.held, c) \in Held
  BY PutIsHeld DEF Books
<1>2. CASE Put(s.held, c) = s.held
  BY <1>1, <1>2 DEF Record, Holds
<1>3. CASE Put(s.held, c) # s.held
  <2>1. Record(s, c) = [held |-> Put(s.held, c), sent |-> Append(s.sent, c)]
    BY <1>3 DEF Record, Holds
  <2>2. Append(s.sent, c) # s.sent /\ Append(s.sent, c) \in Seq(Change)
    BY <1>1
  <2> QED BY <1>1, <2>1, <2>2 DEF Books
<1> QED BY <1>2, <1>3

LEMMA SaidAppend ==
  ASSUME NEW cs, IsQueue(cs), NEW c
  PROVE  SaidChanges(Append(cs, c)) = Append(SaidChanges(cs), Said(c))
<1> DEFINE a == SaidChanges(Append(cs, c))  b == Append(SaidChanges(cs), Said(c))  n == Len(cs) + 1
<1>1. Len(cs) \in Nat /\ DOMAIN cs = 1 .. Len(cs)
  BY QueueIs
<1>2. IsQueue(Append(cs, c)) /\ DOMAIN Append(cs, c) = 1 .. n
      /\ Append(cs, c)[n] = c /\ \A i \in 1 .. Len(cs) : Append(cs, c)[i] = cs[i]
  BY <1>1, QueueAppend
<1>3. IsQueue(SaidChanges(cs)) /\ Len(SaidChanges(cs)) = Len(cs)
      /\ \A i \in 1 .. Len(cs) : SaidChanges(cs)[i] = Said(cs[i])
  BY SaidAre
<1>4. DOMAIN SaidChanges(cs) = 1 .. Len(cs)
  BY <1>1 DEF SaidChanges
<1>5. IsQueue(b) /\ Len(b) = n /\ b[n] = Said(c) /\ \A i \in 1 .. Len(cs) : b[i] = Said(cs[i])
  BY <1>3, <1>4, QueueAppend
<1>6. b = [i \in 1 .. n |-> b[i]]
  <2> HIDE DEF b, n
  <2> QED BY <1>5, QueueIs
<1>7. \A i \in 1 .. n : i = n \/ i \in 1 .. Len(cs)
  BY <1>1
<1>8. \A i \in 1 .. n : Said(Append(cs, c)[i]) = b[i]
  <2> HIDE DEF b, n
  <2> QED BY <1>2, <1>5, <1>7
<1>9. a = [i \in 1 .. n |-> Said(Append(cs, c)[i])]
  BY <1>2 DEF SaidChanges
<1> HIDE DEF a, b, n
<1>10. a = b
  BY <1>6, <1>8, <1>9
<1> QED BY <1>10 DEF a, b

LEMMA RecordReaches ==
  ASSUME NEW s \in Books, NEW c \in Change, NEW d \in Held, Reaches(s.sent, d, s.held)
  PROVE  Reaches(Record(s, c).sent, d, Record(s, c).held)
<1>1. s.held \in Held /\ IsQueue(s.sent)
  BY DEF Books, IsQueue
<1>2. /\ Record(s, c).held = Put(s.held, c)
      /\ Record(s, c).sent \in {s.sent, Append(s.sent, c)}
      /\ Record(s, c).sent = s.sent => Put(s.held, c) = s.held
  BY RecordIs
<1>3. CASE Record(s, c).sent = s.sent
  BY <1>2, <1>3
<1>4. CASE Record(s, c).sent = Append(s.sent, c)
  <2> SUFFICES ASSUME NEW slot \in Slots
               PROVE  Latest(SaidChanges(Append(s.sent, c)), slot, Cell(d, slot)) = Cell(Put(s.held, c), slot)
    BY <1>2, <1>4 DEF Reaches
  <2>1. SaidChanges(Append(s.sent, c)) = Append(SaidChanges(s.sent), Said(c))
    BY <1>1, SaidAppend
  <2>2. IsQueue(SaidChanges(s.sent))
    BY <1>1, SaidAre
  <2>3. Latest(Append(SaidChanges(s.sent), Said(c)), slot, Cell(d, slot))
          = IF Said(c).at = slot THEN Said(c).what
            ELSE Latest(SaidChanges(s.sent), slot, Cell(d, slot))
    BY <2>2, LatestOfAppend
  <2>4. Cell(Put(s.held, c), slot) = IF Said(c).at = slot THEN Said(c).what ELSE Cell(s.held, slot)
    BY <1>1, PutInCells
  <2>5. Latest(SaidChanges(s.sent), slot, Cell(d, slot)) = Cell(s.held, slot)
    BY DEF Reaches
  <2> QED BY <2>1, <2>3, <2>4, <2>5
<1> QED BY <1>2, <1>3, <1>4

LEMMA RecordAllIs ==
  ASSUME NEW held \in Held, NEW sent \in Seq(Change), NEW d \in Held, Reaches(sent, d, held),
         NEW cs, IsQueue(cs), \A i \in DOMAIN cs : cs[i] \in Change
  PROVE  /\ RecordAll(held, sent, cs) \in Books
         /\ \A slot \in Slots :
              Cell(RecordAll(held, sent, cs).held, slot)
                = Latest(SaidChanges(cs), slot, Cell(held, slot))
         /\ Reaches(RecordAll(held, sent, cs).sent, d, RecordAll(held, sent, cs).held)
<1> DEFINE n     == Len(cs)
           first == [held |-> held, sent |-> sent]
           step  == [i \in 1 .. n |-> [s \in Books |-> Record(s, cs[i])]]
           Is(h) == h = [s \in SUBSET DOMAIN cs |->
                           IF s = {} THEN first ELSE Record(h[s \ {Max(s)}], cs[Max(s)])]
           h     == CHOOSE h : Is(h)
<1>1. n \in Nat /\ DOMAIN cs = 1 .. n /\ first \in Books
  BY QueueIs DEF Books
<1>2. RecordAll(held, sent, cs) = h[DOMAIN cs]
  BY Zenon DEF RecordAll, FoldLeft, MapThenFoldSet
<1>3. \E g : Is(g)
  <2>1. step \in [1 .. n -> [Books -> Books]]
    BY <1>1, RecordIs
  <2>2. PICK g \in [SUBSET (1 .. n) -> Books] : FoldsUpTo(g, n, first, step)
    <3> HIDE DEF step, n, first
    <3> QED BY <1>1, <2>1, FoldHasValue
  <2>3. ASSUME NEW s \in SUBSET DOMAIN cs
        PROVE  g[s] = IF s = {} THEN first ELSE Record(g[s \ {Max(s)}], cs[Max(s)])
    <3>1. s \in SUBSET (1 .. n) /\ s \ {Max(s)} \in SUBSET (1 .. n)
      BY <1>1
    <3>2. g[s] = IF s = {} THEN first ELSE step[Max(s)][g[s \ {Max(s)}]]
      <4> HIDE DEF step, n, first
      <4> QED BY <2>2, <3>1 DEF FoldsUpTo
    <3>3. CASE s = {}
      BY <3>2, <3>3
    <3>4. CASE s # {}
      <4>1. Max(s) \in 1 .. n
        <5> HIDE DEF n
        <5>1. Max(s) \in s
          BY <1>1, <3>1, <3>4, MaxIsThere
        <5> QED BY <3>1, <5>1
      <4>2. g[s \ {Max(s)}] \in Books
        BY <2>2, <3>1
      <4> QED BY <3>2, <3>4, <4>1, <4>2
    <3> QED BY <3>3, <3>4
  <2>4. DOMAIN g = SUBSET DOMAIN cs
    BY <1>1, <2>2
  <2>5. Is(g)
    BY <2>3, <2>4
  <2> QED BY <2>5
<1>4. Is(h)
  BY <1>3, Zenon
<1>5. \A s \in SUBSET (1 .. n) :
        h[s] = IF s = {} THEN first ELSE Record(h[s \ {Max(s)}], cs[Max(s)])
  <2> HIDE DEF h
  <2> QED BY <1>1, <1>4
<1> HIDE DEF h, Is
<1>6. h[1 .. 0] = first
  <2>1. 1 .. 0 = {} /\ {} \in SUBSET (1 .. n)
    OBVIOUS
  <2> QED BY <1>5, <2>1
<1>7. \A k \in 1 .. n : h[1 .. k] = Record(h[1 .. k - 1], cs[k])
  <2> TAKE k \in 1 .. n
  <2>1. 1 .. k \in SUBSET (1 .. n) /\ k \in Nat \ {0}
    BY <1>1
  <2>2. 1 .. k # {} /\ Max(1 .. k) = k /\ (1 .. k) \ {Max(1 .. k)} = 1 .. k - 1
    BY <2>1, UpTo
  <2>3. h[1 .. k] = IF 1 .. k = {} THEN first
                    ELSE Record(h[(1 .. k) \ {Max(1 .. k)}], cs[Max(1 .. k)])
    BY <1>5, <2>1
  <2> HIDE DEF first, n
  <2> QED BY <2>2, <2>3
<1> DEFINE S == {k \in 0 .. n : h[1 .. k] \in Books /\ Reaches(h[1 .. k].sent, d, h[1 .. k].held)}
<1>8. \A k \in 0 .. n : h[1 .. k] \in Books /\ Reaches(h[1 .. k].sent, d, h[1 .. k].held)
  <2>1. 0 \in S
    BY <1>1, <1>6
  <2>2. ASSUME NEW k \in 1 .. n, k - 1 \in S
        PROVE  k \in S
    <3>1. /\ cs[k] \in Change /\ k \in 0 .. n /\ h[1 .. k - 1] \in Books
          /\ Reaches(h[1 .. k - 1].sent, d, h[1 .. k - 1].held)
      BY <1>1, <2>2
    <3>2. h[1 .. k] = Record(h[1 .. k - 1], cs[k])
      BY <1>7
    <3>3. Record(h[1 .. k - 1], cs[k]) \in Books
      BY <3>1, RecordIs
    <3>4. Reaches(Record(h[1 .. k - 1], cs[k]).sent, d, Record(h[1 .. k - 1], cs[k]).held)
      BY <3>1, RecordReaches
    <3> QED BY <3>1, <3>2, <3>3, <3>4
  <2> HIDE DEF S
  <2>3. \A k \in 0 .. n : k \in S
    BY <1>1, <2>1, <2>2, CountingUp
  <2> QED BY <2>3 DEF S
<1>9. ASSUME NEW slot \in Slots
      PROVE  Cell(h[1 .. n].held, slot) = Latest(SaidChanges(cs), slot, Cell(held, slot))
  <2> DEFINE said  == SaidChanges(cs)
             tally == [k \in 0 .. n |-> Cell(h[1 .. k].held, slot)]
  <2>1. IsQueue(said) /\ Len(said) = n /\ \A i \in 1 .. n : said[i] = Said(cs[i])
    BY SaidAre
  <2>2. ASSUME NEW k \in 1 .. n
        PROVE  tally[k] = IF said[k].at = slot THEN said[k].what ELSE tally[k - 1]
    <3>1. k \in 0 .. n /\ k - 1 \in 0 .. n /\ cs[k] \in Change
      BY <1>1
    <3>2. h[1 .. k - 1] \in Books /\ h[1 .. k - 1].held \in Held
      BY <1>8, <3>1 DEF Books
    <3>3. Cell(Put(h[1 .. k - 1].held, cs[k]), slot)
            = IF Said(cs[k]).at = slot THEN Said(cs[k]).what ELSE Cell(h[1 .. k - 1].held, slot)
      BY <3>1, <3>2, PutInCells
    <3>4. h[1 .. k].held = Put(h[1 .. k - 1].held, cs[k])
      <4>1. Record(h[1 .. k - 1], cs[k]).held = Put(h[1 .. k - 1].held, cs[k])
        BY <3>1, <3>2, RecordIs
      <4> QED BY <1>7, <4>1
    <3>5. tally[k] = Cell(h[1 .. k].held, slot) /\ tally[k - 1] = Cell(h[1 .. k - 1].held, slot)
      BY <3>1
    <3> HIDE DEF tally, said
    <3> QED BY <2>1, <3>3, <3>4, <3>5
  <2>3. n \in 0 .. n /\ 0 \in 0 .. n
    BY <1>1
  <2>4. tally[n] = Cell(h[1 .. n].held, slot) /\ tally[0] = Cell(held, slot)
    BY <1>6, <2>3
  <2> HIDE DEF tally, said, n
  <2>5. \A k \in 1 .. Len(said) :
          tally[k] = IF said[k].at = slot THEN said[k].what ELSE tally[k - 1]
    BY <2>1, <2>2
  <2>6. tally[Len(said)] = Latest(said, slot, tally[0])
    BY <2>1, <2>5, LatestByStep
  <2> QED BY <2>1, <2>3, <2>4, <2>6 DEF said
<1>10. n \in 0 .. n
  BY <1>1
<1> QED BY <1>1, <1>2, <1>8, <1>9, <1>10

-----------------------------------------------------------------------------
(* The devices of an island: the last one put at each place.               *)
Fittings == [Places -> Fixings \cup {Nothing}]
FixAll(held, fs) == FoldLeft(Fixed, held, fs)

LEMMA SaidDevicesAre ==
  ASSUME NEW ds, IsQueue(ds)
  PROVE  /\ IsQueue(SaidDevices(ds)) /\ Len(SaidDevices(ds)) = Len(ds)
         /\ DOMAIN SaidDevices(ds) = 1 .. Len(ds)
         /\ \A i \in 1 .. Len(ds) :
              SaidDevices(ds)[i] = [at |-> <<"device", ds[i].at>>, what |-> ds[i].name]
<1>1. Len(ds) \in Nat /\ DOMAIN ds = 1 .. Len(ds)
  BY QueueIs
<1> DEFINE f == SaidDevices(ds)  n == Len(ds)
<1>2. f = [i \in 1 .. n |-> f[i]]
  BY <1>1 DEF SaidDevices
<1> HIDE DEF f
<1>3. IsQueue(f) /\ Len(f) = n
  BY <1>1, <1>2, QueueOf
<1> QED BY <1>1, <1>3 DEF f, SaidDevices

LEMMA FixAllIs ==
  ASSUME NEW held \in Fittings, NEW fs, IsQueue(fs),
         \A i \in DOMAIN fs : fs[i].name \in Fixings /\ fs[i].at \in Places
  PROVE  /\ FixAll(held, fs) \in Fittings
         /\ \A v \in Places :
              FixAll(held, fs)[v] = Latest(SaidDevices(fs), <<"device", v>>, held[v])
<1> DEFINE n     == Len(fs)
           step  == [i \in 1 .. n |-> [h \in Fittings |-> Fixed(h, fs[i])]]
           Is(h) == h = [s \in SUBSET DOMAIN fs |->
                           IF s = {} THEN held ELSE Fixed(h[s \ {Max(s)}], fs[Max(s)])]
           h     == CHOOSE h : Is(h)
<1>1. n \in Nat /\ DOMAIN fs = 1 .. n
  BY QueueIs
<1>2. FixAll(held, fs) = h[DOMAIN fs]
  BY Zenon DEF FixAll, FoldLeft, MapThenFoldSet
<1>3. \A i \in 1 .. n : \A f \in Fittings : Fixed(f, fs[i]) \in Fittings
  BY <1>1 DEF Fixed, Fittings
<1>4. \E g : Is(g)
  <2>1. step \in [1 .. n -> [Fittings -> Fittings]]
    BY <1>3
  <2>2. PICK g \in [SUBSET (1 .. n) -> Fittings] : FoldsUpTo(g, n, held, step)
    <3> HIDE DEF step, n
    <3> QED BY <1>1, <2>1, FoldHasValue
  <2>3. ASSUME NEW s \in SUBSET DOMAIN fs
        PROVE  g[s] = IF s = {} THEN held ELSE Fixed(g[s \ {Max(s)}], fs[Max(s)])
    <3>1. s \in SUBSET (1 .. n) /\ s \ {Max(s)} \in SUBSET (1 .. n)
      BY <1>1
    <3>2. g[s] = IF s = {} THEN held ELSE step[Max(s)][g[s \ {Max(s)}]]
      <4> HIDE DEF step, n
      <4> QED BY <2>2, <3>1 DEF FoldsUpTo
    <3>3. CASE s = {}
      BY <3>2, <3>3
    <3>4. CASE s # {}
      <4>1. Max(s) \in 1 .. n
        <5> HIDE DEF n
        <5>1. Max(s) \in s
          BY <1>1, <3>1, <3>4, MaxIsThere
        <5> QED BY <3>1, <5>1
      <4>2. g[s \ {Max(s)}] \in Fittings
        BY <2>2, <3>1
      <4> QED BY <3>2, <3>4, <4>1, <4>2
    <3> QED BY <3>3, <3>4
  <2>4. DOMAIN g = SUBSET DOMAIN fs
    BY <1>1, <2>2
  <2>5. Is(g)
    BY <2>3, <2>4
  <2> QED BY <2>5
<1>5. Is(h)
  BY <1>4, Zenon
<1>6. \A s \in SUBSET (1 .. n) :
        h[s] = IF s = {} THEN held ELSE Fixed(h[s \ {Max(s)}], fs[Max(s)])
  <2> HIDE DEF h
  <2> QED BY <1>1, <1>5
<1> HIDE DEF h, Is
<1>7. h[1 .. 0] = held
  <2>1. 1 .. 0 = {} /\ {} \in SUBSET (1 .. n)
    OBVIOUS
  <2> QED BY <1>6, <2>1
<1>8. \A k \in 1 .. n : h[1 .. k] = Fixed(h[1 .. k - 1], fs[k])
  <2> TAKE k \in 1 .. n
  <2>1. 1 .. k \in SUBSET (1 .. n) /\ k \in Nat \ {0}
    BY <1>1
  <2>2. 1 .. k # {} /\ Max(1 .. k) = k /\ (1 .. k) \ {Max(1 .. k)} = 1 .. k - 1
    BY <2>1, UpTo
  <2>3. h[1 .. k] = IF 1 .. k = {} THEN held
                    ELSE Fixed(h[(1 .. k) \ {Max(1 .. k)}], fs[Max(1 .. k)])
    BY <1>6, <2>1
  <2> HIDE DEF n
  <2> QED BY <2>2, <2>3
<1> DEFINE S == {k \in 0 .. n : h[1 .. k] \in Fittings}
<1>9. \A k \in 0 .. n : h[1 .. k] \in Fittings
  <2>1. 0 \in S
    BY <1>1, <1>7
  <2>2. ASSUME NEW k \in 1 .. n, k - 1 \in S
        PROVE  k \in S
    <3>1. k \in 0 .. n /\ h[1 .. k - 1] \in Fittings
      BY <1>1, <2>2
    <3> HIDE DEF n
    <3> QED BY <1>3, <1>8, <3>1
  <2> HIDE DEF S
  <2>3. \A k \in 0 .. n : k \in S
    BY <1>1, <2>1, <2>2, CountingUp
  <2> QED BY <2>3 DEF S
<1>10. ASSUME NEW v \in Places
       PROVE  h[1 .. n][v] = Latest(SaidDevices(fs), <<"device", v>>, held[v])
  <2> DEFINE said  == SaidDevices(fs)
             tally == [k \in 0 .. n |-> h[1 .. k][v]]
  <2>1. /\ IsQueue(said) /\ Len(said) = n
        /\ \A i \in 1 .. n : said[i] = [at |-> <<"device", fs[i].at>>, what |-> fs[i].name]
    BY SaidDevicesAre
  <2>2. ASSUME NEW k \in 1 .. n
        PROVE  tally[k] = IF said[k].at = <<"device", v>> THEN said[k].what ELSE tally[k - 1]
    <3>1. k \in 0 .. n /\ k - 1 \in 0 .. n /\ fs[k].at \in Places
      BY <1>1
    <3>2. h[1 .. k - 1] \in Fittings /\ h[1 .. k] = Fixed(h[1 .. k - 1], fs[k])
      BY <1>8, <1>9, <3>1
    <3>3. h[1 .. k][v] = IF fs[k].at = v THEN fs[k].name ELSE h[1 .. k - 1][v]
      BY <3>1, <3>2 DEF Fixed, Fittings
    <3>4. tally[k] = h[1 .. k][v] /\ tally[k - 1] = h[1 .. k - 1][v]
      BY <3>1
    <3>5. /\ said[k].at = <<"device", v>> <=> fs[k].at = v
          /\ said[k].what = fs[k].name
      <4>1. said[k] = [at |-> <<"device", fs[k].at>>, what |-> fs[k].name]
        BY <2>1
      <4> HIDE DEF said, n
      <4> QED BY <4>1
    <3> HIDE DEF tally, said
    <3> QED BY <3>3, <3>4, <3>5
  <2>3. n \in 0 .. n /\ 0 \in 0 .. n
    BY <1>1
  <2>4. tally[n] = h[1 .. n][v] /\ tally[0] = held[v]
    BY <1>7, <2>3
  <2> DEFINE slot == <<"device", v>>
  <2> HIDE DEF tally, said, n, slot
  <2>5. \A k \in 1 .. Len(said) :
          tally[k] = IF said[k].at = slot THEN said[k].what ELSE tally[k - 1]
    BY <2>1, <2>2 DEF slot
  <2>6. tally[Len(said)] = Latest(said, slot, tally[0])
    BY <2>1, <2>5, LatestByStep
  <2> QED BY <2>1, <2>3, <2>4, <2>6 DEF said, slot
<1>11. n \in 0 .. n
  BY <1>1
<1> QED BY <1>1, <1>2, <1>9, <1>10, <1>11

-----------------------------------------------------------------------------
(* What the world has not drained yet. *)
LEMMA SaidBlocksAre ==
  ASSUME NEW es, IsQueue(es)
  PROVE  /\ IsQueue(SaidBlocks(es)) /\ Len(SaidBlocks(es)) = Len(es)
         /\ DOMAIN SaidBlocks(es) = 1 .. Len(es)
         /\ \A i \in 1 .. Len(es) :
              SaidBlocks(es)[i] = [at |-> <<"block", es[i].at>>, what |-> es[i].material]
<1>1. Len(es) \in Nat /\ DOMAIN es = 1 .. Len(es)
  BY QueueIs
<1> DEFINE f == SaidBlocks(es)  n == Len(es)
<1>2. f = [i \in 1 .. n |-> f[i]]
  BY <1>1 DEF SaidBlocks
<1> HIDE DEF f
<1>3. IsQueue(f) /\ Len(f) = n
  BY <1>1, <1>2, QueueOf
<1> QED BY <1>1, <1>3 DEF f, SaidBlocks

LEMMA UndrainedIs ==
  ASSUME LandTyped
  PROVE  /\ IsQueue(Undrained) /\ \A i \in DOMAIN Undrained : Undrained[i] \in Change
         /\ SaidChanges(Undrained) = SaidBlocks(unsaved) \o SaidDevices(unsaved_devices)
<1> DEFINE es == [i \in DOMAIN unsaved |-> BlockChange(unsaved[i])]
           ds == [i \in DOMAIN unsaved_devices |-> DeviceChange(unsaved_devices[i])]
           n  == Len(unsaved)
           m  == Len(unsaved_devices)
<1>1. /\ n \in Nat /\ DOMAIN unsaved = 1 .. n /\ m \in Nat /\ DOMAIN unsaved_devices = 1 .. m
      /\ IsQueue(unsaved) /\ IsQueue(unsaved_devices)
  BY DEF LandTyped, IsQueue
<1>2. ASSUME NEW i \in 1 .. n
      PROVE  es[i] \in Change /\ es[i] = BlockChange(unsaved[i])
  <2>1. es[i] = BlockChange(unsaved[i])
    BY <1>1
  <2>2. unsaved[i] \in [at : Places, material : Blocks]
    <3>1. PICK R : R = [at : Places, material : Blocks]
      OBVIOUS
    <3>2. unsaved \in Seq(R)
      BY <3>1 DEF LandTyped
    <3>3. unsaved[i] \in R
      BY <3>2
    <3> QED BY <3>1, <3>3
  <2>3. BlockChange(unsaved[i]) \in Change
    BY <2>2 DEF BlockChange, Change
  <2> QED BY <2>1, <2>3
<1>3. ASSUME NEW i \in 1 .. m
      PROVE  ds[i] \in Change /\ ds[i] = DeviceChange(unsaved_devices[i])
  <2>1. ds[i] = DeviceChange(unsaved_devices[i])
    BY <1>1
  <2>2. unsaved_devices[i] \in [name : Fixings, at : Places]
    <3>1. PICK R : R = [name : Fixings, at : Places]
      OBVIOUS
    <3>2. unsaved_devices \in Seq(R)
      BY <3>1 DEF LandTyped
    <3>3. unsaved_devices[i] \in R
      BY <3>2
    <3> QED BY <3>1, <3>3
  <2>3. DeviceChange(unsaved_devices[i]) \in Change
    BY <2>2 DEF DeviceChange, Change
  <2> QED BY <2>1, <2>3
<1>4. es = [i \in 1 .. n |-> es[i]] /\ ds = [i \in 1 .. m |-> ds[i]]
  BY <1>1
<1>5. Undrained = es \o ds
  BY DEF Undrained
<1> HIDE DEF es, ds
<1>6. IsQueue(es) /\ Len(es) = n /\ IsQueue(ds) /\ Len(ds) = m
  <2>1. IsQueue(es) /\ Len(es) = n
    BY <1>1, <1>4, QueueOf
  <2>2. IsQueue(ds) /\ Len(ds) = m
    BY <1>1, <1>4, QueueOf
  <2> QED BY <2>1, <2>2
<1> DEFINE u == es \o ds
           a == SaidChanges(u)
           b == SaidBlocks(unsaved)  c == SaidDevices(unsaved_devices)
<1>7. /\ IsQueue(u) /\ Len(u) = n + m
      /\ \A i \in 1 .. n : u[i] = es[i]
      /\ \A j \in 1 .. m : u[n + j] = ds[j]
      /\ \A i \in 1 .. n + m : i \in 1 .. n \/ \E j \in 1 .. m : i = n + j
  <2>1. /\ IsQueue(u) /\ Len(u) = Len(es) + Len(ds)
        /\ \A i \in 1 .. Len(es) : u[i] = es[i]
        /\ \A j \in 1 .. Len(ds) : u[Len(es) + j] = ds[j]
        /\ \A i \in 1 .. Len(u) : i \in 1 .. Len(es) \/ \E j \in 1 .. Len(ds) : i = Len(es) + j
    <3>1. IsQueue(es) /\ IsQueue(ds)
      BY <1>6
    <3> QED BY <3>1, QueueConcat
  <2> HIDE DEF n, m, u
  <2> QED BY <1>6, <2>1
<1>8. /\ IsQueue(b) /\ Len(b) = n
      /\ \A i \in 1 .. n : b[i] = [at |-> <<"block", unsaved[i].at>>, what |-> unsaved[i].material]
  BY <1>1, SaidBlocksAre
<1>9. /\ IsQueue(c) /\ Len(c) = m
      /\ \A j \in 1 .. m : c[j] = [at |-> <<"device", unsaved_devices[j].at>>,
                                 what |-> unsaved_devices[j].name]
  BY <1>1, SaidDevicesAre
<1>10. /\ IsQueue(a) /\ Len(a) = n + m
       /\ \A i \in 1 .. n + m : a[i] = Said(u[i])
  <2> HIDE DEF u
  <2> QED BY <1>7, SaidAre
<1> DEFINE d == b \o c
<1>11. /\ IsQueue(d) /\ Len(d) = n + m
       /\ \A i \in 1 .. n : d[i] = b[i]
       /\ \A j \in 1 .. m : d[n + j] = c[j]
  <2> HIDE DEF b, c
  <2> QED BY <1>8, <1>9, QueueConcat
<1> HIDE DEF a, b, c, d, u
<1>12. ASSUME NEW i \in 1 .. n + m
       PROVE  a[i] = d[i] /\ u[i] \in Change
  <2>1. CASE i \in 1 .. n
    <3>1. Said(BlockChange(unsaved[i])) = [at |-> <<"block", unsaved[i].at>>, what |-> unsaved[i].material]
      BY DEF Said, BlockChange
    <3>2. a[i] = Said(u[i]) /\ u[i] = es[i]
      BY <1>7, <1>10, <2>1
    <3>3. es[i] = BlockChange(unsaved[i]) /\ es[i] \in Change
      BY <1>2, <2>1
    <3> QED BY <1>8, <1>11, <2>1, <3>1, <3>2, <3>3
  <2>2. ASSUME NEW j \in 1 .. m, i = n + j
        PROVE  a[i] = d[i] /\ u[i] \in Change
    <3>1. Said(DeviceChange(unsaved_devices[j]))
            = [at |-> <<"device", unsaved_devices[j].at>>, what |-> unsaved_devices[j].name]
      BY DEF Said, DeviceChange
    <3>2. a[i] = Said(u[i]) /\ u[i] = ds[j]
      BY <1>7, <1>10, <2>2
    <3>3. ds[j] = DeviceChange(unsaved_devices[j]) /\ ds[j] \in Change
      BY <1>3
    <3> QED BY <1>9, <1>11, <2>2, <3>1, <3>2, <3>3
  <2> QED BY <1>7, <2>1, <2>2
<1>13. a = d
  <2> DEFINE k == n + m
  <2>1. a = [i \in 1 .. k |-> a[i]] /\ d = [i \in 1 .. k |-> d[i]]
    <3> HIDE DEF n, m
    <3> QED BY <1>10, <1>11, QueueIs
  <2> HIDE DEF k
  <2> QED BY <1>12, <2>1 DEF k
<1>14. DOMAIN u = 1 .. n + m
  <2> HIDE DEF n, m
  <2> QED BY <1>7, QueueIs
<1> QED BY <1>5, <1>7, <1>12, <1>13, <1>14 DEF u, a, b, c, d

-----------------------------------------------------------------------------
(* Slot by slot: what is on its way to the disk makes it the shared state, *)
(* and what is undrained makes that the island as it stands.               *)
BlocksFollow ==
  \A v \in Places : Latest(SaidBlocks(unsaved), <<"block", v>>, stored.blocks[v]) = blocks[v]
DevicesFollow ==
  \A v \in Places :
    Latest(SaidDevices(unsaved_devices), <<"device", v>>, stored.devices[v])
      = Latest(SaidDevices(fixtures), <<"device", v>>, Nothing)
WritingInv == Reaches(pipeline, disk, stored) /\ BlocksFollow /\ DevicesFollow

Stands(slot) ==
  IF slot[1] = "block" THEN blocks[slot[2]] ELSE Latest(SaidDevices(fixtures), slot, Nothing)

LEMMA QueuesTyped ==
  ASSUME LandTyped
  PROVE  IsQueue(unsaved) /\ IsQueue(unsaved_devices) /\ IsQueue(fixtures)
BY DEF LandTyped, IsQueue

LEMMA SlotsApart ==
  ASSUME NEW q, IsQueue(q), NEW v, NEW was
  PROVE  /\ Latest(SaidDevices(q), <<"block", v>>, was) = was
         /\ Latest(SaidBlocks(q), <<"device", v>>, was) = was
<1> DEFINE b == <<"block", v>>  d == <<"device", v>>
<1>1. \A i \in DOMAIN SaidDevices(q) : SaidDevices(q)[i].at # b
  BY DEF SaidDevices
<1>2. \A i \in DOMAIN SaidBlocks(q) : SaidBlocks(q)[i].at # d
  BY DEF SaidBlocks
<1> HIDE DEF b, d
<1>3. Latest(SaidDevices(q), b, was) = was
  BY <1>1, LatestOfNone
<1>4. Latest(SaidBlocks(q), d, was) = was
  BY <1>2, LatestOfNone
<1> QED BY <1>3, <1>4 DEF b, d

LEMMA UndrainedStands ==
  ASSUME LandTyped, BlocksFollow, DevicesFollow, NEW slot \in Slots
  PROVE  Latest(SaidChanges(Undrained), slot, Cell(stored, slot)) = Stands(slot)
<1>1. SaidChanges(Undrained) = SaidBlocks(unsaved) \o SaidDevices(unsaved_devices)
  BY UndrainedIs
<1>2. IsQueue(SaidBlocks(unsaved)) /\ IsQueue(SaidDevices(unsaved_devices))
  BY QueuesTyped, SaidBlocksAre, SaidDevicesAre
<1>3. Latest(SaidBlocks(unsaved) \o SaidDevices(unsaved_devices), slot, Cell(stored, slot))
        = Latest(SaidDevices(unsaved_devices), slot,
                 Latest(SaidBlocks(unsaved), slot, Cell(stored, slot)))
  BY <1>2, LatestOfConcat
<1>4. PICK k \in {"block", "device"}, v \in Places : slot = <<k, v>>
  BY DEF Slots
<1>5. CASE k = "block"
  <2>1. Cell(stored, slot) = stored.blocks[v] /\ Stands(slot) = blocks[v] /\ slot = <<"block", v>>
    BY <1>4, <1>5 DEF Cell, Stands
  <2>2. Latest(SaidBlocks(unsaved), <<"block", v>>, stored.blocks[v]) = blocks[v]
    BY DEF BlocksFollow
  <2>3. Latest(SaidDevices(unsaved_devices), <<"block", v>>, blocks[v]) = blocks[v]
    BY QueuesTyped, SlotsApart
  <2> QED BY <1>1, <1>3, <2>1, <2>2, <2>3
<1>6. CASE k = "device"
  <2>1. /\ Cell(stored, slot) = stored.devices[v] /\ slot = <<"device", v>>
        /\ Stands(slot) = Latest(SaidDevices(fixtures), <<"device", v>>, Nothing)
    BY <1>4, <1>6 DEF Cell, Stands
  <2>2. Latest(SaidBlocks(unsaved), <<"device", v>>, stored.devices[v]) = stored.devices[v]
    BY QueuesTyped, SlotsApart
  <2>3. Latest(SaidDevices(unsaved_devices), <<"device", v>>, stored.devices[v])
          = Latest(SaidDevices(fixtures), <<"device", v>>, Nothing)
    BY DEF DevicesFollow
  <2> QED BY <1>1, <1>3, <2>1, <2>2, <2>3
<1> QED BY <1>4, <1>5, <1>6

(* What is restored is what the disk holds, each place once.               *)
LEMMA RestoredAre ==
  ASSUME NEW held \in Held
  PROVE  /\ IsQueue(restore_devices(held))
         /\ \A i \in DOMAIN restore_devices(held) :
              /\ restore_devices(held)[i].name \in Fixings
              /\ restore_devices(held)[i].at \in Places
         /\ \A v \in Places :
              Latest(SaidDevices(restore_devices(held)), <<"device", v>>, Nothing) = held.devices[v]
<1> DEFINE there == {v \in Places : held.devices[v] # Nothing}
           n     == Cardinality(there)
           at(i) == CHOOSE v \in there : Cardinality({w \in there : w <= v}) = i
           r     == [i \in 1 .. n |-> [id |-> i, name |-> held.devices[at(i)], at |-> at(i)]]
<1>1. restore_devices(held) = r
  BY DEF restore_devices
<1>2. there \in SUBSET Int /\ IsFiniteSet(there) /\ n \in Nat
  <2>1. there \subseteq Places
    OBVIOUS
  <2>2. there \in SUBSET Int
    <3>1. Places \subseteq Int
      BY PlacesAre
    <3> HIDE DEF there
    <3> QED BY <2>1, <3>1
  <2>3. IsFiniteSet(there)
    <3> HIDE DEF there
    <3> QED BY <2>1, PlacesAre, FS_Subset
  <2> HIDE DEF there
  <2> QED BY <2>2, <2>3, FS_CardinalityType
<1>3. /\ \A v \in there : Rank(there, v) \in 1 .. n
      /\ \A u, v \in there : Rank(there, u) = Rank(there, v) => u = v
      /\ \A i \in 1 .. n : \E v \in there : Rank(there, v) = i
  <2> HIDE DEF there
  <2> QED BY <1>2, RanksAre
<1>4. ASSUME NEW i \in 1 .. n
      PROVE  at(i) \in there /\ Rank(there, at(i)) = i
  <2>1. \E v \in there : Cardinality({w \in there : w <= v}) = i
    <3> HIDE DEF there
    <3> QED BY <1>3 DEF Rank
  <2>2. at(i) \in there /\ Cardinality({w \in there : w <= at(i)}) = i
    <3> HIDE DEF there
    <3> QED BY <2>1
  <2> HIDE DEF there, at
  <2> QED BY <2>2 DEF Rank
<1>5. \A v \in there : at(Rank(there, v)) = v
  <2> HIDE DEF there, at, n
  <2> QED BY <1>3, <1>4
<1>6. there \subseteq Places /\ \A v \in there : held.devices[v] \in Fixings
  BY DEF Held
<1>7. /\ r = [i \in 1 .. n |-> r[i]] /\ DOMAIN r = 1 .. n
      /\ \A i \in 1 .. n : r[i].name = held.devices[at(i)] /\ r[i].at = at(i)
  <2> HIDE DEF at, n
  <2> QED OBVIOUS
<1> HIDE DEF r, at, there, n
<1>8. IsQueue(r) /\ Len(r) = n
  BY <1>2, <1>7, QueueOf
<1>9. \A i \in DOMAIN r : r[i].name \in Fixings /\ r[i].at \in Places
  BY <1>4, <1>6, <1>7
<1>10. ASSUME NEW v \in Places
       PROVE  Latest(SaidDevices(r), <<"device", v>>, Nothing) = held.devices[v]
  <2> DEFINE said == SaidDevices(r)  slot == <<"device", v>>
  <2>1. DOMAIN said = 1 .. n
        /\ \A i \in 1 .. n : said[i] = [at |-> <<"device", r[i].at>>, what |-> r[i].name]
    BY <1>8, SaidDevicesAre
  <2>2. \A i \in 1 .. n : (said[i].at = slot <=> at(i) = v) /\ said[i].what = held.devices[at(i)]
    <3> TAKE i \in 1 .. n
    <3>1. said[i] = [at |-> <<"device", at(i)>>, what |-> held.devices[at(i)]]
      BY <1>7, <2>1
    <3> HIDE DEF said
    <3> QED BY <3>1
  <2> HIDE DEF said, slot
  <2>3. CASE v \in there
    <3> DEFINE k == Rank(there, v)
    <3>1. k \in 1 .. n /\ at(k) = v /\ \A i \in 1 .. n : at(i) = v => i = k
      BY <1>3, <1>4, <1>5, <2>3
    <3> HIDE DEF k
    <3>2. {i \in DOMAIN said : said[i].at = slot} = {k}
      BY <2>1, <2>2, <3>1
    <3>3. Max({k}) = k
      <4>1. {k} \in SUBSET Int /\ k \in {k} /\ \A i \in {k} : i <= k
        BY <3>1
      <4> QED BY <4>1, MaxIs
    <3>4. {k} # {} /\ said[k].what = held.devices[v]
      BY <2>2, <3>1
    <3>5. Latest(said, slot, Nothing) = held.devices[v]
      BY <3>2, <3>3, <3>4, Zenon DEF Latest
    <3> QED BY <3>5 DEF said, slot
  <2>4. CASE v \notin there
    <3>1. held.devices[v] = Nothing
      BY <2>4 DEF there
    <3>2. \A i \in DOMAIN said : said[i].at # slot
      BY <1>4, <2>1, <2>2, <2>4
    <3>3. Latest(said, slot, Nothing) = Nothing
      BY <3>2, LatestOfNone
    <3> QED BY <3>1, <3>3 DEF said, slot
  <2> QED BY <2>3, <2>4
<1> QED BY <1>1, <1>8, <1>9, <1>10

-----------------------------------------------------------------------------
(* Every step keeps both. *)
IslandInv == IslandTyped /\ WritingInv

LEMMA LandFollows ==
  ASSUME WritingInv, UNCHANGED <<blocks, unsaved, fixtures, unsaved_devices, stored, pipeline, disk>>
  PROVE  WritingInv'
<1>1. Reaches(pipeline, disk, stored)'
  BY DEF WritingInv, Reaches
<1>2. BlocksFollow' /\ DevicesFollow'
  BY DEF WritingInv, BlocksFollow, DevicesFollow
<1> QED BY <1>1, <1>2 DEF WritingInv

(* A queue of edits, and one edit more. *)
LEMMA SaidBlocksAppend ==
  ASSUME NEW es, IsQueue(es), NEW e
  PROVE  SaidBlocks(Append(es, e))
           = Append(SaidBlocks(es), [at |-> <<"block", e.at>>, what |-> e.material])
<1> DEFINE x == [at |-> <<"block", e.at>>, what |-> e.material]
           a == SaidBlocks(Append(es, e))  b == Append(SaidBlocks(es), x)  n == Len(es) + 1
<1>1. Len(es) \in Nat /\ DOMAIN es = 1 .. Len(es)
  BY QueueIs
<1>2. DOMAIN Append(es, e) = 1 .. n /\ Append(es, e)[n] = e
      /\ \A i \in 1 .. Len(es) : Append(es, e)[i] = es[i]
  BY <1>1, QueueAppend
<1>3. IsQueue(SaidBlocks(es)) /\ Len(SaidBlocks(es)) = Len(es)
      /\ DOMAIN SaidBlocks(es) = 1 .. Len(es)
      /\ \A i \in 1 .. Len(es) : SaidBlocks(es)[i] = [at |-> <<"block", es[i].at>>, what |-> es[i].material]
  BY SaidBlocksAre
<1>4. IsQueue(b) /\ Len(b) = n /\ b[n] = x /\ \A i \in 1 .. Len(es) : b[i] = SaidBlocks(es)[i]
  <2> HIDE DEF x
  <2> QED BY <1>3, QueueAppend
<1>5. b = [i \in 1 .. n |-> b[i]]
  <2> HIDE DEF b, n
  <2> QED BY <1>4, QueueIs
<1>6. \A i \in 1 .. n : i = n \/ i \in 1 .. Len(es)
  BY <1>1
<1>7. \A i \in 1 .. n : [at |-> <<"block", Append(es, e)[i].at>>, what |-> Append(es, e)[i].material] = b[i]
  <2> HIDE DEF b, n
  <2> QED BY <1>2, <1>3, <1>4, <1>6
<1>8. a = [i \in 1 .. n |-> [at |-> <<"block", Append(es, e)[i].at>>, what |-> Append(es, e)[i].material]]
  BY <1>2 DEF SaidBlocks
<1> HIDE DEF a, b, n, x
<1>9. a = b
  BY <1>5, <1>7, <1>8
<1> QED BY <1>9 DEF a, b, x

LEMMA SaidDevicesAppend ==
  ASSUME NEW ds, IsQueue(ds), NEW d
  PROVE  SaidDevices(Append(ds, d))
           = Append(SaidDevices(ds), [at |-> <<"device", d.at>>, what |-> d.name])
<1> DEFINE x == [at |-> <<"device", d.at>>, what |-> d.name]
           a == SaidDevices(Append(ds, d))  b == Append(SaidDevices(ds), x)  n == Len(ds) + 1
<1>1. Len(ds) \in Nat /\ DOMAIN ds = 1 .. Len(ds)
  BY QueueIs
<1>2. DOMAIN Append(ds, d) = 1 .. n /\ Append(ds, d)[n] = d
      /\ \A i \in 1 .. Len(ds) : Append(ds, d)[i] = ds[i]
  BY <1>1, QueueAppend
<1>3. IsQueue(SaidDevices(ds)) /\ Len(SaidDevices(ds)) = Len(ds)
      /\ DOMAIN SaidDevices(ds) = 1 .. Len(ds)
      /\ \A i \in 1 .. Len(ds) : SaidDevices(ds)[i] = [at |-> <<"device", ds[i].at>>, what |-> ds[i].name]
  BY SaidDevicesAre
<1>4. IsQueue(b) /\ Len(b) = n /\ b[n] = x /\ \A i \in 1 .. Len(ds) : b[i] = SaidDevices(ds)[i]
  <2> HIDE DEF x
  <2> QED BY <1>3, QueueAppend
<1>5. b = [i \in 1 .. n |-> b[i]]
  <2> HIDE DEF b, n
  <2> QED BY <1>4, QueueIs
<1>6. \A i \in 1 .. n : i = n \/ i \in 1 .. Len(ds)
  BY <1>1
<1>7. \A i \in 1 .. n : [at |-> <<"device", Append(ds, d)[i].at>>, what |-> Append(ds, d)[i].name] = b[i]
  <2> HIDE DEF b, n
  <2> QED BY <1>2, <1>3, <1>4, <1>6
<1>8. a = [i \in 1 .. n |-> [at |-> <<"device", Append(ds, d)[i].at>>, what |-> Append(ds, d)[i].name]]
  BY <1>2 DEF SaidDevices
<1> HIDE DEF a, b, n, x
<1>9. a = b
  BY <1>5, <1>7, <1>8
<1> QED BY <1>9 DEF a, b, x

LEMMA BlockFollows ==
  ASSUME LandTyped, BlocksFollow, NEW v \in Places, NEW m, set_block(v, m), stored' = stored
  PROVE  BlocksFollow'
<1> SUFFICES ASSUME NEW u \in Places
             PROVE  Latest(SaidBlocks(unsaved'), <<"block", u>>, stored.blocks[u]) = blocks'[u]
  BY DEF BlocksFollow
<1> DEFINE e == [at |-> v, material |-> m]
           x == [at |-> <<"block", e.at>>, what |-> e.material]
           slot == <<"block", u>>
<1>1. unsaved' = Append(unsaved, e) /\ blocks'[u] = IF v = u THEN m ELSE blocks[u]
  BY DEF set_block, Queued, LandTyped
<1>2. SaidBlocks(Append(unsaved, e)) = Append(SaidBlocks(unsaved), x)
  <2> HIDE DEF e
  <2> QED BY QueuesTyped, SaidBlocksAppend
<1>3. (x.at = slot <=> v = u) /\ x.what = m
  OBVIOUS
<1>4. Latest(SaidBlocks(unsaved), slot, stored.blocks[u]) = blocks[u]
  BY DEF BlocksFollow
<1> HIDE DEF x, slot, e
<1>5. Latest(Append(SaidBlocks(unsaved), x), slot, stored.blocks[u])
        = IF x.at = slot THEN x.what ELSE Latest(SaidBlocks(unsaved), slot, stored.blocks[u])
  <2>1. IsQueue(SaidBlocks(unsaved))
    BY QueuesTyped, SaidBlocksAre
  <2> QED BY <2>1, LatestOfAppend
<1>6. Latest(SaidBlocks(unsaved'), slot, stored.blocks[u]) = blocks'[u]
  BY <1>1, <1>2, <1>3, <1>4, <1>5
<1> QED BY <1>6 DEF slot

LEMMA VoxelActionsWritten ==
  ASSUME IslandInv, NEW p \in Players, NEW v \in Voxels, NEW d \in Towards,
         NEW item \in Soil \cup Fixings \cup {Nothing}, PerformVoxelActions(p, v, d, item)
  PROVE  WritingInv'
<1>1. UNCHANGED <<fixtures, unsaved_devices, stored, pipeline, disk>>
  BY DEF PerformVoxelActions, store_vars
<1>2. CASE UNCHANGED <<blocks, unsaved>>
  BY <1>1, <1>2, LandFollows DEF IslandInv
<1>3. ASSUME NEW u \in Places, NEW m, set_block(u, m)
      PROVE  WritingInv'
  <2>1. BlocksFollow'
    BY <1>1, <1>3, BlockFollows DEF IslandInv, IslandTyped, WritingInv
  <2>2. Reaches(pipeline, disk, stored)' /\ DevicesFollow'
    BY <1>1 DEF IslandInv, WritingInv, Reaches, DevicesFollow
  <2> QED BY <2>1, <2>2 DEF WritingInv
<1>4. v \in Places /\ placement_voxel(v, d) \in Places
  BY PlacesAre
<1>5. CASE PlaceBlock(p, v, d, item)
  BY <1>3, <1>4, <1>5 DEF PlaceBlock
<1>6. CASE dig(p, v)
  BY <1>2, <1>3, <1>4, <1>6 DEF dig, Breaks
<1> QED BY <1>5, <1>6 DEF PerformVoxelActions

LEMMA PlaceEntityWritten ==
  ASSUME IslandInv, NEW p \in Players, NEW v \in Voxels, NEW d \in Towards,
         NEW item \in Soil \cup Fixings \cup {Nothing}, place_entity(p, v, d, item)
  PROVE  WritingInv'
<1>1. UNCHANGED <<blocks, unsaved, stored, pipeline, disk>>
  BY DEF place_entity, store_vars
<1>2. Reaches(pipeline, disk, stored)' /\ BlocksFollow'
  BY <1>1 DEF IslandInv, WritingInv, Reaches, BlocksFollow
<1>3. PICK f, e : /\ fixtures' = Append(fixtures, f) /\ unsaved_devices' = Append(unsaved_devices, e)
                  /\ f.at = e.at /\ f.name = e.name
  BY DEF place_entity
<1>4. ASSUME NEW u \in Places
      PROVE  Latest(SaidDevices(unsaved_devices'), <<"device", u>>, stored.devices[u])
               = Latest(SaidDevices(fixtures'), <<"device", u>>, Nothing)
  <2> DEFINE x == [at |-> <<"device", e.at>>, what |-> e.name]
             y == [at |-> <<"device", f.at>>, what |-> f.name]
             slot == <<"device", u>>
  <2>1. /\ IsQueue(fixtures) /\ IsQueue(unsaved_devices)
        /\ IsQueue(SaidDevices(fixtures)) /\ IsQueue(SaidDevices(unsaved_devices))
    BY QueuesTyped, SaidDevicesAre DEF IslandInv, IslandTyped
  <2>2. SaidDevices(Append(unsaved_devices, e)) = Append(SaidDevices(unsaved_devices), x)
    BY <2>1, SaidDevicesAppend
  <2>3. SaidDevices(Append(fixtures, f)) = Append(SaidDevices(fixtures), y)
    BY <2>1, SaidDevicesAppend
  <2>4. x = y
    BY <1>3
  <2>5. Latest(SaidDevices(unsaved_devices), slot, stored.devices[u])
          = Latest(SaidDevices(fixtures), slot, Nothing)
    BY DEF IslandInv, WritingInv, DevicesFollow
  <2> HIDE DEF x, y, slot
  <2>6. Latest(Append(SaidDevices(unsaved_devices), x), slot, stored.devices[u])
          = IF x.at = slot THEN x.what ELSE Latest(SaidDevices(unsaved_devices), slot, stored.devices[u])
    BY <2>1, LatestOfAppend
  <2>7. Latest(Append(SaidDevices(fixtures), y), slot, Nothing)
          = IF y.at = slot THEN y.what ELSE Latest(SaidDevices(fixtures), slot, Nothing)
    BY <2>1, LatestOfAppend
  <2>8. Latest(SaidDevices(unsaved_devices'), slot, stored.devices[u])
          = Latest(SaidDevices(fixtures'), slot, Nothing)
    BY <1>3, <2>2, <2>3, <2>4, <2>5, <2>6, <2>7
  <2> QED BY <2>8 DEF slot
<1>5. DevicesFollow'
  BY <1>1, <1>4 DEF DevicesFollow
<1> QED BY <1>2, <1>5 DEF WritingInv

LEMMA RecordIslandInv ==
  ASSUME IslandInv, RecordIsland
  PROVE  IslandInv'
<1>1. /\ LandTyped /\ stored \in Held /\ disk \in Held /\ pipeline \in Seq(Change)
      /\ Reaches(pipeline, disk, stored) /\ BlocksFollow /\ DevicesFollow
  BY DEF IslandInv, IslandTyped, StoreTyped, WritingInv
<1>2. IsQueue(Undrained) /\ \A i \in DOMAIN Undrained : Undrained[i] \in Change
  BY <1>1, UndrainedIs
<1>3. Recorded = RecordAll(stored, pipeline, Undrained)
  BY Zenon DEF Recorded, RecordAll
<1>4. /\ Recorded \in Books
      /\ \A slot \in Slots :
           Cell(Recorded.held, slot) = Latest(SaidChanges(Undrained), slot, Cell(stored, slot))
      /\ Reaches(Recorded.sent, disk, Recorded.held)
  BY <1>1, <1>2, <1>3, RecordAllIs
<1>5. /\ stored' = Recorded.held /\ pipeline' = Recorded.sent
      /\ unsaved' = <<>> /\ unsaved_devices' = <<>>
      /\ UNCHANGED <<blocks, fixtures, floor, bag, disk, restarts, load>>
  BY DEF RecordIsland
<1>6. stored' \in Held /\ pipeline' \in Seq(Change)
  BY <1>4, <1>5 DEF Books
<1>7. IslandTyped'
  <2>1. LandTyped' /\ BagTyped'
    BY <1>5 DEF IslandInv, IslandTyped, LandTyped, BagTyped
  <2>2. StoreTyped'
    BY <1>5, <1>6 DEF IslandInv, IslandTyped, StoreTyped
  <2> QED BY <2>1, <2>2 DEF IslandTyped
<1>8. Reaches(pipeline, disk, stored)'
  BY <1>4, <1>5 DEF Reaches
<1>9. \A slot \in Slots : Cell(stored', slot) = Stands(slot)
  BY <1>1, <1>4, <1>5, UndrainedStands
<1>10. SaidBlocks(<<>>) = <<>> /\ SaidDevices(<<>>) = <<>>
  BY DEF SaidBlocks, SaidDevices
<1>11. ASSUME NEW v \in Places
       PROVE  /\ Latest(SaidBlocks(unsaved'), <<"block", v>>, stored'.blocks[v]) = blocks'[v]
              /\ Latest(SaidDevices(unsaved_devices'), <<"device", v>>, stored'.devices[v])
                   = Latest(SaidDevices(fixtures'), <<"device", v>>, Nothing)
  <2>1. <<"block", v>> \in Slots /\ <<"device", v>> \in Slots
    BY DEF Slots
  <2>2. stored'.blocks[v] = blocks[v]
    BY <1>9, <2>1 DEF Cell, Stands
  <2>3. stored'.devices[v] = Latest(SaidDevices(fixtures), <<"device", v>>, Nothing)
    BY <1>9, <2>1 DEF Cell, Stands
  <2>4. /\ Latest(<<>>, <<"block", v>>, stored'.blocks[v]) = stored'.blocks[v]
        /\ Latest(<<>>, <<"device", v>>, stored'.devices[v]) = stored'.devices[v]
    BY LatestOfNothing
  <2>5. Latest(SaidBlocks(unsaved'), <<"block", v>>, stored'.blocks[v]) = blocks'[v]
    BY Zenon, <1>5, <1>10, <2>2, <2>4
  <2>6. Latest(SaidDevices(unsaved_devices'), <<"device", v>>, stored'.devices[v])
          = Latest(SaidDevices(fixtures'), <<"device", v>>, Nothing)
    BY Zenon, <1>5, <1>10, <2>3, <2>4
  <2> QED BY <2>5, <2>6
<1>12. BlocksFollow' /\ DevicesFollow'
  BY <1>11 DEF BlocksFollow, DevicesFollow
<1> QED BY <1>7, <1>8, <1>12 DEF IslandInv, WritingInv

LEMMA SaveChangeInv ==
  ASSUME IslandInv, SaveChange
  PROVE  IslandInv'
<1>1. /\ disk \in Held /\ pipeline \in Seq(Change) /\ pipeline # <<>>
      /\ disk' = Put(disk, Head(pipeline)) /\ pipeline' = Tail(pipeline)
      /\ UNCHANGED <<blocks, unsaved, fixtures, unsaved_devices, floor, bag, load, stored, restarts>>
  BY DEF SaveChange, land_vars, IslandInv, IslandTyped, StoreTyped
<1> DEFINE c == Head(pipeline)
<1>2. c \in Change /\ Tail(pipeline) \in Seq(Change) /\ IsQueue(pipeline)
  BY <1>1 DEF IsQueue
<1>3. disk' \in Held
  <2> HIDE DEF c
  <2>1. Put(disk, c) \in Held
    BY <1>1, <1>2, PutIsHeld
  <2> QED BY <1>1, <2>1 DEF c
<1>4. IslandTyped'
  <2>1. LandTyped' /\ BagTyped'
    BY <1>1 DEF IslandInv, IslandTyped, LandTyped, BagTyped
  <2>2. StoreTyped'
    BY <1>1, <1>2, <1>3 DEF IslandInv, IslandTyped, StoreTyped
  <2> QED BY <2>1, <2>2 DEF IslandTyped
<1>5. ASSUME NEW slot \in Slots
      PROVE  Latest(SaidChanges(pipeline'), slot, Cell(disk', slot)) = Cell(stored', slot)
  <2> DEFINE said == SaidChanges(pipeline)
  <2>1. Latest(said, slot, Cell(disk, slot)) = Cell(stored, slot)
    BY DEF IslandInv, WritingInv, Reaches
  <2>2. /\ IsQueue(said) /\ Len(said) = Len(pipeline)
        /\ \A i \in 1 .. Len(pipeline) : said[i] = Said(pipeline[i])
    BY <1>2, SaidAre
  <2>3. said # <<>> /\ Head(said) = Said(c) /\ Tail(said) = SaidChanges(Tail(pipeline))
    <3>1. Len(pipeline) \in Nat /\ Len(pipeline) >= 1 /\ c = pipeline[1]
          /\ IsQueue(Tail(pipeline)) /\ Len(Tail(pipeline)) = Len(pipeline) - 1
          /\ \A i \in 1 .. Len(Tail(pipeline)) :
               Tail(pipeline)[i] = pipeline[i + 1] /\ i + 1 \in 1 .. Len(pipeline)
      BY <1>1, <1>2, QueueTail
    <3>2. said # <<>>
      <4> HIDE DEF said
      <4> QED BY <2>2, <3>1
    <3> DEFINE a == Tail(said)  b == SaidChanges(Tail(pipeline))  n == Len(pipeline) - 1
    <3>3. /\ IsQueue(a) /\ Len(a) = n /\ Head(said) = said[1]
          /\ \A i \in 1 .. n : a[i] = said[i + 1] /\ i + 1 \in 1 .. Len(pipeline)
      <4> HIDE DEF said, c
      <4> QED BY <2>2, <3>1, <3>2, QueueTail
    <3>4. /\ IsQueue(b) /\ Len(b) = n
          /\ \A i \in 1 .. n : b[i] = Said(Tail(pipeline)[i])
      <4>1. /\ IsQueue(b) /\ Len(b) = Len(Tail(pipeline))
            /\ \A i \in 1 .. Len(Tail(pipeline)) : b[i] = Said(Tail(pipeline)[i])
        BY <3>1, SaidAre
      <4> HIDE DEF b
      <4> QED BY <3>1, <4>1
    <3>5. \A i \in 1 .. n : a[i] = b[i]
      <4> HIDE DEF a, b, said, c
      <4> QED BY <2>2, <3>1, <3>3, <3>4
    <3>6. a = [i \in 1 .. n |-> a[i]] /\ b = [i \in 1 .. n |-> b[i]]
      <4> HIDE DEF a, b, n
      <4> QED BY <3>3, <3>4, QueueIs
    <3> HIDE DEF a, b, n, said, c
    <3>7. a = b
      BY <3>5, <3>6
    <3>8. Head(said) = Said(c)
      BY <2>2, <3>1, <3>3
    <3> QED BY <3>2, <3>7, <3>8 DEF a, b
  <2> HIDE DEF said, c
  <2>4. Latest(said, slot, Cell(disk, slot))
          = Latest(Tail(said), slot, IF Head(said).at = slot THEN Head(said).what ELSE Cell(disk, slot))
    BY <2>2, <2>3, LatestOfTail
  <2>5. Cell(Put(disk, c), slot) = IF Said(c).at = slot THEN Said(c).what ELSE Cell(disk, slot)
    BY <1>1, <1>2, PutInCells
  <2>6. disk' = Put(disk, c) /\ pipeline' = Tail(pipeline) /\ stored' = stored
    BY <1>1 DEF c
  <2> QED BY <2>1, <2>3, <2>4, <2>5, <2>6
<1>6. Reaches(pipeline, disk, stored)'
  BY <1>5 DEF Reaches
<1>7. BlocksFollow' /\ DevicesFollow'
  BY <1>1 DEF IslandInv, WritingInv, BlocksFollow, DevicesFollow
<1> QED BY <1>4, <1>6, <1>7 DEF IslandInv, WritingInv

LEMMA RestartInv ==
  ASSUME IslandInv, Restart
  PROVE  IslandInv'
<1>1. /\ stored' = disk /\ pipeline' = <<>> /\ blocks' = disk.blocks
      /\ fixtures' = restore_devices(disk) /\ unsaved' = <<>> /\ unsaved_devices' = <<>>
      /\ floor' = [m \in Soil |-> 0] /\ restarts' = restarts + 1
      /\ UNCHANGED <<bag, disk, load>>
  BY DEF Restart
<1>2. disk \in Held
  BY DEF IslandInv, IslandTyped, StoreTyped
<1>3. /\ IsQueue(fixtures')
      /\ \A i \in DOMAIN fixtures' : fixtures'[i].name \in Fixings /\ fixtures'[i].at \in Places
      /\ \A v \in Places : Latest(SaidDevices(fixtures'), <<"device", v>>, Nothing) = disk.devices[v]
  BY <1>1, <1>2, RestoredAre
<1>4. LandTyped'
  <2>1. blocks' \in [Places -> Blocks \cup {Kept}] /\ floor' \in [Soil -> Nat]
    BY <1>1, <1>2 DEF Held
  <2> QED BY <1>1, <1>3, <2>1 DEF LandTyped
<1>5. BagTyped' /\ StoreTyped'
  BY <1>1, <1>2 DEF IslandInv, IslandTyped, BagTyped, StoreTyped
<1>6. SaidBlocks(<<>>) = <<>> /\ SaidDevices(<<>>) = <<>> /\ SaidChanges(<<>>) = <<>>
  BY DEF SaidBlocks, SaidDevices, SaidChanges
<1>7. Reaches(pipeline, disk, stored)'
  <2>1. \A slot \in Slots : Latest(<<>>, slot, Cell(disk, slot)) = Cell(disk, slot)
    BY LatestOfNothing
  <2> QED BY Zenon, <1>1, <1>6, <2>1 DEF Reaches
<1>8. ASSUME NEW v \in Places
      PROVE  /\ Latest(SaidBlocks(unsaved'), <<"block", v>>, stored'.blocks[v]) = blocks'[v]
             /\ Latest(SaidDevices(unsaved_devices'), <<"device", v>>, stored'.devices[v])
                  = Latest(SaidDevices(fixtures'), <<"device", v>>, Nothing)
  <2>1. /\ Latest(<<>>, <<"block", v>>, stored'.blocks[v]) = stored'.blocks[v]
        /\ Latest(<<>>, <<"device", v>>, stored'.devices[v]) = stored'.devices[v]
    BY LatestOfNothing
  <2>2. stored'.blocks[v] = blocks'[v]
    BY <1>1
  <2>3. stored'.devices[v] = Latest(SaidDevices(fixtures'), <<"device", v>>, Nothing)
    BY <1>1, <1>3
  <2>4. Latest(SaidBlocks(unsaved'), <<"block", v>>, stored'.blocks[v]) = blocks'[v]
    BY Zenon, <1>1, <1>6, <2>1, <2>2
  <2>5. Latest(SaidDevices(unsaved_devices'), <<"device", v>>, stored'.devices[v])
          = Latest(SaidDevices(fixtures'), <<"device", v>>, Nothing)
    BY Zenon, <1>1, <1>6, <2>1, <2>3
  <2> QED BY <2>4, <2>5
<1>9. BlocksFollow' /\ DevicesFollow'
  BY <1>8 DEF BlocksFollow, DevicesFollow
<1> QED BY <1>4, <1>5, <1>7, <1>9 DEF IslandInv, IslandTyped, WritingInv

LEMMA InitFollows == IslandInit => IslandInv
<1> SUFFICES ASSUME IslandInit PROVE WritingInv
  BY IslandInitTyped DEF IslandInv
<1>1. /\ blocks = Empty.blocks /\ unsaved = <<>> /\ fixtures = <<>> /\ unsaved_devices = <<>>
      /\ stored = Empty /\ pipeline = <<>> /\ disk = Empty
  BY DEF IslandInit
<1>2. SaidBlocks(<<>>) = <<>> /\ SaidDevices(<<>>) = <<>> /\ SaidChanges(<<>>) = <<>>
  BY DEF SaidBlocks, SaidDevices, SaidChanges
<1>3. \A slot, was : Latest(<<>>, slot, was) = was
  BY LatestOfNothing
<1>4. Reaches(pipeline, disk, stored)
  BY Zenon, <1>1, <1>2, <1>3 DEF Reaches
<1>5. \A v \in Places : Empty.blocks[v] = Kept /\ Empty.devices[v] = Nothing
  BY DEF Empty
<1>6. BlocksFollow
  BY Zenon, <1>1, <1>2, <1>3 DEF BlocksFollow
<1>7. DevicesFollow
  BY Zenon, <1>1, <1>2, <1>3, <1>5 DEF DevicesFollow
<1> QED BY <1>4, <1>6, <1>7 DEF WritingInv

LEMMA NextKeeps == IslandInv /\ [IslandNext]_island_vars => IslandInv'
<1> SUFFICES ASSUME IslandInv, [IslandNext]_island_vars PROVE IslandInv'
  OBVIOUS
<1>1. ASSUME UNCHANGED <<land_vars, bag, load, stored, pipeline, disk, restarts>>
      PROVE  IslandInv'
  <2>1. IslandTyped'
    BY <1>1 DEF land_vars, IslandInv, IslandTyped, LandTyped, BagTyped, StoreTyped
  <2>2. WritingInv'
    BY <1>1, LandFollows DEF IslandInv, land_vars
  <2> QED BY <2>1, <2>2 DEF IslandInv
<1>2. ASSUME NEW p \in Players, EnterWorld(p) \/ LeaveWorld(p) \/ ClosePanel(p)
      PROVE  IslandInv'
  BY <1>1, <1>2 DEF EnterWorld, LeaveWorld, ClosePanel, store_vars
<1>3. ASSUME NEW p \in Players, NEW target, Interact(p, target)
      PROVE  IslandInv'
  BY <1>1, <1>3 DEF Interact, store_vars
<1>4. ASSUME NEW p \in Players, NEW v \in Voxels, NEW d \in Towards,
             NEW item \in Soil \cup Fixings \cup {Nothing},
             PerformVoxelActions(p, v, d, item) \/ place_entity(p, v, d, item)
      PROVE  IslandInv'
  BY <1>4, VoxelActionsTyped, VoxelActionsWritten, PlaceEntityTyped, PlaceEntityWritten DEF IslandInv
<1>5. ASSUME NEW p \in Players, NEW item \in Soil, Collects(p, item)
      PROVE  IslandInv'
  <2>1. IslandTyped'
    BY <1>5, CollectsTyped DEF IslandInv
  <2>2. WritingInv'
    BY <1>5, LandFollows DEF IslandInv, Collects, store_vars
  <2> QED BY <2>1, <2>2 DEF IslandInv
<1>6. CASE UNCHANGED island_vars
  BY <1>1, <1>6 DEF island_vars, store_vars
<1> QED
  BY <1>2, <1>3, <1>4, <1>5, <1>6, RecordIslandInv, SaveChangeInv, RestartInv DEF IslandNext

LEMMA InvKept == IslandSpec => []IslandInv
BY InitFollows, NextKeeps, PTL DEF IslandSpec

(* Slots that agree are an island that agrees. *)
LEMMA WrittenDown == IslandInv => IslandIsWrittenDown
<1> SUFFICES ASSUME IslandInv PROVE IslandIsWrittenDown
  OBVIOUS
<1>1. /\ LandTyped /\ stored \in Held /\ disk \in Held /\ pipeline \in Seq(Change)
      /\ Reaches(pipeline, disk, stored) /\ BlocksFollow /\ DevicesFollow
  BY DEF IslandInv, IslandTyped, StoreTyped, WritingInv
<1>2. PutAll(disk, pipeline) = stored
  <2>1. IsQueue(pipeline) /\ \A i \in DOMAIN pipeline : pipeline[i] \in Change
    BY <1>1 DEF IsQueue
  <2>2. /\ PutAll(disk, pipeline) \in Held
        /\ \A slot \in Slots :
             Cell(PutAll(disk, pipeline), slot) = Latest(SaidChanges(pipeline), slot, Cell(disk, slot))
    BY <1>1, <2>1, PutAllIs
  <2>3. \A slot \in Slots : Cell(PutAll(disk, pipeline), slot) = Cell(stored, slot)
    BY <1>1, <2>2 DEF Reaches
  <2> QED BY <1>1, <2>2, <2>3, SameCells
<1> DEFINE written == PutAll(stored, Undrained)
<1>3. written \in Held /\ \A slot \in Slots : Cell(written, slot) = Stands(slot)
  <2>1. IsQueue(Undrained) /\ \A i \in DOMAIN Undrained : Undrained[i] \in Change
    BY <1>1, UndrainedIs
  <2>2. /\ written \in Held
        /\ \A slot \in Slots :
             Cell(written, slot) = Latest(SaidChanges(Undrained), slot, Cell(stored, slot))
    BY <1>1, <2>1, PutAllIs
  <2> HIDE DEF written
  <2> QED BY <1>1, <2>2, UndrainedStands
<1> HIDE DEF written
<1>4. \A v \in Places : <<"block", v>> \in Slots /\ <<"device", v>> \in Slots
  BY DEF Slots
<1>5. written.blocks = blocks
  <2>1. \A v \in Places : written.blocks[v] = blocks[v]
    BY <1>3, <1>4 DEF Cell, Stands
  <2>2. written.blocks \in [Places -> Blocks \cup {Kept}] /\ blocks \in [Places -> Blocks \cup {Kept}]
    BY <1>1, <1>3 DEF Held, LandTyped
  <2> QED BY <2>1, <2>2
<1>6. written.devices = FixAll(Empty.devices, fixtures)
  <2>1. Empty.devices \in Fittings /\ \A v \in Places : Empty.devices[v] = Nothing
    BY DEF Empty, Fittings
  <2>2. IsQueue(fixtures) /\ \A i \in DOMAIN fixtures : fixtures[i].name \in Fixings /\ fixtures[i].at \in Places
    BY <1>1 DEF LandTyped
  <2>3. /\ FixAll(Empty.devices, fixtures) \in Fittings
        /\ \A v \in Places : FixAll(Empty.devices, fixtures)[v]
              = Latest(SaidDevices(fixtures), <<"device", v>>, Empty.devices[v])
    BY <2>1, <2>2, FixAllIs
  <2>4. \A v \in Places : written.devices[v] = Latest(SaidDevices(fixtures), <<"device", v>>, Nothing)
    BY <1>3, <1>4 DEF Cell, Stands
  <2>5. written.devices \in Fittings
    BY <1>3 DEF Held, Fittings
  <2>6. \A v \in Places : FixAll(Empty.devices, fixtures)[v] = written.devices[v]
    BY <2>1, <2>3, <2>4
  <2> QED BY <2>3, <2>5, <2>6 DEF Fittings
<1>7. FoldLeft(Put, disk, pipeline) = stored
  BY Zenon, <1>2 DEF PutAll
<1>8. FoldLeft(Put, FoldLeft(Put, disk, pipeline), Undrained) = written
  BY Zenon, <1>2 DEF PutAll, written
<1>9. FoldLeft(Fixed, Empty.devices, fixtures) = FixAll(Empty.devices, fixtures)
  BY Zenon DEF FixAll
<1> QED BY Zenon, <1>5, <1>6, <1>7, <1>8, <1>9 DEF IslandIsWrittenDown

(* What is on the disk, on its way there and not drained yet is the island *)
(* as it stands, through every interleaving of edits, ticks, writes and    *)
(* restarts (state/lib.rs record_block and record_device, server.rs        *)
(* drain, store's save_block and save_device, main.rs restore).            *)
THEOREM WrittenDownAlways == IslandSpec => []IslandIsWrittenDown
BY InvKept, WrittenDown, PTL

-----------------------------------------------------------------------------
(* Nothing is had twice: what stands, lies and is carried of a block.      *)
Had(m)    == Standing(m) + Carried(m) + floor[m]
ThereWas(m) ==
  Cardinality({v \in Voxels : Ground[v] = m}) + load[m] * Cardinality(Players)

LEMMA HadTyped ==
  ASSUME IslandTyped, NEW m \in Soil
  PROVE  Standing(m) \in Nat /\ Carried(m) \in Nat /\ floor[m] \in Nat
<1>1. Standing(m) \in Nat
  <2> DEFINE A == {v \in Places : block_at(v) = m}
  <2>1. A \subseteq Places
    OBVIOUS
  <2> HIDE DEF A
  <2>2. Cardinality(A) \in Nat
    BY <2>1, PlacesAre, FS_Subset, FS_CardinalityType
  <2> QED BY <2>2 DEF Standing, A
<1>2. [p \in Players |-> bag[p][m]] \in [Players -> Nat] /\ IsFiniteSet(Players)
  BY IslandAssumption DEF IslandTyped, BagTyped
<1>3. Carried(m) \in Nat
  BY <1>2, SumIsNat DEF Carried
<1> QED BY <1>1, <1>3 DEF IslandTyped, LandTyped

HadIsTyped == \A m \in Soil : Standing(m) \in Nat /\ Carried(m) \in Nat /\ floor[m] \in Nat

LEMMA HadTypes == IslandTyped => HadIsTyped
BY HadTyped DEF HadIsTyped

LEMMA HadTypesNext == IslandTyped' => HadIsTyped'
BY HadTypes, PTL

LEMMA HadTypedNext ==
  ASSUME IslandTyped', NEW m \in Soil
  PROVE  Standing(m)' \in Nat /\ Carried(m)' \in Nat /\ floor'[m] \in Nat
BY HadTypesNext DEF HadIsTyped

(* A block in a place is one more of its kind there, and one less of what  *)
(* was there.                                                              *)
LEMMA OneBlock ==
  ASSUME LandTyped, NEW v \in Places, NEW x \in Blocks, set_block(v, x), NEW m \in Soil
  PROVE  /\ x = m => Standing(m)' <= Standing(m) + 1
         /\ x # m => Standing(m)' <= Standing(m)
         /\ x # m /\ block_at(v) = m => Standing(m)' = Standing(m) - 1
<1> DEFINE A == {u \in Places : block_at(u) = m}
           B == {u \in Places : block_at(u)' = m}
<1>1. Kept \notin Blocks /\ m \in Blocks
  BY IslandAssumption DEF Blocks, Kept
<1>2. \A u \in Places : block_at(u)' = IF u = v THEN x ELSE block_at(u)
  BY <1>1 DEF LandTyped, set_block, block_at, material_at
<1>3. Standing(m) = Cardinality(A) /\ Standing(m)' = Cardinality(B)
  BY DEF Standing
<1>4. A \subseteq Places
  OBVIOUS
<1>5. CASE x = m
  <2>1. B = A \cup {v}
    BY <1>2, <1>5
  <2> HIDE DEF A, B
  <2>2. IsFiniteSet(A)
    BY <1>4, PlacesAre, FS_Subset
  <2>3. Cardinality(A) \in Nat /\ Cardinality(B) <= Cardinality(A) + 1
    <3>1. Cardinality(A) \in Nat
      BY <2>2, FS_CardinalityType
    <3>2. Cardinality(A \cup {v}) = IF v \in A THEN Cardinality(A) ELSE Cardinality(A) + 1
      BY <2>2, FS_AddElement
    <3> QED BY <2>1, <3>1, <3>2
  <2> QED BY <1>3, <1>5, <2>3
<1>6. CASE x # m
  <2>1. B = A \ {v} /\ (v \in A <=> block_at(v) = m)
    BY <1>2, <1>6
  <2> HIDE DEF A, B
  <2>2. IsFiniteSet(A)
    BY <1>4, PlacesAre, FS_Subset
  <2>3. Cardinality(A) \in Nat /\ Cardinality(B) = IF v \in A THEN Cardinality(A) - 1 ELSE Cardinality(A)
    BY <2>1, <2>2, FS_RemoveElement, FS_CardinalityType
  <2> QED BY <1>3, <1>6, <2>1, <2>3
<1> QED BY <1>5, <1>6

(* One player has one more or one less of an item.                         *)
LEMMA OneCarried ==
  ASSUME IslandTyped, IslandTyped', NEW p \in Players, NEW m \in Soil,
         \A q \in Players \ {p} : bag'[q] = bag[q]
  PROVE  Carried(m)' + bag[p][m] = Carried(m) + bag'[p][m]
<1> DEFINE f == [q \in Players |-> bag[q][m]]  g == [q \in Players |-> bag'[q][m]]
<1>1. f \in [Players -> Nat] /\ g \in [Players -> Nat] /\ IsFiniteSet(Players)
  BY IslandAssumption DEF IslandTyped, BagTyped
<1>2. \A q \in Players \ {p} : g[q] = f[q]
  OBVIOUS
<1>3. f[p] = bag[p][m] /\ g[p] = bag'[p][m]
  OBVIOUS
<1> HIDE DEF f, g
<1>4. SumFunction(g) + f[p] = SumFunction(f) + g[p]
  BY <1>1, <1>2, SumChanges
<1>5. Carried(m) = SumFunction(f) /\ Carried(m)' = SumFunction(g)
  BY Zenon DEF Carried, f, g
<1> QED BY <1>3, <1>4, <1>5

LEMMA StandsStill ==
  ASSUME UNCHANGED <<blocks, bag>>, NEW m \in Soil
  PROVE  Standing(m)' = Standing(m) /\ Carried(m)' = Carried(m)
<1>1. \A v \in Places : block_at(v)' = block_at(v)
  BY DEF block_at, material_at
<1> QED BY <1>1, Zenon DEF Standing, Carried

LEMMA InitHad == IslandInit => NoBlockIsHadTwice
<1> SUFFICES ASSUME IslandInit, NEW m \in Soil PROVE Had(m) <= ThereWas(m)
  BY DEF NoBlockIsHadTwice, Had, ThereWas
<1>1. /\ blocks = Empty.blocks /\ floor[m] = 0
      /\ load \in [Soil \cup Fixings -> Nat] /\ bag = [p \in Players |-> load]
  BY IslandAssumption DEF IslandInit
<1>2. {v \in Places : block_at(v) = m} = {v \in Voxels : Ground[v] = m}
  <2>1. \A v \in Places : block_at(v) = material_at(v)
    BY <1>1 DEF block_at, Empty
  <2>2. AIR # m
    BY IslandAssumption
  <2> QED BY <2>1, <2>2, PlacesAre DEF material_at
<1>3. Carried(m) = load[m] * Cardinality(Players)
  <2>1. /\ [p \in Players |-> bag[p][m]] \in [Players -> Nat] /\ IsFiniteSet(Players)
        /\ load[m] \in Nat /\ \A p \in Players : [q \in Players |-> bag[q][m]][p] = load[m]
    BY <1>1, IslandAssumption
  <2> DEFINE f == [p \in Players |-> bag[p][m]]
  <2>2. f \in [Players -> Nat] /\ \A p \in Players : f[p] = load[m]
    BY <2>1
  <2> HIDE DEF f
  <2>3. SumFunction(f) = load[m] * Cardinality(Players)
    BY <2>1, <2>2, SumOfSame
  <2> QED BY <2>3, Zenon DEF Carried, f
<1>4. IslandTyped
  BY IslandInitTyped
<1>5. Standing(m) = Cardinality({v \in Voxels : Ground[v] = m})
  BY <1>2 DEF Standing
<1>6. Standing(m) \in Nat /\ Carried(m) \in Nat
  BY <1>4, HadTyped
<1> QED BY <1>1, <1>3, <1>5, <1>6 DEF Had, ThereWas

LEMMA VoxelActionsHad ==
  ASSUME IslandTyped, IslandTyped', NEW p \in Players, NEW v \in Voxels, NEW d \in Towards,
         NEW item \in Soil \cup Fixings \cup {Nothing}, PerformVoxelActions(p, v, d, item),
         NEW m \in Soil
  PROVE  Had(m)' <= Had(m)
<1>1. /\ Standing(m) \in Nat /\ Carried(m) \in Nat /\ floor[m] \in Nat
      /\ Standing(m)' \in Nat /\ Carried(m)' \in Nat /\ floor'[m] \in Nat
  <2>1. Standing(m) \in Nat /\ Carried(m) \in Nat /\ floor[m] \in Nat
    BY HadTyped
  <2>2. Standing(m)' \in Nat /\ Carried(m)' \in Nat /\ floor'[m] \in Nat
    BY HadTypedNext
  <2> QED BY <2>1, <2>2
<1>2. CASE PlaceBlock(p, v, d, item) /\ item \in Soil /\ bag[p][item] > 0
  <2> DEFINE at == placement_voxel(v, d)
  <2>1. at \in Places /\ item \in Blocks /\ set_block(at, item) /\ floor' = floor
        /\ bag' = [bag EXCEPT ![p][item] = @ - 1]
    BY <1>2, PlacesAre DEF PlaceBlock, Blocks
  <2> HIDE DEF at
  <2>2. /\ item = m => Standing(m)' <= Standing(m) + 1
        /\ item # m => Standing(m)' <= Standing(m)
    BY <2>1, OneBlock DEF IslandTyped
  <2>3. Carried(m)' + bag[p][m] = Carried(m) + bag'[p][m]
    <3>1. \A q \in Players \ {p} : bag'[q] = bag[q]
      BY <2>1 DEF IslandTyped, BagTyped
    <3> QED BY <3>1, OneCarried
  <2>4. /\ bag[p][m] \in Nat
        /\ bag'[p][m] = IF item = m THEN bag[p][m] - 1 ELSE bag[p][m]
    BY <2>1 DEF IslandTyped, BagTyped
  <2>5. CASE item = m
    BY <1>1, <2>1, <2>2, <2>3, <2>4, <2>5 DEF Had
  <2>6. CASE item # m
    BY <1>1, <2>1, <2>2, <2>3, <2>4, <2>6 DEF Had
  <2> QED BY <2>5, <2>6
<1>3. CASE dig(p, v)
  <2>1. v \in Places /\ bag' = bag
    BY <1>3, PlacesAre DEF dig
  <2>2. CASE UNCHANGED <<blocks, unsaved, floor>>
    <3>1. UNCHANGED <<blocks, bag>> /\ floor' = floor
      BY <2>1, <2>2
    <3>2. Standing(m)' = Standing(m) /\ Carried(m)' = Carried(m)
      BY <3>1, StandsStill
    <3> QED BY <1>1, <3>1, <3>2 DEF Had
  <2>3. CASE Breaks(p, v, block_at(v))
    <3>1. AIR \in Blocks /\ AIR # m /\ set_block(v, AIR)
      BY <2>3, IslandAssumption DEF Blocks, Breaks
    <3>2. /\ Standing(m)' <= Standing(m)
          /\ block_at(v) = m => Standing(m)' = Standing(m) - 1
      BY <2>1, <3>1, OneBlock DEF IslandTyped
    <3>3. Carried(m)' = Carried(m)
      BY <2>1, Zenon DEF Carried
    <3>4. floor'[m] = IF block_at(v) = m THEN floor[m] + 1 ELSE floor[m]
      BY <2>3 DEF Breaks, IslandTyped, LandTyped
    <3>5. CASE block_at(v) = m
      BY <1>1, <3>2, <3>3, <3>4, <3>5 DEF Had
    <3>6. CASE block_at(v) # m
      BY <1>1, <3>2, <3>3, <3>4, <3>6 DEF Had
    <3> QED BY <3>5, <3>6
  <2> QED BY <1>3, <2>2, <2>3 DEF dig
<1> QED BY <1>2, <1>3 DEF PerformVoxelActions

LEMMA CollectsHad ==
  ASSUME IslandTyped, IslandTyped', NEW p \in Players, NEW item \in Soil, Collects(p, item),
         NEW m \in Soil
  PROVE  Had(m)' <= Had(m)
<1>1. Standing(m) \in Nat /\ Carried(m) \in Nat /\ floor[m] \in Nat
  BY HadTyped
<1>2. Standing(m)' = Standing(m)
  <2>1. \A v \in Places : block_at(v)' = block_at(v)
    BY DEF Collects, block_at, material_at
  <2> QED BY <2>1, Zenon DEF Standing
<1>3. Carried(m)' + bag[p][m] = Carried(m) + bag'[p][m]
  <2>1. \A q \in Players \ {p} : bag'[q] = bag[q]
    BY DEF Collects, IslandTyped, BagTyped
  <2> QED BY <2>1, OneCarried
<1>4. /\ bag[p][m] \in Nat
      /\ bag'[p][m] = IF item = m THEN bag[p][m] + 1 ELSE bag[p][m]
      /\ floor'[m] = IF item = m THEN floor[m] - 1 ELSE floor[m]
  BY DEF Collects, IslandTyped, LandTyped, BagTyped
<1>5. Carried(m)' \in Nat
  BY HadTypedNext
<1>6. CASE item = m
  BY <1>1, <1>2, <1>3, <1>4, <1>5, <1>6 DEF Had
<1>7. CASE item # m
  BY <1>1, <1>2, <1>3, <1>4, <1>5, <1>7 DEF Had
<1> QED BY <1>6, <1>7

LEMMA PlaceEntityHad ==
  ASSUME IslandTyped, IslandTyped', NEW p \in Players, NEW v \in Voxels, NEW d \in Towards,
         NEW item \in Soil \cup Fixings \cup {Nothing}, place_entity(p, v, d, item),
         NEW m \in Soil
  PROVE  Had(m)' = Had(m)
<1>1. item \in Fixings /\ item # m
  BY IslandAssumption DEF place_entity
<1>2. UNCHANGED <<blocks, floor>>
  BY DEF place_entity
<1>3. Standing(m)' = Standing(m)
  <2>1. \A u \in Places : block_at(u)' = block_at(u)
    BY <1>2 DEF block_at, material_at
  <2> QED BY <2>1, Zenon DEF Standing
<1>4. \A q \in Players : bag'[q][m] = bag[q][m]
  BY <1>1 DEF place_entity, IslandTyped, BagTyped
<1>5. [q \in Players |-> bag'[q][m]] = [q \in Players |-> bag[q][m]]
  BY <1>4
<1>6. Carried(m)' = Carried(m)
  BY <1>5, Zenon DEF Carried
<1> QED BY <1>2, <1>3, <1>6 DEF Had

LEMMA NextHad ==
  ASSUME IslandTyped, IslandTyped', NoBlockIsHadTwice, [IslandNext]_island_vars
  PROVE  NoBlockIsHadTwice'
<1> SUFFICES ASSUME restarts' = 0, NEW m \in Soil
             PROVE  Had(m)' <= ThereWas(m)'
  BY DEF NoBlockIsHadTwice, Had, ThereWas
<1>1. CASE Restart
  BY <1>1 DEF Restart, IslandTyped, StoreTyped
<1>2. ASSUME restarts' = restarts, load' = load, Had(m)' <= Had(m)
      PROVE  Had(m)' <= ThereWas(m)'
  <2>1. Had(m) <= ThereWas(m) /\ ThereWas(m)' = ThereWas(m)
    BY <1>2 DEF NoBlockIsHadTwice, Had, ThereWas
  <2>2. Had(m) \in Nat
    BY HadTyped DEF Had
  <2>3. Had(m)' \in Nat
    BY HadTypedNext DEF Had
  <2>4. ThereWas(m) \in Nat
    <3> DEFINE A == {v \in Voxels : Ground[v] = m}
    <3>1. A \subseteq Voxels
      OBVIOUS
    <3>2. load[m] \in Nat
      BY DEF IslandTyped, BagTyped
    <3> HIDE DEF A
    <3>3. Cardinality(A) \in Nat /\ Cardinality(Players) \in Nat
      BY <3>1, PlacesAre, IslandAssumption, FS_Subset, FS_CardinalityType
    <3> QED BY <3>2, <3>3 DEF ThereWas, A
  <2> QED BY <1>2, <2>1, <2>2, <2>3, <2>4
<1>3. ASSUME UNCHANGED <<blocks, bag, floor, restarts, load>>
      PROVE  Had(m)' <= ThereWas(m)'
  <2>1. Had(m)' = Had(m)
    BY <1>3, StandsStill DEF Had
  <2>2. Had(m) \in Nat
    BY HadTyped DEF Had
  <2> QED BY <1>2, <1>3, <2>1, <2>2
<1>4. ASSUME NEW p \in Players, NEW v \in Voxels, NEW d \in Towards,
             NEW item \in Soil \cup Fixings \cup {Nothing},
             PerformVoxelActions(p, v, d, item) \/ place_entity(p, v, d, item)
      PROVE  Had(m)' <= ThereWas(m)'
  <2>1. restarts' = restarts /\ load' = load
    BY <1>4 DEF PerformVoxelActions, place_entity, store_vars
  <2>2. Had(m) \in Nat
    BY HadTyped DEF Had
  <2>3. Had(m)' <= Had(m)
    BY <1>4, <2>2, VoxelActionsHad, PlaceEntityHad
  <2> QED BY <1>2, <2>1, <2>3
<1>5. ASSUME NEW p \in Players, NEW item \in Soil, Collects(p, item)
      PROVE  Had(m)' <= ThereWas(m)'
  <2>1. restarts' = restarts /\ load' = load
    BY <1>5 DEF Collects, store_vars
  <2>2. Had(m)' <= Had(m)
    BY <1>5, CollectsHad
  <2> QED BY <1>2, <2>1, <2>2
<1>6. ASSUME NEW p \in Players, EnterWorld(p) \/ LeaveWorld(p) \/ ClosePanel(p)
      PROVE  Had(m)' <= ThereWas(m)'
  BY <1>3, <1>6 DEF EnterWorld, LeaveWorld, ClosePanel, store_vars, land_vars
<1>7. ASSUME NEW p \in Players, NEW target, Interact(p, target)
      PROVE  Had(m)' <= ThereWas(m)'
  BY <1>3, <1>7 DEF Interact, store_vars, land_vars
<1>8. CASE RecordIsland \/ SaveChange \/ UNCHANGED island_vars
  BY <1>3, <1>8 DEF RecordIsland, SaveChange, island_vars, store_vars, land_vars
<1> QED
  BY <1>1, <1>4, <1>5, <1>6, <1>7, <1>8 DEF IslandNext

(* Of what the island was made of and the players brought, no more stands, *)
(* lies and is carried than there was (lib.rs handle_voxel_actions,        *)
(* place_block, collect_pickup).                                           *)
THEOREM NothingIsHadTwice == IslandSpec => []NoBlockIsHadTwice
<1>1. IslandSpec => [](IslandTyped /\ NoBlockIsHadTwice)
  <2>1. IslandInit => IslandTyped /\ NoBlockIsHadTwice
    BY IslandInitTyped, InitHad
  <2>2. IslandInv /\ IslandInv' /\ NoBlockIsHadTwice /\ [IslandNext]_island_vars => NoBlockIsHadTwice'
    BY NextHad DEF IslandInv
  <2>3. IslandInv => IslandTyped
    BY DEF IslandInv
  <2> QED BY <2>1, <2>2, <2>3, InvKept, PTL DEF IslandSpec
<1> QED BY <1>1, PTL

-----------------------------------------------------------------------------
(* What a client shows, sync by sync. *)
LEMMA ShownIs ==
  ASSUME NEW p, NEW ids, IsQueue(ids)
  PROVE  \E g : /\ g[0] = [told |-> told[p], shows |-> window[p]]
               /\ \A k \in 1 .. Len(ids) : g[k] = Sees(g[k - 1], ids[k])
               /\ Shown(p, ids) = g[Len(ids)]
<1> DEFINE n     == Len(ids)
           Ids   == {told[p], window[p]} \cup {ids[i] : i \in 1 .. n}
           Views == [told : Ids, shows : Ids]
           first == [told |-> told[p], shows |-> window[p]]
           step  == [i \in 1 .. n |-> [s \in Views |-> Sees(s, ids[i])]]
           Is(h) == h = [s \in SUBSET DOMAIN ids |->
                           IF s = {} THEN first ELSE Sees(h[s \ {Max(s)}], ids[Max(s)])]
           h     == CHOOSE h : Is(h)
<1>1. n \in Nat /\ DOMAIN ids = 1 .. n /\ first \in Views
  BY QueueIs
<1>2. Shown(p, ids) = h[DOMAIN ids]
  BY Zenon DEF Shown, FoldLeft, MapThenFoldSet
<1>3. \E g : Is(g)
  <2>1. step \in [1 .. n -> [Views -> Views]]
    <3>1. \A i \in 1 .. n : ids[i] \in Ids
      OBVIOUS
    <3> HIDE DEF Ids
    <3> QED BY <3>1 DEF Sees
  <2>2. PICK g \in [SUBSET (1 .. n) -> Views] : FoldsUpTo(g, n, first, step)
    <3> HIDE DEF step, n, first, Views
    <3> QED BY <1>1, <2>1, FoldHasValue
  <2>3. ASSUME NEW s \in SUBSET DOMAIN ids
        PROVE  g[s] = IF s = {} THEN first ELSE Sees(g[s \ {Max(s)}], ids[Max(s)])
    <3> HIDE DEF Views, first
    <3>1. s \in SUBSET (1 .. n) /\ s \ {Max(s)} \in SUBSET (1 .. n)
      BY <1>1
    <3>2. g[s] = IF s = {} THEN first ELSE step[Max(s)][g[s \ {Max(s)}]]
      <4> HIDE DEF step, n
      <4> QED BY <2>2, <3>1 DEF FoldsUpTo
    <3>3. CASE s = {}
      BY <3>2, <3>3
    <3>4. CASE s # {}
      <4>1. Max(s) \in 1 .. n
        <5> HIDE DEF n
        <5>1. Max(s) \in s
          BY <1>1, <3>1, <3>4, MaxIsThere
        <5> QED BY <3>1, <5>1
      <4>2. g[s \ {Max(s)}] \in Views
        BY <2>2, <3>1
      <4> QED BY <3>2, <3>4, <4>1, <4>2
    <3> QED BY <3>3, <3>4
  <2>4. DOMAIN g = SUBSET DOMAIN ids
    BY <1>1, <2>2
  <2>5. Is(g)
    <3> HIDE DEF first
    <3> QED BY <2>3, <2>4
  <2> QED BY <2>5
<1>4. Is(h)
  BY <1>3, Zenon
<1>5. \A s \in SUBSET (1 .. n) :
        h[s] = IF s = {} THEN first ELSE Sees(h[s \ {Max(s)}], ids[Max(s)])
  <2> HIDE DEF h, first
  <2> QED BY <1>1, <1>4
<1> HIDE DEF h, Is, first
<1>6. h[1 .. 0] = first
  <2>1. 1 .. 0 = {} /\ {} \in SUBSET (1 .. n)
    OBVIOUS
  <2> QED BY <1>5, <2>1
<1>7. \A k \in 1 .. n : h[1 .. k] = Sees(h[1 .. k - 1], ids[k])
  <2> TAKE k \in 1 .. n
  <2>1. 1 .. k \in SUBSET (1 .. n) /\ k \in Nat \ {0}
    BY <1>1
  <2>2. 1 .. k # {} /\ Max(1 .. k) = k /\ (1 .. k) \ {Max(1 .. k)} = 1 .. k - 1
    BY <2>1, UpTo
  <2>3. h[1 .. k] = IF 1 .. k = {} THEN first
                    ELSE Sees(h[(1 .. k) \ {Max(1 .. k)}], ids[Max(1 .. k)])
    BY <1>5, <2>1
  <2> HIDE DEF n
  <2> QED BY <2>2, <2>3
<1> DEFINE g == [k \in 0 .. n |-> h[1 .. k]]
<1>8. g[0] = first /\ g[n] = h[1 .. n]
  BY <1>1, <1>6
<1>9. \A k \in 1 .. n : g[k] = Sees(g[k - 1], ids[k])
  <2> TAKE k \in 1 .. n
  <2>1. k \in 0 .. n /\ k - 1 \in 0 .. n
    BY <1>1
  <2>2. g[k] = h[1 .. k] /\ g[k - 1] = h[1 .. k - 1]
    BY <2>1
  <2> HIDE DEF g
  <2> QED BY <1>7, <2>2
<1> HIDE DEF g
<1> QED BY <1>1, <1>2, <1>8, <1>9 DEF first

LEMMA ShownOne ==
  ASSUME NEW p, NEW id
  PROVE  Shown(p, <<id>>) = Sees([told |-> told[p], shows |-> window[p]], id)
<1> DEFINE ids == <<id>>
<1>1. IsQueue(ids) /\ Len(ids) = 1 /\ ids[1] = id
  BY ShortQueues
<1> HIDE DEF ids
<1>2. PICK g : /\ g[0] = [told |-> told[p], shows |-> window[p]]
               /\ \A k \in 1 .. Len(ids) : g[k] = Sees(g[k - 1], ids[k])
               /\ Shown(p, ids) = g[Len(ids)]
  BY <1>1, ShownIs
<1>3. 1 \in 1 .. Len(ids) /\ 1 - 1 = 0
  BY <1>1
<1>4. g[1] = Sees(g[1 - 1], ids[1])
  BY <1>2, <1>3
<1> QED BY <1>1, <1>2, <1>3, <1>4 DEF ids

LEMMA ShownTwo ==
  ASSUME NEW p, NEW a, NEW b
  PROVE  Shown(p, <<a, b>>) = Sees(Sees([told |-> told[p], shows |-> window[p]], a), b)
<1> DEFINE ids == <<a, b>>
<1>1. IsQueue(ids) /\ Len(ids) = 2 /\ ids[1] = a /\ ids[2] = b
  BY ShortQueues
<1> HIDE DEF ids
<1>2. PICK g : /\ g[0] = [told |-> told[p], shows |-> window[p]]
               /\ \A k \in 1 .. Len(ids) : g[k] = Sees(g[k - 1], ids[k])
               /\ Shown(p, ids) = g[Len(ids)]
  BY <1>1, ShownIs
<1>3. 1 \in 1 .. Len(ids) /\ 1 - 1 = 0 /\ 2 \in 1 .. Len(ids) /\ 2 - 1 = 1
  BY <1>1
<1>4. g[1] = Sees(g[1 - 1], ids[1]) /\ g[2] = Sees(g[2 - 1], ids[2])
  BY <1>2, <1>3
<1> QED BY <1>1, <1>2, <1>3, <1>4 DEF ids

(* What a session has open is what its client was told last, and shows     *)
(* unless it was shut there; a loot chest cannot be.                       *)
PanelsAgree ==
  /\ using \in [Players -> 0 .. MaxChanges \cup {LootChest}]
  /\ told \in [Players -> 0 .. MaxChanges \cup {LootChest}]
  /\ window \in [Players -> 0 .. MaxChanges \cup {LootChest}]
  /\ \A p \in Players :
       /\ told[p] = using[p] /\ window[p] \in {Nothing, told[p]}
       /\ told[p] = LootChest => window[p] = LootChest

Aims == {LootChest} \cup (1 .. MaxChanges)

LEMMA AimsAre ==
  Nothing = 0 /\ LootChest # Nothing /\ \A target \in Aims : target # Nothing
BY IslandAssumption DEF Aims

(* What one press of the key does. *)
LEMMA Pressed ==
  ASSUME PanelsAgree, NEW p \in Players, NEW target \in Aims, Interact(p, target)
  PROVE  \E open \in {Nothing, target} :
           /\ using' = [using EXCEPT ![p] = open]
           /\ told' = [told EXCEPT ![p] = open]
           /\ window' = [window EXCEPT ![p] = open]
           /\ open = IF target = LootChest /\ window[p] = LootChest THEN Nothing ELSE target
<1> DEFINE first == [told |-> told[p], shows |-> window[p]]
           syncs == open_container(p, target)
           open  == IF target = LootChest /\ window[p] = LootChest THEN Nothing ELSE target
           Shows == Last(syncs) = open /\ Shown(p, syncs) = [told |-> open, shows |-> open]
<1>1. /\ using' = [using EXCEPT ![p] = Last(syncs)]
      /\ told' = [told EXCEPT ![p] = Shown(p, syncs).told]
      /\ window' = [window EXCEPT ![p] = Shown(p, syncs).shows]
  BY DEF Interact
<1>2. /\ told[p] = using[p] /\ window[p] \in {Nothing, told[p]}
      /\ told[p] = LootChest => window[p] = LootChest
  BY DEF PanelsAgree
<1>3. using[p] # target => Shows
  <2> SUFFICES ASSUME using[p] # target PROVE Shows
    OBVIOUS
  <2>1. syncs = <<target>>
    BY DEF open_container
  <2>2. Last(<<target>>) = target
    BY ShortQueues DEF Last
  <2>3. Shown(p, <<target>>) = Sees(first, target)
    BY ShownOne
  <2>4. Sees(first, target) = [told |-> target, shows |-> target]
    BY <1>2 DEF Sees
  <2>5. ~(target = LootChest /\ window[p] = LootChest)
    BY <1>2, AimsAre
  <2> HIDE DEF syncs, first
  <2> QED BY <2>1, <2>2, <2>3, <2>4, <2>5
<1>4. using[p] = target /\ target = LootChest => Shows
  <2> SUFFICES ASSUME using[p] = target /\ target = LootChest PROVE Shows
    OBVIOUS
  <2>1. syncs = <<Nothing>>
    BY DEF open_container
  <2>2. Last(<<Nothing>>) = Nothing
    BY ShortQueues DEF Last
  <2>3. Shown(p, <<Nothing>>) = Sees(first, Nothing)
    BY ShownOne
  <2>4. Sees(first, Nothing) = [told |-> Nothing, shows |-> Nothing]
    BY <1>2, AimsAre DEF Sees
  <2>5. target = LootChest /\ window[p] = LootChest
    BY <1>2
  <2> HIDE DEF syncs, first
  <2> QED BY <2>1, <2>2, <2>3, <2>4, <2>5
<1>5. using[p] = target /\ target # LootChest => Shows
  <2> SUFFICES ASSUME using[p] = target /\ target # LootChest PROVE Shows
    OBVIOUS
  <2>1. syncs = <<Nothing, target>>
    BY DEF open_container
  <2>2. Last(<<Nothing, target>>) = target
    BY ShortQueues DEF Last
  <2>3. Shown(p, <<Nothing, target>>) = Sees(Sees(first, Nothing), target)
    BY ShownTwo
  <2>4. Sees(Sees(first, Nothing), target) = [told |-> target, shows |-> target]
    BY <1>2, AimsAre DEF Sees
  <2> HIDE DEF syncs, first
  <2> QED BY <2>1, <2>2, <2>3, <2>4
<1>6. Shows
  <2> HIDE DEF Shows
  <2> QED BY <1>3, <1>4, <1>5
<1>7. Shown(p, syncs).told = open /\ Shown(p, syncs).shows = open /\ open \in {Nothing, target}
  <2> HIDE DEF syncs
  <2> QED BY <1>6
<1> HIDE DEF syncs
<1> QED BY <1>1, <1>6, <1>7

LEMMA InitAgree == IslandInit => PanelsAgree
BY AimsAre, IslandAssumption DEF IslandInit, PanelsAgree

LEMMA NextAgree == PanelsAgree /\ [IslandNext]_island_vars => PanelsAgree'
<1> SUFFICES ASSUME PanelsAgree, [IslandNext]_island_vars PROVE PanelsAgree'
  OBVIOUS
<1>1. ASSUME UNCHANGED panel_vars
      PROVE  PanelsAgree'
  BY <1>1 DEF PanelsAgree, panel_vars
<1>2. ASSUME NEW gone, SessionsEnd(gone)
      PROVE  PanelsAgree'
  <2>1. 0 \in 0 .. MaxChanges
    BY IslandAssumption
  <2> QED BY <1>2, <2>1, AimsAre DEF SessionsEnd, Fresh, PanelsAgree
<1>3. ASSUME NEW p \in Players, NEW target \in Aims, Interact(p, target)
      PROVE  PanelsAgree'
  <2>1. PICK open \in {Nothing, target} :
           /\ using' = [using EXCEPT ![p] = open]
           /\ told' = [told EXCEPT ![p] = open]
           /\ window' = [window EXCEPT ![p] = open]
    BY <1>3, Pressed
  <2>2. open \in 0 .. MaxChanges \cup {LootChest}
    BY IslandAssumption DEF Aims
  <2> QED BY <2>1, <2>2 DEF PanelsAgree
<1>4. ASSUME NEW p \in Players, ClosePanel(p)
      PROVE  PanelsAgree'
  <2>1. /\ window[p] \notin {Nothing, LootChest} /\ window' = [window EXCEPT ![p] = Nothing]
        /\ using' = using /\ told' = told
    BY <1>4 DEF ClosePanel
  <2>2. Nothing \in 0 .. MaxChanges
    BY IslandAssumption
  <2> QED BY <2>1, <2>2 DEF PanelsAgree
<1>5. ASSUME NEW p \in Players, NEW v \in Voxels, NEW d \in Towards,
             NEW item \in Soil \cup Fixings \cup {Nothing},
             PerformVoxelActions(p, v, d, item) \/ place_entity(p, v, d, item)
      PROVE  PanelsAgree'
  BY <1>1, <1>5 DEF PerformVoxelActions, place_entity
<1>6. ASSUME NEW p \in Players, NEW item \in Soil, Collects(p, item)
      PROVE  PanelsAgree'
  BY <1>1, <1>6 DEF Collects
<1>7. ASSUME NEW p \in Players, EnterWorld(p)
      PROVE  PanelsAgree'
  BY <1>1, <1>7 DEF EnterWorld
<1>8. ASSUME NEW p \in Players, LeaveWorld(p)
      PROVE  PanelsAgree'
  BY <1>2, <1>8 DEF LeaveWorld
<1>9. CASE RecordIsland \/ SaveChange \/ UNCHANGED island_vars
  BY <1>1, <1>9 DEF RecordIsland, SaveChange, island_vars
<1>10. CASE Restart
  BY <1>2, <1>10 DEF Restart
<1> QED
  BY <1>3, <1>4, <1>5, <1>6, <1>7, <1>8, <1>9, <1>10 DEF IslandNext, Aims

(* One press of the key shows what it was aimed at (lib.rs interact and    *)
(* open_container).                                                        *)
THEOREM OneKey == IslandSpec => OneKeyOpens
<1>1. PanelsAgree => \A p \in Players : \A target \in Aims :
        Interact(p, target) =>
          window'[p] = IF target = LootChest /\ window[p] = LootChest THEN Nothing ELSE target
  <2> SUFFICES ASSUME PanelsAgree, NEW p \in Players, NEW target \in Aims, Interact(p, target)
               PROVE  window'[p] = IF target = LootChest /\ window[p] = LootChest THEN Nothing ELSE target
    OBVIOUS
  <2>1. PICK open \in {Nothing, target} :
          /\ window' = [window EXCEPT ![p] = open]
          /\ open = IF target = LootChest /\ window[p] = LootChest THEN Nothing ELSE target
    BY Pressed
  <2> QED BY <2>1 DEF PanelsAgree
<1>2. IslandSpec => []PanelsAgree
  BY InitAgree, NextAgree, PTL DEF IslandSpec
<1> QED BY <1>1, <1>2, PTL DEF OneKeyOpens, Aims
=============================================================================
