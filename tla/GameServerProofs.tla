-------------------------- MODULE GameServerProofs --------------------------
(***************************************************************************)
(* Theorems about GameServer, for every number of connections, accounts,   *)
(* mints and reservations.                                                 *)
(*                                                                         *)
(* Nearly every step replaces one session by a changed one and may raise   *)
(* the server's allocator.  What such a change has to respect is `Follows',*)
(* and a change that does preserves the invariant: each action is then     *)
(* shown to make only such changes.                                        *)
(*                                                                         *)
(* What is written down is proved last.  That rests on an account having   *)
(* one live session at a time; that nothing is erased rests in addition on *)
(* nobody getting a stack before the rucksack is given back.  TLC shows    *)
(* that neither can be done without.                                       *)
(***************************************************************************)
EXTENDS GameServer, FiniteSetTheorems, TLAPS

Held(s)     == {s.body} \cup s.stacks \cup s.inbox
Fresh(s)    == Held(s) \ s.from_store    \* held, and not by a restore

FiniteSession(s) == s \in Session /\ IsFiniteSet(s.stacks) /\ IsFiniteSet(s.inbox)

(* A session is ahead of what it holds; a restore of the rucksack comes    *)
(* first, and makes the only stacks that count as restored.                *)
Sound(s) ==
  /\ FiniteSession(s)
  /\ \A e \in Held(s) : e < s.next
  /\ s.mail_restored => s.items_restored
  /\ ~s.items_restored => s.from_store = {}

AllSound == \A g \in Live : Sound(sessions[g])

ServerAhead == \A g \in Live : \A e \in Fresh(sessions[g]) : e < next_free_id

(* The server's allocator is behind a session's only between the restore   *)
(* of that player's rucksack and the restore of the inbox.                 *)
MayBeBehind(g) ==
  /\ DueMail(sessions[g])
  /\ phase = "restore_inventories" \/ (phase = "restore_mailboxes" /\ g \in todo)

CatchingUp == \A g \in Live : sessions[g].next <= next_free_id \/ MayBeBehind(g)

(* No player the first restore has passed is still due it in the second.   *)
RucksackFirst ==
  \A g \in Live :
    \/ phase = "restore_inventories" /\ g \notin todo
    \/ phase = "restore_mailboxes"
    => ~DueItems(sessions[g])

(* The loops over the sessions are over when the socket is read again.     *)
LoopsAreOver == phase \in {"drain", "commands"} => todo = {}

IInv == /\ ServerTypeOK /\ LoopsAreOver /\ AllSound /\ ServerAhead /\ CatchingUp /\ RucksackFirst
        /\ MintedOnce

-----------------------------------------------------------------------------
(* What may become of one session in a step that leaves the others alone.  *)

Follows(s, t) ==
  /\ Sound(t)
  /\ t.account = s.account /\ t.body = s.body
  /\ \A e \in Fresh(t) : e \in Fresh(s) \/ next_free_id <= e
  /\ \A e \in Fresh(t) : e < next_free_id'

(* Replacing a session by one that follows it keeps ids apart: what it has *)
(* that it did not have before is at or past the server's allocator, and   *)
(* everyone else's ids are before it (reserve_ids_from around a packet).   *)
LEMMA ReplaceSafe ==
  ASSUME IInv, NEW g \in Live, NEW t, Follows(sessions[g], t),
         sessions' = [sessions EXCEPT ![g] = t],
         next_free_id' \in Nat, next_free_id <= next_free_id'
  PROVE  /\ Live' = Live /\ sessions' \in [Live -> Session]
         /\ sessions'[g] = t
         /\ \A h \in Live \ {g} : sessions'[h] = sessions[h]
         /\ AllSound' /\ ServerAhead' /\ MintedOnce'
<1>1. /\ Live' = Live /\ sessions'[g] = t
      /\ \A h \in Live \ {g} : sessions'[h] = sessions[h]
      /\ sessions' \in [Live -> Session]
  BY DEF Live, IInv, ServerTypeOK, Follows, Sound, FiniteSession
<1>2. AllSound'
  BY <1>1 DEF IInv, AllSound, Follows, Sound, FiniteSession
<1>3. ServerAhead'
  <2> SUFFICES ASSUME NEW h \in Live, NEW e \in Fresh(sessions'[h])
               PROVE  e < next_free_id'
    BY <1>1 DEF ServerAhead, Fresh, Held
  <2>1. CASE h = g
    BY <1>1, <2>1 DEF Follows
  <2>2. CASE h # g
    <3>1. e < next_free_id
      BY <1>1, <2>2 DEF IInv, ServerAhead
    <3>2. e \in Nat /\ next_free_id \in Nat
      BY <1>1, <2>2 DEF IInv, ServerTypeOK, Fresh, Held, Session
    <3>3. QED BY <3>1, <3>2
  <2>3. QED BY <2>1, <2>2
<1>4. MintedOnce'
  <2>1. ASSUME NEW h \in Live, h # g, NEW e, e \in Fresh(t), e \in Fresh(sessions[h])
        PROVE  FALSE
    <3>1. e < next_free_id
      BY <2>1 DEF IInv, ServerAhead
    <3>2. e \in Nat /\ next_free_id \in Nat
      BY <2>1 DEF IInv, ServerTypeOK, Fresh, Held, Session
    <3>3. e \in Fresh(sessions[g])
      BY <2>1, <3>1, <3>2 DEF Follows
    <3>4. QED BY <2>1, <3>3 DEF IInv, MintedOnce, Ids, Fresh, Held
  <2>2. SUFFICES ASSUME NEW h \in Live, NEW k \in Live, h # k,
                        NEW e, e \in Fresh(sessions'[h]), e \in Fresh(sessions'[k])
                 PROVE  FALSE
    BY <1>1 DEF MintedOnce, Ids, Fresh, Held
  <2>3. CASE h = g
    BY <1>1, <2>1, <2>2, <2>3
  <2>4. CASE k = g
    BY <1>1, <2>1, <2>2, <2>4
  <2>5. CASE h # g /\ k # g
    BY <1>1, <2>2, <2>5 DEF IInv, MintedOnce, Ids, Fresh, Held
  <2>6. QED BY <2>3, <2>4, <2>5
<1>5. QED BY <1>1, <1>2, <1>3, <1>4

(* Raising a session's allocator (reserve_ids_from) changes nothing else.  *)
LEMMA InStepSound ==
  ASSUME IInv, NEW g \in Live, NEW s, s = InStep(sessions[g])
  PROVE  /\ Sound(s)
         /\ s.next \in Nat /\ next_free_id <= s.next /\ sessions[g].next <= s.next
         /\ s = [sessions[g] EXCEPT !.next = s.next]
         /\ s.playing = sessions[g].playing
         /\ s.items_restored = sessions[g].items_restored
         /\ s.mail_restored = sessions[g].mail_restored
         /\ Held(s) = Held(sessions[g]) /\ Fresh(s) = Fresh(sessions[g])
<1>1. /\ sessions[g] \in Session /\ next_free_id \in Nat /\ Sound(sessions[g])
  BY DEF IInv, ServerTypeOK, AllSound
<1>2. /\ s = [sessions[g] EXCEPT !.next = s.next]
      /\ s.next \in Nat /\ next_free_id <= s.next /\ sessions[g].next <= s.next
  BY <1>1 DEF InStep, Larger, Session
<1>3. Held(s) = Held(sessions[g]) /\ Fresh(s) = Fresh(sessions[g])
  BY <1>1, <1>2 DEF Held, Fresh, Session
<1>4. s \in Session
  BY <1>1, <1>2 DEF Session
<1>5. \A e \in Held(s) : e < s.next
  <2> TAKE e \in Held(s)
  <2>1. e < sessions[g].next
    BY <1>1, <1>3 DEF Sound
  <2>2. e \in Nat /\ sessions[g].next \in Nat
    BY <1>1, <1>3 DEF Held, Session
  <2>3. QED BY <1>2, <2>1, <2>2
<1>6. Sound(s)
  BY <1>1, <1>2, <1>4, <1>5 DEF Sound, FiniteSession, Session
<1>7. /\ s.playing = sessions[g].playing
      /\ s.items_restored = sessions[g].items_restored
      /\ s.mail_restored = sessions[g].mail_restored
  BY <1>1, <1>2 DEF Session
<1>8. QED BY <1>2, <1>3, <1>6, <1>7

(* The ids a session mints are a finite run from its allocator on.         *)
LEMMA MintedRun ==
  ASSUME NEW s, s.next \in Nat, NEW n \in Nat
  PROVE  /\ Minted(s, n) \subseteq Nat
         /\ IsFiniteSet(Minted(s, n)) /\ Cardinality(Minted(s, n)) = n
         /\ \A e \in Minted(s, n) : s.next <= e /\ e < s.next + n
<1> DEFINE a == s.next
           b == s.next + n - 1
<1>1. a \in Int /\ b \in Int /\ b - a + 1 = n /\ (a > b <=> n = 0)
  OBVIOUS
<1> HIDE DEF a, b
<1>2. IsFiniteSet(a .. b) /\ Cardinality(a .. b) = n
  BY <1>1, FS_Interval
<1>3. IsFiniteSet(Minted(s, n)) /\ Cardinality(Minted(s, n)) = n
  BY <1>2 DEF Minted, a, b
<1>4. QED BY <1>3 DEF Minted

(* The session is put back: the server's allocator is then past its own.   *)
LEMMA TakeBackFollows ==
  ASSUME IInv, NEW g \in Live, NEW t, Sound(t),
         t.account = sessions[g].account, t.body = sessions[g].body,
         \A e \in Fresh(t) : e \in Fresh(sessions[g]) \/ next_free_id <= e,
         TakeBack(g, t)
  PROVE  /\ Follows(sessions[g], t)
         /\ sessions' = [sessions EXCEPT ![g] = t]
         /\ next_free_id' \in Nat /\ next_free_id <= next_free_id'
         /\ t.next <= next_free_id'
<1>1. /\ sessions' = [sessions EXCEPT ![g] = t]
      /\ t.next \in Nat /\ next_free_id \in Nat
      /\ next_free_id' = Larger(next_free_id, t.next)
  BY DEF IInv, ServerTypeOK, Sound, FiniteSession, Session, TakeBack
<1>2. /\ next_free_id' \in Nat /\ next_free_id <= next_free_id'
      /\ t.next <= next_free_id'
  BY <1>1 DEF Larger
<1>3. \A e \in Fresh(t) : e < next_free_id'
  <2> TAKE e \in Fresh(t)
  <2>1. e < t.next /\ e \in Nat
    BY DEF Sound, FiniteSession, Session, Fresh, Held
  <2>2. QED BY <1>1, <1>2, <2>1
<1>4. QED BY <1>1, <1>2, <1>3 DEF Follows

(* While packets and commands are carried out the allocators are in step,  *)
(* and a step that leaves them so keeps the invariant.                     *)
LEMMA PacketSafe ==
  ASSUME IInv, NEW g \in Live, NEW t, Follows(sessions[g], t),
         sessions' = [sessions EXCEPT ![g] = t],
         next_free_id' \in Nat, next_free_id <= next_free_id',
         t.next <= next_free_id',
         phase \in {"drain", "commands"}, phase' = phase
  PROVE  /\ Live' = Live /\ sessions' \in [Live -> Session]
         /\ AllSound' /\ ServerAhead' /\ MintedOnce' /\ CatchingUp' /\ RucksackFirst'
<1>1. /\ Live' = Live /\ sessions' \in [Live -> Session] /\ sessions'[g] = t
      /\ \A h \in Live \ {g} : sessions'[h] = sessions[h]
      /\ AllSound' /\ ServerAhead' /\ MintedOnce'
  BY ReplaceSafe
<1>2. CatchingUp'
  <2> SUFFICES ASSUME NEW h \in Live
               PROVE  sessions'[h].next <= next_free_id'
    BY <1>1 DEF CatchingUp
  <2>1. CASE h = g
    BY <1>1, <2>1
  <2>2. CASE h # g
    <3>1. sessions[h].next <= next_free_id
      BY DEF IInv, CatchingUp, MayBeBehind
    <3>2. sessions[h].next \in Nat /\ next_free_id \in Nat
      BY DEF IInv, ServerTypeOK, Session
    <3>3. QED BY <1>1, <2>2, <3>1, <3>2
  <2>3. QED BY <2>1, <2>2
<1>3. RucksackFirst'
  BY DEF RucksackFirst
<1>4. QED BY <1>1, <1>2, <1>3

(* What a session mints is ahead of everything it held, and finite.        *)
LEMMA MintSound ==
  ASSUME NEW s, Sound(s), NEW n \in Nat, NEW t \in Session,
         t.body = s.body, t.next = s.next + n,
         \/ t.stacks = s.stacks \cup Minted(s, n) /\ t.inbox = s.inbox
         \/ t.stacks = s.stacks /\ t.inbox = s.inbox \cup Minted(s, n)
  PROVE  /\ FiniteSession(t)
         /\ Held(t) = Held(s) \cup Minted(s, n)
         /\ \A e \in Held(t) : e < t.next
<1>1. /\ s.next \in Nat /\ IsFiniteSet(s.stacks) /\ IsFiniteSet(s.inbox)
      /\ Held(s) \subseteq Nat
  BY DEF Sound, FiniteSession, Session, Held
<1>2. /\ Minted(s, n) \subseteq Nat /\ IsFiniteSet(Minted(s, n))
      /\ \A e \in Minted(s, n) : e < s.next + n
  BY <1>1, MintedRun
<1>3. IsFiniteSet(t.stacks) /\ IsFiniteSet(t.inbox)
  <2>1. IsFiniteSet(s.stacks \cup Minted(s, n)) /\ IsFiniteSet(s.inbox \cup Minted(s, n))
    BY <1>1, <1>2, FS_Union
  <2>2. QED BY <1>1, <2>1
<1>4. Held(t) = Held(s) \cup Minted(s, n)
  BY DEF Held
<1>5. \A e \in Held(s) : e < s.next + n
  BY <1>1 DEF Sound
<1>6. QED BY <1>2, <1>3, <1>4, <1>5 DEF FiniteSession

-----------------------------------------------------------------------------
(* The socket. *)

(* A new session holds only its body, which is the id the server hands     *)
(* out.                                                                    *)
LEMMA ConnectSafe ==
  ASSUME IInv, NEW g \in Guids, Connect(g)
  PROVE  IInv'
<1> DEFINE account == IF reservations = <<>> THEN None ELSE Head(reservations)
           new     == FreshSession(next_free_id, account)
<1>1. /\ g \notin Live /\ g \notin gone /\ phase = "drain" /\ phase' = phase
      /\ next_free_id \in Nat /\ next_free_id' = next_free_id + 1
      /\ sessions' = [h \in Live \cup {g} |-> IF h = g THEN new ELSE sessions[h]]
  BY DEF Connect, IInv, ServerTypeOK
<1>2. /\ Live' = Live \cup {g} /\ sessions'[g] = new
      /\ \A h \in Live : sessions'[h] = sessions[h]
  BY <1>1 DEF Live
<1>3. account \in Accounts \cup {None}
  BY DEF IInv, ServerTypeOK
<1>4. /\ new \in Session /\ new.body = next_free_id /\ new.next = next_free_id + 1
      /\ new.stacks = {} /\ new.inbox = {} /\ new.from_store = {}
      /\ ~new.items_restored /\ ~new.mail_restored
  BY <1>1, <1>3 DEF FreshSession, Session
<1>5. Held(new) = {next_free_id} /\ Fresh(new) = {next_free_id}
  BY <1>4 DEF Held, Fresh
<1> HIDE DEF new
<1>6. ServerTypeOK'
  <2>1. sessions' \in [Live' -> Session]
    BY <1>1, <1>2, <1>4 DEF IInv, ServerTypeOK
  <2>2. reservations' \in Seq(Accounts) /\ Len(reservations') <= MaxReservations
    <3>1. reservations \in Seq(Accounts) /\ Len(reservations) <= MaxReservations
      BY DEF IInv, ServerTypeOK
    <3>2. reservations' = IF reservations = <<>> THEN <<>> ELSE Tail(reservations)
      BY DEF Connect
    <3>3. CASE reservations = <<>>
      BY <3>1, <3>2, <3>3
    <3>4. CASE reservations # <<>>
      <4>1. /\ Tail(reservations) \in Seq(Accounts)
            /\ Len(Tail(reservations)) = Len(reservations) - 1
        BY <3>1, <3>4
      <4>2. Len(reservations) \in Nat /\ MaxReservations \in Nat
        BY <3>1, GameServerAssumption
      <4>3. QED BY <3>1, <3>2, <3>4, <4>1, <4>2
    <3>5. QED BY <3>3, <3>4
  <2>3. QED BY <1>1, <1>2, <2>1, <2>2 DEF IInv, ServerTypeOK, Connect
<1>7. AllSound'
  <2>1. IsFiniteSet(new.stacks) /\ IsFiniteSet(new.inbox)
    BY <1>4, FS_EmptySet
  <2>2. Sound(new)
    BY <1>1, <1>4, <1>5, <2>1 DEF Sound, FiniteSession
  <2>3. QED BY <1>2, <2>2 DEF AllSound, IInv
<1>8. ServerAhead' /\ MintedOnce'
  <2>1. \A h \in Live : \A e \in Fresh(sessions[h]) : e \in Nat /\ e < next_free_id
    BY DEF IInv, ServerTypeOK, ServerAhead, Fresh, Held, Session
  <2>2. \A h \in Live : next_free_id \notin Fresh(sessions[h])
    BY <1>1, <2>1
  <2>3. ServerAhead'
    BY <1>1, <1>2, <1>5, <2>1 DEF ServerAhead
  <2>4. MintedOnce'
    <3>1. \A h, k \in Live : h # k => Fresh(sessions[h]) \cap Fresh(sessions[k]) = {}
      BY DEF IInv, MintedOnce, Ids, Fresh, Held
    <3>2. \A h, k \in Live' : h # k => Fresh(sessions'[h]) \cap Fresh(sessions'[k]) = {}
      BY <1>2, <1>5, <2>2, <3>1
    <3>3. QED BY <3>2 DEF MintedOnce, Ids, Fresh, Held
  <2>5. QED BY <2>3, <2>4
<1>9. CatchingUp' /\ RucksackFirst' /\ LoopsAreOver'
  <2>1. \A h \in Live : sessions[h].next <= next_free_id /\ sessions[h].next \in Nat
    BY <1>1 DEF IInv, CatchingUp, MayBeBehind, ServerTypeOK, Session
  <2>2. \A h \in Live' : sessions'[h].next <= next_free_id'
    BY <1>1, <1>2, <1>4, <2>1
  <2>3. QED BY <1>1, <2>2 DEF CatchingUp, RucksackFirst, LoopsAreOver, IInv, Connect
<1>10. QED BY <1>6, <1>7, <1>8, <1>9 DEF IInv

(* An ended session leaves the others as they were.                        *)
LEMMA DisconnectSafe ==
  ASSUME IInv, NEW g \in Guids, Disconnect(g)
  PROVE  IInv'
<1>1. /\ g \in Live /\ phase = "drain" /\ phase' = phase
      /\ next_free_id' = next_free_id
      /\ sessions' = [h \in Live \ {g} |-> sessions[h]]
  BY DEF Disconnect
<1>2. /\ Live' = Live \ {g}
      /\ \A h \in Live' : sessions'[h] = sessions[h]
  BY <1>1 DEF Live
<1>3. ServerTypeOK'
  <2>1. sessions' \in [Live' -> Session]
    BY <1>1, <1>2 DEF IInv, ServerTypeOK
  <2>2. todo' = {}
    BY <1>1 DEF Disconnect, IInv, LoopsAreOver
  <2>3. QED BY <1>1, <1>2, <2>1, <2>2 DEF IInv, ServerTypeOK, Disconnect
<1>4. AllSound' /\ ServerAhead' /\ MintedOnce'
  BY <1>1, <1>2 DEF IInv, AllSound, ServerAhead, MintedOnce, Ids
<1>5. CatchingUp' /\ RucksackFirst' /\ LoopsAreOver'
  <2>1. \A h \in Live' : sessions'[h].next <= next_free_id'
    BY <1>1, <1>2 DEF IInv, CatchingUp, MayBeBehind
  <2>2. QED BY <1>1, <2>1 DEF CatchingUp, RucksackFirst, LoopsAreOver, IInv, Disconnect
<1>6. QED BY <1>3, <1>4, <1>5 DEF IInv

(* A packet or a command, with everything it leaves alone.                 *)
LEMMA PacketKeepsInvariant ==
  ASSUME IInv, NEW g \in Live, NEW t, Follows(sessions[g], t),
         sessions' = [sessions EXCEPT ![g] = t],
         next_free_id' \in Nat, next_free_id <= next_free_id',
         t.next <= next_free_id',
         phase \in {"drain", "commands"},
         UNCHANGED <<phase, todo, gone, inventories, mail>>,
         reservations' \in Seq(Accounts), Len(reservations') <= MaxReservations,
         mints' \in 0 .. MaxMints, reserves' \in 0 .. MaxReserves,
         spent' \subseteq Accounts \cup {None}
  PROVE  IInv'
<1>1. /\ Live' = Live /\ sessions' \in [Live -> Session]
      /\ AllSound' /\ ServerAhead' /\ MintedOnce' /\ CatchingUp' /\ RucksackFirst'
  BY PacketSafe
<1>2. ServerTypeOK' /\ LoopsAreOver'
  BY <1>1 DEF IInv, ServerTypeOK, LoopsAreOver
<1>3. QED BY <1>1, <1>2 DEF IInv

(* A packet that mints nothing only hands the allocator over.              *)
LEMMA OtherPacketSafe ==
  ASSUME IInv, NEW g \in Guids, OtherPacket(g)
  PROVE  IInv'
<1> DEFINE t == InStep(sessions[g])
<1>1. g \in Live /\ TakeBack(g, t)
  BY DEF OtherPacket
<1>2. /\ Sound(t) /\ Fresh(t) = Fresh(sessions[g])
      /\ t.account = sessions[g].account /\ t.body = sessions[g].body
  BY <1>1, InStepSound DEF IInv, ServerTypeOK, Session
<1> HIDE DEF t
<1>3. /\ Follows(sessions[g], t) /\ sessions' = [sessions EXCEPT ![g] = t]
      /\ next_free_id' \in Nat /\ next_free_id <= next_free_id'
      /\ t.next <= next_free_id'
  BY <1>1, <1>2, TakeBackFollows
<1>4. QED BY <1>1, <1>3, PacketKeepsInvariant DEF OtherPacket, IInv, ServerTypeOK

(* Entering the world happens when the socket is read: no loop is under    *)
(* way.                                                                    *)
LEMMA ReadyToPlaySafe ==
  ASSUME IInv, NEW g \in Guids, ReadyToPlay(g)
  PROVE  IInv'
<1> DEFINE s == InStep(sessions[g])
           t == [s EXCEPT !.playing = TRUE]
<1>1. g \in Live /\ TakeBack(g, t)
  BY DEF ReadyToPlay
<1>2. /\ Sound(s) /\ s \in Session /\ Fresh(s) = Fresh(sessions[g])
      /\ s.account = sessions[g].account /\ s.body = sessions[g].body
  <2>1. sessions[g] \in Session /\ next_free_id \in Nat
    BY <1>1 DEF IInv, ServerTypeOK
  <2>2. /\ Sound(s) /\ Fresh(s) = Fresh(sessions[g])
        /\ s = [sessions[g] EXCEPT !.next = s.next]
        /\ s.next \in Nat /\ next_free_id <= s.next
    BY <1>1, InStepSound
  <2> HIDE DEF s
  <2>3. s \in Session
    BY <2>1, <2>2 DEF Session
  <2>4. s.account = sessions[g].account /\ s.body = sessions[g].body
    BY <2>1, <2>2 DEF Session
  <2>5. QED BY <2>1, <2>2, <2>3, <2>4
<1>3. /\ Sound(t) /\ Fresh(t) = Fresh(sessions[g])
      /\ t.account = sessions[g].account /\ t.body = sessions[g].body
  BY <1>2 DEF Sound, FiniteSession, Session, Held, Fresh
<1> HIDE DEF t
<1>4. /\ Follows(sessions[g], t) /\ sessions' = [sessions EXCEPT ![g] = t]
      /\ next_free_id' \in Nat /\ next_free_id <= next_free_id'
      /\ t.next <= next_free_id'
  BY <1>1, <1>3, TakeBackFollows
<1>5. QED BY <1>1, <1>4, PacketKeepsInvariant DEF ReadyToPlay, IInv, ServerTypeOK

(* A stack that is used up takes its id with it.                           *)
LEMMA SpendStackSafe ==
  ASSUME IInv, NEW g \in Guids, NEW e, SpendStack(g, e)
  PROVE  IInv'
<1> DEFINE s == InStep(sessions[g])
           t == [s EXCEPT !.stacks = @ \ {e}]
<1>1. g \in Live /\ TakeBack(g, t)
  BY DEF SpendStack
<1>2. /\ Sound(s) /\ s \in Session /\ Fresh(s) = Fresh(sessions[g])
      /\ s.account = sessions[g].account /\ s.body = sessions[g].body
      /\ s.stacks = sessions[g].stacks
  BY <1>1, InStepSound DEF IInv, ServerTypeOK, Session, Sound, FiniteSession
<1>3. /\ t \in Session /\ t.stacks = s.stacks \ {e} /\ t.inbox = s.inbox
      /\ t.next = s.next /\ t.from_store = s.from_store
      /\ t.items_restored = s.items_restored /\ t.mail_restored = s.mail_restored
      /\ t.account = sessions[g].account /\ t.body = sessions[g].body /\ t.body = s.body
  BY <1>2 DEF Session
<1> HIDE DEF t, s
<1>4. IsFiniteSet(t.stacks)
  BY <1>2, <1>3, FS_RemoveElement DEF Sound, FiniteSession
<1>5. Held(t) \subseteq Held(s) /\ Fresh(t) \subseteq Fresh(sessions[g])
  BY <1>2, <1>3 DEF Held, Fresh
<1>6. Sound(t)
  BY <1>2, <1>3, <1>4, <1>5 DEF Sound, FiniteSession
<1>7. /\ Follows(sessions[g], t) /\ sessions' = [sessions EXCEPT ![g] = t]
      /\ next_free_id' \in Nat /\ next_free_id <= next_free_id'
      /\ t.next <= next_free_id'
  BY <1>1, <1>3, <1>5, <1>6, TakeBackFollows DEF t, s
<1>8. spent' \subseteq Accounts \cup {None}
  BY <1>1 DEF SpendStack, IInv, ServerTypeOK, Session
<1>9. QED BY <1>1, <1>7, <1>8, PacketKeepsInvariant DEF SpendStack, IInv, ServerTypeOK

(* However many ask where to connect, the reservations stay few            *)
(* (reserve_slot drops the oldest).                                        *)
LEMMA ReserveSafe ==
  ASSUME IInv, NEW a \in Accounts, Reserve(a)
  PROVE  reservations' \in Seq(Accounts) /\ Len(reservations') <= MaxReservations
<1> DEFINE all == Append(reservations, a)
<1>1. /\ reservations \in Seq(Accounts) /\ Len(reservations) \in Nat
      /\ Len(reservations) <= MaxReservations /\ MaxReservations \in Nat
  BY GameServerAssumption DEF IInv, ServerTypeOK
<1>2. all \in Seq(Accounts) /\ Len(all) = Len(reservations) + 1
  BY <1>1
<1>3. Tail(all) \in Seq(Accounts) /\ Len(Tail(all)) = Len(reservations)
  BY <1>1, <1>2
<1>4. reservations' = IF Len(all) > MaxReservations THEN Tail(all) ELSE all
  BY DEF Reserve
<1> HIDE DEF all
<1>5. QED BY <1>1, <1>2, <1>3, <1>4

(* A reservation touches no session.                                       *)
LEMMA RetrieveConductorSafe ==
  ASSUME IInv, NEW a \in Accounts, RetrieveConductor(a)
  PROVE  IInv'
<1>1. reservations' \in Seq(Accounts) /\ Len(reservations') <= MaxReservations
  BY ReserveSafe DEF RetrieveConductor
<1>2. reserves' \in 0 .. MaxReserves
  BY GameServerAssumption DEF RetrieveConductor, IInv, ServerTypeOK
<1>3. UNCHANGED <<phase, todo, next_free_id, sessions, gone, inventories, mail, mints, spent>>
  BY DEF RetrieveConductor
<1>4. ServerTypeOK'
  BY <1>1, <1>2, <1>3 DEF IInv, ServerTypeOK, Live
<1>5. QED BY <1>3, <1>4 DEF IInv, LoopsAreOver, AllSound, ServerAhead, CatchingUp, MayBeBehind,
                            RucksackFirst, DueItems, DueMail, MintedOnce, Ids, Live

(* A stack minted in step with the server is past every id it handed out.  *)
LEMMA WithStackFollows ==
  ASSUME IInv, NEW g \in Live, TakeBack(g, WithStack(InStep(sessions[g])))
  PROVE  \E t : /\ Follows(sessions[g], t) /\ sessions' = [sessions EXCEPT ![g] = t]
                /\ next_free_id' \in Nat /\ next_free_id <= next_free_id'
                /\ t.next <= next_free_id'
<1> DEFINE s == InStep(sessions[g])
           t == WithStack(s)
<1>1. /\ Sound(s) /\ s \in Session /\ Fresh(s) = Fresh(sessions[g])
      /\ s.next \in Nat /\ next_free_id <= s.next /\ next_free_id \in Nat
      /\ s.account = sessions[g].account /\ s.body = sessions[g].body
  <2>1. sessions[g] \in Session /\ next_free_id \in Nat
    BY DEF IInv, ServerTypeOK
  <2>2. /\ Sound(s) /\ Fresh(s) = Fresh(sessions[g])
        /\ s = [sessions[g] EXCEPT !.next = s.next]
        /\ s.next \in Nat /\ next_free_id <= s.next
    BY InStepSound
  <2> HIDE DEF s
  <2>3. s \in Session
    BY <2>1, <2>2 DEF Session
  <2>4. s.account = sessions[g].account /\ s.body = sessions[g].body
    BY <2>1, <2>2 DEF Session
  <2>5. QED BY <2>1, <2>2, <2>3, <2>4
<1>2. /\ Minted(s, 1) \subseteq Nat /\ \A e \in Minted(s, 1) : s.next <= e
  BY <1>1, MintedRun
<1>3. /\ t \in Session /\ t.stacks = s.stacks \cup Minted(s, 1) /\ t.inbox = s.inbox
      /\ t.next = s.next + 1 /\ t.from_store = s.from_store
      /\ t.items_restored = s.items_restored /\ t.mail_restored = s.mail_restored
      /\ t.account = sessions[g].account /\ t.body = sessions[g].body /\ t.body = s.body
  <2> HIDE DEF s
  <2> DEFINE run == Minted(s, 1)
  <2>1. run \subseteq Nat
    BY <1>2
  <2> DEFINE u == [s EXCEPT !.stacks = s.stacks \cup run]
  <2>2. t = [u EXCEPT !.next = s.next + 1]
    BY <1>1 DEF WithStack, Session
  <2> HIDE DEF run, t
  <2>3. /\ u \in Session /\ u.next = s.next /\ u.stacks = s.stacks \cup run /\ u.inbox = s.inbox
        /\ u.from_store = s.from_store /\ u.account = s.account /\ u.body = s.body
        /\ u.items_restored = s.items_restored /\ u.mail_restored = s.mail_restored
    BY <1>1, <2>1 DEF Session
  <2> HIDE DEF u
  <2>4. t \in Session /\ t.next = s.next + 1
    BY <1>1, <2>2, <2>3 DEF Session
  <2>5. /\ t.stacks = u.stacks /\ t.inbox = u.inbox
        /\ t.from_store = u.from_store /\ t.account = u.account /\ t.body = u.body
        /\ t.items_restored = u.items_restored /\ t.mail_restored = u.mail_restored
    BY <2>2, <2>3 DEF Session
  <2>6. QED BY <1>1, <2>3, <2>4, <2>5 DEF run
<1> HIDE DEF t, s
<1>4. /\ FiniteSession(t) /\ Held(t) = Held(s) \cup Minted(s, 1)
      /\ \A e \in Held(t) : e < t.next
  BY <1>1, <1>3, MintSound
<1>5. Sound(t)
  BY <1>1, <1>3, <1>4 DEF Sound
<1>6. \A e \in Fresh(t) : e \in Fresh(sessions[g]) \/ next_free_id <= e
  <2> TAKE e \in Fresh(t)
  <2>1. e \in Fresh(s) \/ e \in Minted(s, 1)
    BY <1>3, <1>4 DEF Fresh
  <2>2. CASE e \in Minted(s, 1)
    BY <1>1, <1>2, <2>2
  <2>3. QED BY <1>1, <2>1, <2>2
<1>7. TakeBack(g, t)
  BY DEF t, s
<1>8. QED BY <1>3, <1>5, <1>6, <1>7, TakeBackFollows

(* So is a message. *)
LEMMA WithMessageFollows ==
  ASSUME IInv, NEW g \in Live, TakeBack(g, WithMessage(InStep(sessions[g])))
  PROVE  \E t : /\ Follows(sessions[g], t) /\ sessions' = [sessions EXCEPT ![g] = t]
                /\ next_free_id' \in Nat /\ next_free_id <= next_free_id'
                /\ t.next <= next_free_id'
<1> DEFINE s == InStep(sessions[g])
           t == WithMessage(s)
<1>1. /\ Sound(s) /\ s \in Session /\ Fresh(s) = Fresh(sessions[g])
      /\ s.next \in Nat /\ next_free_id <= s.next /\ next_free_id \in Nat
      /\ s.account = sessions[g].account /\ s.body = sessions[g].body
  <2>1. sessions[g] \in Session /\ next_free_id \in Nat
    BY DEF IInv, ServerTypeOK
  <2>2. /\ Sound(s) /\ Fresh(s) = Fresh(sessions[g])
        /\ s = [sessions[g] EXCEPT !.next = s.next]
        /\ s.next \in Nat /\ next_free_id <= s.next
    BY InStepSound
  <2> HIDE DEF s
  <2>3. s \in Session
    BY <2>1, <2>2 DEF Session
  <2>4. s.account = sessions[g].account /\ s.body = sessions[g].body
    BY <2>1, <2>2 DEF Session
  <2>5. QED BY <2>1, <2>2, <2>3, <2>4
<1>2. /\ Minted(s, 1) \subseteq Nat /\ \A e \in Minted(s, 1) : s.next <= e
  BY <1>1, MintedRun
<1>3. /\ t \in Session /\ t.inbox = s.inbox \cup Minted(s, 1) /\ t.stacks = s.stacks
      /\ t.next = s.next + 1 /\ t.from_store = s.from_store
      /\ t.items_restored = s.items_restored /\ t.mail_restored = s.mail_restored
      /\ t.account = sessions[g].account /\ t.body = sessions[g].body /\ t.body = s.body
  <2> HIDE DEF s
  <2> DEFINE run == Minted(s, 1)
  <2>1. run \subseteq Nat
    BY <1>2
  <2> DEFINE u == [s EXCEPT !.inbox = s.inbox \cup run]
  <2>2. t = [u EXCEPT !.next = s.next + 1]
    BY <1>1 DEF WithMessage, Session
  <2> HIDE DEF run, t
  <2>3. /\ u \in Session /\ u.next = s.next /\ u.stacks = s.stacks /\ u.inbox = s.inbox \cup run
        /\ u.from_store = s.from_store /\ u.account = s.account /\ u.body = s.body
        /\ u.items_restored = s.items_restored /\ u.mail_restored = s.mail_restored
    BY <1>1, <2>1 DEF Session
  <2> HIDE DEF u
  <2>4. t \in Session /\ t.next = s.next + 1
    BY <1>1, <2>2, <2>3 DEF Session
  <2>5. /\ t.stacks = u.stacks /\ t.inbox = u.inbox
        /\ t.from_store = u.from_store /\ t.account = u.account /\ t.body = u.body
        /\ t.items_restored = u.items_restored /\ t.mail_restored = u.mail_restored
    BY <2>2, <2>3 DEF Session
  <2>6. QED BY <1>1, <2>3, <2>4, <2>5 DEF run
<1> HIDE DEF t, s
<1>4. /\ FiniteSession(t) /\ Held(t) = Held(s) \cup Minted(s, 1)
      /\ \A e \in Held(t) : e < t.next
  BY <1>1, <1>3, MintSound
<1>5. Sound(t)
  BY <1>1, <1>3, <1>4 DEF Sound
<1>6. \A e \in Fresh(t) : e \in Fresh(sessions[g]) \/ next_free_id <= e
  <2> TAKE e \in Fresh(t)
  <2>1. e \in Fresh(s) \/ e \in Minted(s, 1)
    BY <1>3, <1>4 DEF Fresh
  <2>2. CASE e \in Minted(s, 1)
    BY <1>1, <1>2, <2>2
  <2>3. QED BY <1>1, <2>1, <2>2
<1>7. TakeBack(g, t)
  BY DEF t, s
<1>8. QED BY <1>3, <1>5, <1>6, <1>7, TakeBackFollows

(* A packet that makes a stack (a split, a craft, a pickup).               *)
LEMMA GainStackSafe ==
  ASSUME IInv, NEW g \in Guids, GainStack(g)
  PROVE  IInv'
<1>1. g \in Live /\ TakeBack(g, WithStack(InStep(sessions[g])))
  BY DEF GainStack
<1>2. mints' \in 0 .. MaxMints
  BY GameServerAssumption DEF GainStack, IInv, ServerTypeOK
<1>3. QED BY <1>1, <1>2, WithStackFollows, PacketKeepsInvariant DEF GainStack, IInv, ServerTypeOK

(* Sending a player on reserves a slot and mints nothing.                  *)
LEMMA SetOffSafe ==
  ASSUME IInv, NEW g \in Guids, SetOff(g)
  PROVE  IInv'
<1> DEFINE t == InStep(sessions[g])
<1>1. g \in Live /\ TakeBack(g, t) /\ sessions[g].account \in Accounts
  BY DEF SetOff, IInv, ServerTypeOK, Session
<1>2. /\ Sound(t) /\ Fresh(t) = Fresh(sessions[g])
      /\ t.account = sessions[g].account /\ t.body = sessions[g].body
  BY <1>1, InStepSound DEF IInv, ServerTypeOK, Session
<1> HIDE DEF t
<1>3. /\ Follows(sessions[g], t) /\ sessions' = [sessions EXCEPT ![g] = t]
      /\ next_free_id' \in Nat /\ next_free_id <= next_free_id'
      /\ t.next <= next_free_id'
  BY <1>1, <1>2, TakeBackFollows
<1>4. reservations' \in Seq(Accounts) /\ Len(reservations') <= MaxReservations
  BY <1>1, ReserveSafe DEF SetOff
<1>5. reserves' \in 0 .. MaxReserves
  BY GameServerAssumption DEF SetOff, IInv, ServerTypeOK
<1>6. QED BY <1>1, <1>3, <1>4, <1>5, PacketKeepsInvariant DEF SetOff, IInv, ServerTypeOK

-----------------------------------------------------------------------------
(* The admin commands. *)

(* The give command, refused or not.                                       *)
LEMMA GiveSafe ==
  ASSUME IInv, NEW g \in Guids, GiveStack(g)
  PROVE  IInv'
<1>1. g \in Live /\ phase = "commands"
  BY DEF GiveStack
<1>2. CASE TakeBack(g, WithStack(InStep(sessions[g]))) /\ mints < MaxMints /\ mints' = mints + 1
  <2>1. mints' \in 0 .. MaxMints
    BY <1>2, GameServerAssumption DEF IInv, ServerTypeOK
  <2>2. QED BY <1>1, <1>2, <2>1, WithStackFollows, PacketKeepsInvariant DEF GiveStack, IInv, ServerTypeOK
<1>3. CASE sessions' = [sessions EXCEPT ![g] = InStep(@)] /\ UNCHANGED <<mints, next_free_id>>
  <2> DEFINE t == InStep(sessions[g])
  <2>1. sessions[g] \in Session /\ next_free_id \in Nat
    BY <1>1 DEF IInv, ServerTypeOK
  <2>2. sessions[g].next <= next_free_id
    BY <1>1 DEF IInv, CatchingUp, MayBeBehind
  <2>3. t.next = next_free_id
    BY <2>1, <2>2 DEF InStep, Larger, Session
  <2>4. /\ Sound(t) /\ Fresh(t) = Fresh(sessions[g])
        /\ t.account = sessions[g].account /\ t.body = sessions[g].body
    BY <1>1, InStepSound DEF IInv, ServerTypeOK, Session
  <2> HIDE DEF t
  <2>5. Follows(sessions[g], t)
    BY <1>1, <1>3, <2>4 DEF Follows, IInv, ServerAhead
  <2>6. sessions' = [sessions EXCEPT ![g] = t]
    BY <1>3 DEF t
  <2>7. /\ next_free_id' \in Nat /\ next_free_id <= next_free_id'
        /\ t.next <= next_free_id'
    BY <1>3, <2>1, <2>3
  <2>8. /\ UNCHANGED <<phase, todo, gone, reservations, inventories, mail, reserves, spent>>
        /\ reservations \in Seq(Accounts) /\ Len(reservations) <= MaxReservations
        /\ mints \in 0 .. MaxMints /\ reserves \in 0 .. MaxReserves
        /\ spent \subseteq Accounts \cup {None}
    BY DEF GiveStack, IInv, ServerTypeOK
  <2>9. QED BY <1>1, <1>3, <2>5, <2>6, <2>7, <2>8, PacketKeepsInvariant
<1>4. QED BY <1>2, <1>3 DEF GiveStack

(* The clear command takes no allocator and needs none.                    *)
LEMMA ClearInventorySafe ==
  ASSUME IInv, NEW g \in Guids, ClearInventory(g)
  PROVE  IInv'
<1> DEFINE s == sessions[g]
           t == [s EXCEPT !.stacks = {}]
<1>1. g \in Live /\ phase = "commands" /\ next_free_id' = next_free_id
  BY DEF ClearInventory
<1>2. Sound(s) /\ s \in Session /\ next_free_id \in Nat /\ s.next <= next_free_id
  BY <1>1 DEF IInv, ServerTypeOK, AllSound, CatchingUp, MayBeBehind
<1>3. /\ t \in Session /\ t.stacks = {} /\ t.inbox = s.inbox
      /\ t.next = s.next /\ t.from_store = s.from_store
      /\ t.items_restored = s.items_restored /\ t.mail_restored = s.mail_restored
      /\ t.account = s.account /\ t.body = s.body
  BY <1>2 DEF Session
<1>4. sessions' = [sessions EXCEPT ![g] = t]
  BY DEF ClearInventory
<1> HIDE DEF t
<1>5. Held(t) \subseteq Held(s) /\ Fresh(t) \subseteq Fresh(s)
  BY <1>3 DEF Held, Fresh
<1>6. Sound(t)
  BY <1>2, <1>3, <1>5, FS_EmptySet DEF Sound, FiniteSession
<1>7. Follows(s, t)
  BY <1>1, <1>3, <1>5, <1>6 DEF Follows, IInv, ServerAhead
<1>8. spent' \subseteq Accounts \cup {None}
  BY <1>2 DEF ClearInventory, IInv, ServerTypeOK, Session
<1>9. /\ next_free_id' \in Nat /\ next_free_id <= next_free_id'
      /\ t.next <= next_free_id'
  BY <1>1, <1>2, <1>3
<1>10. /\ UNCHANGED <<phase, todo, gone, reservations, inventories, mail, mints, reserves>>
       /\ reservations \in Seq(Accounts) /\ Len(reservations) <= MaxReservations
       /\ mints \in 0 .. MaxMints /\ reserves \in 0 .. MaxReserves
  BY DEF ClearInventory, IInv, ServerTypeOK
<1>11. QED BY <1>1, <1>4, <1>7, <1>8, <1>9, <1>10, PacketKeepsInvariant

(* The mail command.                                                       *)
LEMMA SendMailSafe ==
  ASSUME IInv, NEW g \in Guids, SendMail(g)
  PROVE  IInv'
<1>1. g \in Live /\ TakeBack(g, WithMessage(InStep(sessions[g])))
  BY DEF SendMail
<1>2. mints' \in 0 .. MaxMints
  BY GameServerAssumption DEF SendMail, IInv, ServerTypeOK
<1>3. QED BY <1>1, <1>2, WithMessageFollows, PacketKeepsInvariant DEF SendMail, IInv, ServerTypeOK

-----------------------------------------------------------------------------
(* The loops at the end of a tick. *)

(* Only this step leaves the server behind a session, and only one whose   *)
(* inbox the next loop restores (restore_inventories).                     *)
LEMMA RestoreItemsSafe ==
  ASSUME IInv, NEW g \in Guids, RestoreItems(g)
  PROVE  IInv'
<1> DEFINE s == sessions[g]
           n == ItemsToRestore(s)
           run == Minted(s, n)
<1>1. /\ phase = "restore_inventories" /\ phase' = phase /\ g \in Live
      /\ todo' = todo \ {g} /\ next_free_id' = next_free_id
      /\ UNCHANGED <<gone, reservations, inventories, mail, mints, reserves, spent>>
  BY DEF RestoreItems, Visit, IInv, ServerTypeOK
<1>2. /\ s \in Session /\ Sound(s) /\ s.next \in Nat /\ next_free_id \in Nat
      /\ todo \subseteq Live
  BY <1>1 DEF IInv, ServerTypeOK, AllSound, Session
<1>3. CASE ~DueItems(s) /\ UNCHANGED sessions
  <2>1. Live' = Live
    BY <1>3 DEF Live
  <2>2. ServerTypeOK' /\ LoopsAreOver'
    BY <1>1, <1>2, <1>3, <2>1 DEF IInv, ServerTypeOK, LoopsAreOver
  <2>3. RucksackFirst'
    BY <1>1, <1>3, <2>1 DEF IInv, RucksackFirst, DueItems
  <2>4. QED
    BY <1>1, <1>3, <2>1, <2>2, <2>3
       DEF IInv, AllSound, ServerAhead, MintedOnce, Ids, CatchingUp, MayBeBehind, DueMail
<1>4. ASSUME DueItems(s),
             sessions' = [sessions EXCEPT ![g] = [s EXCEPT !.stacks = @ \cup run,
                            !.from_store = run, !.next = @ + n, !.items_restored = TRUE]]
      PROVE  IInv'
  <2> DEFINE t == [s EXCEPT !.stacks = @ \cup run, !.from_store = run, !.next = @ + n,
                            !.items_restored = TRUE]
  <2>1. /\ s.playing /\ ~s.items_restored /\ s.account # None /\ ~s.mail_restored
        /\ s.from_store = {}
    BY <1>2, <1>4 DEF DueItems, Sound
  <2>2. n \in Nat
    BY <1>2, <2>1 DEF ItemsToRestore, Session, IInv, ServerTypeOK
  <2> HIDE DEF n
  <2>3. run \subseteq Nat
    BY <1>2, <2>2, MintedRun
  <2> HIDE DEF run, s
  <2>4. /\ t \in Session /\ t.next = s.next + n /\ t.from_store = run
        /\ t.stacks = s.stacks \cup run /\ t.inbox = s.inbox
        /\ t.items_restored /\ t.mail_restored = s.mail_restored
        /\ t.account = s.account /\ t.body = s.body /\ t.playing = s.playing
    <3> DEFINE m == s.next + n
    <3>1. m \in Nat /\ run \in SUBSET Nat /\ s \in Session
      BY <1>2, <2>2, <2>3
    <3>2. t = [s EXCEPT !.stacks = s.stacks \cup run, !.from_store = run, !.next = m,
                         !.items_restored = TRUE]
      OBVIOUS
    <3> HIDE DEF m, t
    <3>3. /\ t \in Session /\ t.next = m /\ t.from_store = run
          /\ t.stacks = s.stacks \cup run /\ t.inbox = s.inbox
          /\ t.items_restored /\ t.mail_restored = s.mail_restored
          /\ t.account = s.account /\ t.body = s.body /\ t.playing = s.playing
      BY <3>1, <3>2 DEF Session
    <3>4. QED BY <3>3 DEF m
  <2>5. sessions' = [sessions EXCEPT ![g] = t]
    BY <1>4
  <2> HIDE DEF t
  <2>6. /\ FiniteSession(t) /\ Held(t) = Held(s) \cup run
        /\ \A e \in Held(t) : e < t.next
    BY <1>2, <2>2, <2>4, MintSound DEF run
  <2>7. Sound(t)
    BY <2>4, <2>6 DEF Sound
  <2>8. Fresh(t) \subseteq Fresh(s)
    BY <2>1, <2>4, <2>6 DEF Fresh
  <2>9. Follows(s, t)
    BY <1>1, <2>4, <2>7, <2>8 DEF Follows, IInv, ServerAhead, s
  <2>10. /\ Live' = Live /\ sessions' \in [Live -> Session] /\ sessions'[g] = t
         /\ \A h \in Live \ {g} : sessions'[h] = sessions[h]
         /\ AllSound' /\ ServerAhead' /\ MintedOnce'
    <3>1. next_free_id' \in Nat /\ next_free_id <= next_free_id'
      BY <1>1, <1>2
    <3>2. QED BY <1>1, <2>5, <2>9, <3>1, ReplaceSafe DEF s
  <2>11. ServerTypeOK' /\ LoopsAreOver'
    BY <1>1, <1>2, <2>10 DEF IInv, ServerTypeOK, LoopsAreOver
  <2>12. CatchingUp'
    BY <1>1, <2>1, <2>4, <2>10 DEF CatchingUp, MayBeBehind, DueMail, IInv
  <2>13. RucksackFirst'
    BY <1>1, <2>4, <2>10 DEF RucksackFirst, DueItems, IInv
  <2>14. QED BY <2>10, <2>11, <2>12, <2>13 DEF IInv
<1>5. QED BY <1>3, <1>4 DEF RestoreItems

(* The restore of an inbox hands back what both restores took.             *)
LEMMA RestoreMailSafe ==
  ASSUME IInv, NEW g \in Guids, RestoreMail(g)
  PROVE  IInv'
<1> DEFINE s == InStep(sessions[g])
           n == MailToRestore(s)
           run == Minted(s, n)
<1>1. /\ phase = "restore_mailboxes" /\ phase' = phase /\ g \in Live
      /\ todo' = todo \ {g}
      /\ UNCHANGED <<gone, reservations, inventories, mail, mints, reserves, spent>>
  BY DEF RestoreMail, Visit, IInv, ServerTypeOK
<1>2. /\ sessions[g] \in Session /\ next_free_id \in Nat /\ todo \subseteq Live
      /\ Sound(s) /\ s \in Session /\ s.next \in Nat /\ next_free_id <= s.next
      /\ Fresh(s) = Fresh(sessions[g])
      /\ s.account = sessions[g].account /\ s.body = sessions[g].body
      /\ s.playing = sessions[g].playing /\ s.mail_restored = sessions[g].mail_restored
      /\ s.items_restored = sessions[g].items_restored
  <2>1. s = [sessions[g] EXCEPT !.next = s.next] /\ sessions[g] \in Session
    BY <1>1, InStepSound DEF IInv, ServerTypeOK
  <2>2. s.account = sessions[g].account /\ s.body = sessions[g].body
    BY <2>1 DEF Session
  <2>3. Sound(s) /\ s \in Session /\ next_free_id \in Nat /\ todo \subseteq Live
    BY <1>1, InStepSound DEF Sound, FiniteSession, IInv, ServerTypeOK
  <2> HIDE DEF s
  <2>4. QED BY <1>1, <2>1, <2>2, <2>3, InStepSound DEF s
<1>3. CASE ~DueMail(s) /\ UNCHANGED <<sessions, next_free_id>>
  <2>1. Live' = Live
    BY <1>3 DEF Live
  <2>2. ServerTypeOK' /\ LoopsAreOver'
    BY <1>1, <1>2, <1>3, <2>1 DEF IInv, ServerTypeOK, LoopsAreOver
  <2>3. ~DueMail(sessions[g])
    BY <1>2, <1>3 DEF DueMail
  <2>4. CatchingUp'
    BY <1>1, <1>3, <2>1, <2>3 DEF IInv, CatchingUp, MayBeBehind, DueMail
  <2>5. QED
    BY <1>1, <1>3, <2>1, <2>2, <2>4
       DEF IInv, AllSound, ServerAhead, MintedOnce, Ids, RucksackFirst, DueItems
<1>4. ASSUME DueMail(s),
             TakeBack(g, [s EXCEPT !.inbox = @ \cup run, !.next = @ + n,
                                   !.mail_restored = TRUE])
      PROVE  IInv'
  <2> DEFINE t == [s EXCEPT !.inbox = @ \cup run, !.next = @ + n, !.mail_restored = TRUE]
  <2>1. s.playing /\ s.account # None /\ s.items_restored
    BY <1>1, <1>2, <1>4 DEF DueMail, DueItems, IInv, RucksackFirst
  <2>2. n \in Nat
    BY <1>2, <2>1 DEF MailToRestore, Session, IInv, ServerTypeOK
  <2> HIDE DEF n
  <2>3. run \subseteq Nat /\ \A e \in run : s.next <= e
    BY <1>2, <2>2, MintedRun
  <2> HIDE DEF run, s
  <2>4. /\ t \in Session /\ t.next = s.next + n /\ t.from_store = s.from_store
        /\ t.stacks = s.stacks /\ t.inbox = s.inbox \cup run
        /\ t.items_restored = s.items_restored /\ t.mail_restored
        /\ t.account = s.account /\ t.body = s.body /\ t.playing = s.playing
    <3> DEFINE m == s.next + n
    <3>1. m \in Nat /\ run \in SUBSET Nat /\ s \in Session
      BY <1>2, <2>2, <2>3
    <3>2. t = [s EXCEPT !.inbox = s.inbox \cup run, !.next = m, !.mail_restored = TRUE]
      OBVIOUS
    <3> HIDE DEF m, t
    <3>3. /\ t \in Session /\ t.next = m /\ t.from_store = s.from_store
          /\ t.stacks = s.stacks /\ t.inbox = s.inbox \cup run
          /\ t.items_restored = s.items_restored /\ t.mail_restored
          /\ t.account = s.account /\ t.body = s.body /\ t.playing = s.playing
      BY <3>1, <3>2 DEF Session
    <3>4. QED BY <3>3 DEF m
  <2>5. TakeBack(g, t)
    BY <1>4
  <2> HIDE DEF t
  <2>6. /\ FiniteSession(t) /\ Held(t) = Held(s) \cup run
        /\ \A e \in Held(t) : e < t.next
    BY <1>2, <2>2, <2>4, MintSound DEF run
  <2>7. Sound(t)
    BY <2>1, <2>4, <2>6 DEF Sound
  <2>8. \A e \in Fresh(t) : e \in Fresh(sessions[g]) \/ next_free_id <= e
    <3> TAKE e \in Fresh(t)
    <3>1. e \in Fresh(s) \/ e \in run
      BY <2>4, <2>6 DEF Fresh
    <3>2. CASE e \in run
      BY <1>2, <2>3, <3>2
    <3>3. QED BY <1>2, <3>1, <3>2
  <2>9. /\ Follows(sessions[g], t) /\ sessions' = [sessions EXCEPT ![g] = t]
        /\ next_free_id' \in Nat /\ next_free_id <= next_free_id'
        /\ t.next <= next_free_id'
    BY <1>1, <1>2, <2>4, <2>5, <2>7, <2>8, TakeBackFollows
  <2>10. /\ Live' = Live /\ sessions' \in [Live -> Session] /\ sessions'[g] = t
         /\ \A h \in Live \ {g} : sessions'[h] = sessions[h]
         /\ AllSound' /\ ServerAhead' /\ MintedOnce'
    BY <1>1, <2>9, ReplaceSafe
  <2>11. ServerTypeOK' /\ LoopsAreOver'
    BY <1>1, <1>2, <2>9, <2>10 DEF IInv, ServerTypeOK, LoopsAreOver
  <2>12. CatchingUp'
    <3> SUFFICES ASSUME NEW h \in Live
                 PROVE  sessions'[h].next <= next_free_id' \/ MayBeBehind(h)'
      BY <2>10 DEF CatchingUp
    <3>1. CASE h = g
      BY <2>9, <2>10, <3>1
    <3>2. CASE h # g /\ MayBeBehind(h)
      BY <1>1, <2>10, <3>2 DEF MayBeBehind, DueMail
    <3>3. CASE h # g /\ sessions[h].next <= next_free_id
      <4>1. sessions[h].next \in Nat
        BY DEF IInv, ServerTypeOK, Session
      <4>2. QED BY <1>2, <2>9, <2>10, <3>3, <4>1
    <3>4. QED BY <3>1, <3>2, <3>3 DEF IInv, CatchingUp
  <2>13. RucksackFirst'
    BY <1>1, <2>1, <2>4, <2>10 DEF RucksackFirst, DueItems, IInv
  <2>14. QED BY <2>10, <2>11, <2>12, <2>13 DEF IInv
<1>5. QED BY <1>3, <1>4 DEF RestoreMail

(* A visit that only notes what was written down, once all are caught up.  *)
LEMMA NoteSafe ==
  ASSUME IInv, NEW g \in Live, NEW t \in Session,
         LET s == sessions[g]
         IN  /\ t.account = s.account /\ t.body = s.body /\ t.next = s.next
             /\ t.stacks = s.stacks /\ t.from_store = s.from_store /\ t.inbox = s.inbox
             /\ t.items_restored = s.items_restored /\ t.mail_restored = s.mail_restored,
         sessions' = [sessions EXCEPT ![g] = t],
         phase \in {"record_inventories", "record_mailboxes"}, phase' = phase,
         next_free_id' = next_free_id, todo' \subseteq todo,
         UNCHANGED <<gone, reservations, mints, reserves>>,
         inventories' \in [Accounts -> Nat], mail' \in [Accounts -> Nat],
         spent' \subseteq Accounts \cup {None}
  PROVE  IInv'
<1>1. Held(t) = Held(sessions[g]) /\ Fresh(t) = Fresh(sessions[g])
  BY DEF Held, Fresh
<1>2. Follows(sessions[g], t)
  <2>1. Sound(sessions[g])
    BY DEF IInv, AllSound
  <2>2. Sound(t)
    BY <1>1, <2>1 DEF Sound, FiniteSession
  <2>3. QED BY <1>1, <2>2 DEF Follows, IInv, ServerAhead
<1>3. next_free_id \in Nat /\ next_free_id' \in Nat /\ next_free_id <= next_free_id'
  BY DEF IInv, ServerTypeOK
<1>4. /\ Live' = Live /\ sessions' \in [Live -> Session] /\ sessions'[g] = t
      /\ \A h \in Live \ {g} : sessions'[h] = sessions[h]
      /\ AllSound' /\ ServerAhead' /\ MintedOnce'
  BY <1>2, <1>3, ReplaceSafe
<1>5. ServerTypeOK' /\ LoopsAreOver' /\ RucksackFirst'
  BY <1>4 DEF IInv, ServerTypeOK, LoopsAreOver, RucksackFirst
<1>6. CatchingUp'
  BY <1>4 DEF IInv, CatchingUp, MayBeBehind
<1>7. QED BY <1>4, <1>5, <1>6 DEF IInv

(* A visit that finds nothing to write down.                               *)
LEMMA PassSafe ==
  ASSUME IInv, NEW g \in Live, sessions' = sessions,
         phase \in {"record_inventories", "record_mailboxes"}, phase' = phase,
         next_free_id' = next_free_id, todo' \subseteq todo,
         UNCHANGED <<gone, reservations, mints, reserves, inventories, mail>>,
         spent' \subseteq Accounts \cup {None}
  PROVE  IInv'
<1>1. Live' = Live
  BY DEF Live
<1>2. ServerTypeOK' /\ LoopsAreOver' /\ RucksackFirst'
  BY <1>1 DEF IInv, ServerTypeOK, LoopsAreOver, RucksackFirst
<1>3. CatchingUp'
  BY <1>1 DEF IInv, CatchingUp, MayBeBehind
<1>4. QED BY <1>1, <1>2, <1>3 DEF IInv, AllSound, ServerAhead, MintedOnce, Ids

(* Writing a rucksack down moves no id.                                    *)
LEMMA RecordItemsSafe ==
  ASSUME IInv, NEW g \in Guids, RecordItems(g)
  PROVE  IInv'
<1> DEFINE s == sessions[g]
<1>1. /\ phase = "record_inventories" /\ phase' = phase /\ g \in Live
      /\ todo' \subseteq todo /\ next_free_id' = next_free_id
      /\ UNCHANGED <<gone, reservations, mail, mints, reserves>>
  BY DEF RecordItems, Visit, IInv, ServerTypeOK
<1>2. /\ s \in Session /\ Sound(s) /\ inventories \in [Accounts -> Nat]
      /\ mail \in [Accounts -> Nat] /\ spent \subseteq Accounts \cup {None}
  BY <1>1 DEF IInv, ServerTypeOK, AllSound
<1>3. spent' \subseteq Accounts \cup {None}
  BY <1>2 DEF RecordItems
<1>4. ASSUME NEW now \in ItemsToRecord(s),
             sessions' = [sessions EXCEPT ![g].recorded_items = now],
             inventories' = [a \in Accounts |-> IF a = s.account THEN now ELSE inventories[a]]
      PROVE  IInv'
  <2> DEFINE t == [s EXCEPT !.recorded_items = now]
  <2>1. now \in Nat
    BY <1>2, FS_CardinalityType DEF ItemsToRecord, Sound, FiniteSession
  <2>2. /\ t \in Session /\ t.account = s.account /\ t.body = s.body /\ t.next = s.next
        /\ t.stacks = s.stacks /\ t.from_store = s.from_store /\ t.inbox = s.inbox
        /\ t.items_restored = s.items_restored /\ t.mail_restored = s.mail_restored
    BY <1>2, <2>1 DEF Session
  <2>3. sessions' = [sessions EXCEPT ![g] = t]
    BY <1>4
  <2>4. inventories' \in [Accounts -> Nat] /\ mail' \in [Accounts -> Nat]
    BY <1>1, <1>2, <1>4, <2>1
  <2> HIDE DEF t
  <2>5. QED BY <1>1, <1>3, <2>2, <2>3, <2>4, NoteSafe
<1>5. CASE UNCHANGED <<sessions, inventories>>
  BY <1>1, <1>3, <1>5, PassSafe
<1>6. QED BY <1>4, <1>5 DEF RecordItems

(* Writing an inbox down moves no id.                                      *)
LEMMA RecordMailSafe ==
  ASSUME IInv, NEW g \in Guids, RecordMail(g)
  PROVE  IInv'
<1> DEFINE s == sessions[g]
<1>1. /\ phase = "record_mailboxes" /\ phase' = phase /\ g \in Live
      /\ todo' \subseteq todo /\ next_free_id' = next_free_id
      /\ UNCHANGED <<gone, reservations, inventories, mints, reserves, spent>>
  BY DEF RecordMail, Visit, IInv, ServerTypeOK
<1>2. /\ s \in Session /\ Sound(s) /\ inventories \in [Accounts -> Nat]
      /\ mail \in [Accounts -> Nat] /\ spent' \subseteq Accounts \cup {None}
  BY <1>1 DEF IInv, ServerTypeOK, AllSound
<1>3. ASSUME NEW now \in MailToRecord(s),
             sessions' = [sessions EXCEPT ![g].recorded_mail = now],
             mail' = [a \in Accounts |-> IF a = s.account THEN now ELSE mail[a]]
      PROVE  IInv'
  <2> DEFINE t == [s EXCEPT !.recorded_mail = now]
  <2>1. now \in Nat
    BY <1>2, FS_CardinalityType DEF MailToRecord, Sound, FiniteSession
  <2>2. /\ t \in Session /\ t.account = s.account /\ t.body = s.body /\ t.next = s.next
        /\ t.stacks = s.stacks /\ t.from_store = s.from_store /\ t.inbox = s.inbox
        /\ t.items_restored = s.items_restored /\ t.mail_restored = s.mail_restored
    BY <1>2, <2>1 DEF Session
  <2>3. sessions' = [sessions EXCEPT ![g] = t]
    BY <1>3
  <2>4. inventories' \in [Accounts -> Nat] /\ mail' \in [Accounts -> Nat]
    BY <1>1, <1>2, <1>3, <2>1
  <2> HIDE DEF t
  <2>5. QED BY <1>1, <1>2, <2>2, <2>3, <2>4, NoteSafe
<1>4. CASE UNCHANGED <<sessions, mail>>
  BY <1>1, <1>2, <1>4, PassSafe
<1>5. QED BY <1>3, <1>4 DEF RecordMail

(* From loop to loop: nobody is left behind when the last restore is over. *)
LEMMA NextPhaseSafe ==
  ASSUME IInv, NextPhase
  PROVE  IInv'
<1>1. /\ todo = {} /\ phase' = After[phase]
      /\ todo' = IF phase' \in {"drain", "commands"} THEN {} ELSE Live
      /\ UNCHANGED <<next_free_id, sessions, gone, reservations, inventories, mail,
                      mints, reserves, spent>>
  BY DEF NextPhase
<1>2. Live' = Live
  BY <1>1 DEF Live
<1>3. phase \in {"drain", "commands", "restore_inventories", "restore_mailboxes",
                 "record_inventories", "record_mailboxes"}
  BY DEF IInv, ServerTypeOK, After
<1>4. ServerTypeOK' /\ LoopsAreOver'
  BY <1>1, <1>2, <1>3 DEF IInv, ServerTypeOK, After, LoopsAreOver
<1>5. CatchingUp'
  BY <1>1, <1>2, <1>3 DEF IInv, CatchingUp, MayBeBehind, DueMail, After
<1>6. RucksackFirst'
  BY <1>1, <1>2, <1>3 DEF IInv, RucksackFirst, DueItems, After
<1>7. QED BY <1>1, <1>2, <1>4, <1>5, <1>6 DEF IInv, AllSound, ServerAhead, MintedOnce, Ids

-----------------------------------------------------------------------------
(* The theorems about ids. *)

(* A server that has just started has no session.                          *)
LEMMA InitInvariant == ServerInit => IInv
<1> SUFFICES ASSUME ServerInit PROVE IInv
  OBVIOUS
<1>1. Live = {}
  BY DEF ServerInit, Live
<1>2. ServerTypeOK
  <2>1. <<>> \in Seq(Accounts) /\ Len(<<>>) = 0
    OBVIOUS
  <2>2. sessions \in [Live -> Session]
    BY <1>1 DEF ServerInit
  <2>3. QED BY <1>1, <2>1, <2>2, GameServerAssumption DEF ServerInit, ServerTypeOK, After
<1>3. QED BY <1>1, <1>2 DEF ServerInit, IInv, LoopsAreOver, AllSound, ServerAhead, CatchingUp,
             RucksackFirst, MintedOnce

(* Every step keeps the invariant.                                         *)
LEMMA StepInvariant == IInv /\ [ServerNext]_server_vars => IInv'
<1> SUFFICES ASSUME IInv, [ServerNext]_server_vars
             PROVE  IInv'
  OBVIOUS
<1>1. CASE UNCHANGED server_vars
  BY <1>1 DEF server_vars, IInv, ServerTypeOK, LoopsAreOver, AllSound, ServerAhead, CatchingUp, MayBeBehind,
              DueMail, DueItems, RucksackFirst, MintedOnce, Ids, Live
<1>2. ASSUME NEW g \in Guids, Drain(g)
      PROVE  IInv'
  BY <1>2, ConnectSafe, DisconnectSafe, ReadyToPlaySafe, GainStackSafe, SpendStackSafe,
     SetOffSafe, OtherPacketSafe DEF Drain
<1>3. ASSUME NEW g \in Guids, Command(g)
      PROVE  IInv'
  BY <1>3, GiveSafe, ClearInventorySafe, SendMailSafe DEF Command
<1>4. ASSUME NEW g \in Guids, EndOfTick(g)
      PROVE  IInv'
  BY <1>4, RestoreItemsSafe, RestoreMailSafe, RecordItemsSafe, RecordMailSafe DEF EndOfTick
<1>5. QED BY <1>1, <1>2, <1>3, <1>4, RetrieveConductorSafe, NextPhaseSafe DEF ServerNext

(* The inductive invariant holds in every state of every behaviour.        *)
THEOREM InvariantHolds == ServerSpec => []IInv
BY InitInvariant, StepInvariant, PTL DEF ServerSpec

(* Whatever connects, plays and is commanded, every variable keeps its     *)
(* type (server.rs).                                                       *)
THEOREM TypeCorrect == ServerSpec => []ServerTypeOK
<1>1. IInv => ServerTypeOK
  BY DEF IInv
<1>2. QED BY <1>1, InvariantHolds, PTL

(* What sessions mint in play never has an id another session holds:       *)
(* handing the allocator over around packets, commands and the restore of  *)
(* an inbox is enough (drain, give, mail, restore_mailboxes).              *)
THEOREM IdsAreMintedOnce == ServerSpec => []MintedOnce
<1>1. IInv => MintedOnce
  BY DEF IInv
<1>2. QED BY <1>1, InvariantHolds, PTL

(* When the socket is read the server's allocator is past every id, those  *)
(* a restore of a rucksack minted out of step included.                    *)
THEOREM AllocatorCatchesUp == ServerSpec => []AllocatorCaughtUp
<1>1. IInv => AllocatorCaughtUp
  <2> SUFFICES ASSUME IInv, phase \in {"drain", "commands"}, NEW g \in Live
               PROVE  /\ sessions[g].next <= next_free_id
                      /\ \A e \in Ids(g) : e < next_free_id
    BY DEF AllocatorCaughtUp
  <2>1. sessions[g].next <= next_free_id
    BY DEF IInv, CatchingUp, MayBeBehind
  <2>2. /\ sessions[g].next \in Nat /\ next_free_id \in Nat
        /\ \A e \in Ids(g) : e \in Nat /\ e < sessions[g].next
    BY DEF IInv, ServerTypeOK, AllSound, Sound, Held, Ids, Session
  <2>3. QED BY <2>1, <2>2
<1>2. QED BY <1>1, InvariantHolds, PTL

-----------------------------------------------------------------------------
(* Who has been served. *)

(* Whoever a loop has passed is due nothing, and neither is anybody once   *)
(* the loop is over: what comes after it makes nobody a player.            *)
ServedSoFar ==
  /\ phase = "restore_inventories" =>
       \A g \in Live \ todo : ~DueItems(sessions[g])
  /\ phase \in {"restore_mailboxes", "record_inventories", "record_mailboxes"} =>
       \A g \in Live : ~DueItems(sessions[g])
  /\ phase = "restore_mailboxes" =>
       \A g \in Live \ todo : ~DueMail(sessions[g])
  /\ phase \in {"record_inventories", "record_mailboxes"} =>
       \A g \in Live : ~DueMail(sessions[g])

(* Of what a session is due only its restores can tell it otherwise.       *)
LEMMA VisitsServe ==
  ASSUME ServerTypeOK, ServedSoFar, NEW g \in Guids, EndOfTick(g)
  PROVE  ServedSoFar'
<1> DEFINE s == sessions[g]
<1>1. g \in Live /\ sessions \in [Live -> Session] /\ s \in Session
      /\ phase' = phase /\ todo' = todo \ {g} /\ todo \subseteq Live
  BY DEF EndOfTick, RestoreItems, RestoreMail, RecordItems, RecordMail, Visit, ServerTypeOK
<1>2. CASE RestoreItems(g)
  <2>1. phase = "restore_inventories" /\ Live' = Live
    BY <1>1, <1>2 DEF RestoreItems, Visit, Live
  <2>2. \A h \in Live : h # g => sessions'[h] = sessions[h]
    BY <1>1, <1>2 DEF RestoreItems, Live
  <2>3. ~DueItems(sessions'[g])
    BY <1>1, <1>2 DEF RestoreItems, DueItems, Session, Live
  <2> QED BY <1>1, <2>1, <2>2, <2>3 DEF ServedSoFar, DueItems, DueMail
<1>3. CASE RestoreMail(g)
  <2>1. phase = "restore_mailboxes" /\ Live' = Live
    BY <1>1, <1>3 DEF RestoreMail, Visit, Live, TakeBack
  <2>2. \A h \in Live : h # g => sessions'[h] = sessions[h]
    BY <1>1, <1>3 DEF RestoreMail, Live, TakeBack
  <2>3. /\ ~DueMail(sessions'[g])
        /\ sessions'[g].playing = s.playing /\ sessions'[g].account = s.account
        /\ sessions'[g].items_restored = s.items_restored
    BY <1>1, <1>3 DEF RestoreMail, DueMail, TakeBack, InStep, Session, Live
  <2> QED BY <1>1, <2>1, <2>2, <2>3 DEF ServedSoFar, DueItems, DueMail
<1>4. CASE RecordItems(g) \/ RecordMail(g)
  <2>1. phase \in {"record_inventories", "record_mailboxes"} /\ Live' = Live
    BY <1>1, <1>4 DEF RecordItems, RecordMail, Visit, Live
  <2>2. \A h \in Live :
          /\ sessions'[h].playing = sessions[h].playing
          /\ sessions'[h].account = sessions[h].account
          /\ sessions'[h].items_restored = sessions[h].items_restored
          /\ sessions'[h].mail_restored = sessions[h].mail_restored
    BY <1>1, <1>4 DEF RecordItems, RecordMail, Session, Live
  <2> QED BY <1>1, <2>1, <2>2 DEF ServedSoFar, DueItems, DueMail
<1> QED BY <1>2, <1>3, <1>4 DEF EndOfTick

LEMMA StepServes ==
  ASSUME ServerTypeOK, ServedSoFar, [ServerNext]_server_vars
  PROVE  ServedSoFar'
<1>1. CASE UNCHANGED server_vars
  BY <1>1 DEF server_vars, ServedSoFar, DueItems, DueMail, Live
<1>2. ASSUME NEW a \in Accounts, RetrieveConductor(a)
      PROVE  ServedSoFar'
  BY <1>2 DEF RetrieveConductor, ServedSoFar, DueItems, DueMail, Live
<1>3. ASSUME NEW g \in Guids, Drain(g) \/ Command(g)
      PROVE  ServedSoFar'
  <2>1. phase' = phase /\ phase \in {"drain", "commands"}
    BY <1>3 DEF Drain, Connect, Disconnect, ReadyToPlay, GainStack, SpendStack, SetOff,
                OtherPacket, Command, GiveStack, ClearInventory, SendMail
  <2> QED BY <2>1 DEF ServedSoFar
<1>4. CASE NextPhase
  <2>1. todo = {} /\ phase' = After[phase] /\ sessions' = sessions /\ Live' = Live
    BY <1>4 DEF NextPhase, Live
  <2>2. todo' = IF phase' \in {"drain", "commands"} THEN {} ELSE Live
    BY <1>4 DEF NextPhase
  <2>3. CASE phase \in {"drain", "record_mailboxes"}
    <3>1. phase' \in {"drain", "commands"}
      BY <2>1, <2>3 DEF After
    <3> QED BY <3>1 DEF ServedSoFar
  <2>4. CASE phase = "commands"
    <3>1. phase' = "restore_inventories" /\ todo' = Live'
      BY <2>1, <2>2, <2>4 DEF After
    <3> QED BY <3>1 DEF ServedSoFar
  <2>5. CASE phase = "restore_inventories"
    <3>1. phase' = "restore_mailboxes" /\ todo' = Live'
      BY <2>1, <2>2, <2>5 DEF After
    <3>2. \A g \in Live : ~DueItems(sessions[g])
      BY <2>1, <2>5 DEF ServedSoFar
    <3> QED BY <2>1, <3>1, <3>2 DEF ServedSoFar, DueItems
  <2>6. CASE phase = "restore_mailboxes"
    <3>1. phase' = "record_inventories"
      BY <2>1, <2>6 DEF After
    <3>2. \A g \in Live : ~DueItems(sessions[g]) /\ ~DueMail(sessions[g])
      BY <2>1, <2>6 DEF ServedSoFar
    <3> QED BY <2>1, <3>1, <3>2 DEF ServedSoFar, DueItems, DueMail
  <2>7. CASE phase = "record_inventories"
    <3>1. phase' = "record_mailboxes"
      BY <2>1, <2>7 DEF After
    <3>2. \A g \in Live : ~DueItems(sessions[g]) /\ ~DueMail(sessions[g])
      BY <2>7 DEF ServedSoFar
    <3> QED BY <2>1, <3>1, <3>2 DEF ServedSoFar, DueItems, DueMail
  <2> QED BY <2>3, <2>4, <2>5, <2>6, <2>7 DEF ServerTypeOK, After
<1> QED BY <1>1, <1>2, <1>3, <1>4, VisitsServe DEF ServerNext

(* However they came to play, and whatever is stored for them, all players *)
(* in the world have rucksack and inbox back before the tick writes        *)
(* anything down (restore_inventories, restore_mailboxes).                 *)
THEOREM EveryPlayerIsServed == ServerSpec => []PlayersAreServed
<1>1. ServerInit => ServedSoFar
  BY DEF ServerInit, ServedSoFar
<1>2. ServerTypeOK /\ ServedSoFar /\ [ServerNext]_server_vars => ServedSoFar'
  BY StepServes
<1>3. ServedSoFar => PlayersAreServed
  BY DEF ServedSoFar, PlayersAreServed, DueItems, DueMail
<1> QED BY <1>1, <1>2, <1>3, TypeCorrect, PTL DEF ServerSpec

-----------------------------------------------------------------------------
(* What is written down. *)

OneEach ==
  \A g, h \in Live :
    g # h /\ sessions[g].account # None => sessions[g].account # sessions[h].account

(* What a session remembers having written is what is written.             *)
Remembered ==
  \A g \in Live :
    LET s == sessions[g]
    IN  s.account # None =>
          /\ s.recorded_items \in {None, inventories[s.account]}
          /\ s.recorded_mail \in {None, mail[s.account]}

ItemsWritten(g) ==
  LET s == sessions[g]
  IN  s.account # None /\ s.items_restored => inventories[s.account] = Cardinality(s.stacks)

MailWritten(g) ==
  LET s == sessions[g]
  IN  s.account # None /\ s.mail_restored => mail[s.account] = Cardinality(s.inbox)

(* The loops write down player after player.                               *)
Written ==
  \A g \in Live :
    /\ phase = "record_inventories" /\ g \notin todo => ItemsWritten(g)
    /\ phase = "record_mailboxes" => ItemsWritten(g)
    /\ phase = "record_mailboxes" /\ g \notin todo => MailWritten(g)

RInv == OneEach /\ Remembered /\ Written

(* Before the restore there is nothing, and after it no less than what is  *)
(* written down unless the player used some up since.                      *)
NothingBefore == \A g \in Live : ~sessions[g].items_restored => sessions[g].stacks = {}

NotLess ==
  \A g \in Live :
    LET s == sessions[g]
    IN  s.items_restored /\ s.account # None /\ s.account \notin spent =>
          inventories[s.account] <= Cardinality(s.stacks)

EInv == NothingBefore /\ NotLess

-----------------------------------------------------------------------------
(* What a packet, a command or the restore of an inbox makes of a session. *)

Plays(g, t) ==
  LET s == sessions[g]
  IN  /\ t.account = s.account
      /\ t.recorded_items = s.recorded_items /\ t.recorded_mail = s.recorded_mail
      /\ t.items_restored = s.items_restored
      /\ s.stacks \subseteq t.stacks \/ s.account \in spent'
      /\ t.stacks \subseteq s.stacks \/ s.items_restored \/ Early

PlayStep(g) ==
  /\ g \in Live
  /\ phase \in {"drain", "commands", "restore_mailboxes"} /\ phase' = phase
  /\ spent \subseteq spent' /\ UNCHANGED <<inventories, mail>>
  /\ \E t : sessions' = [sessions EXCEPT ![g] = t] /\ Plays(g, t)

(* Raising a session's allocator touches nothing that is recorded.         *)
LEMMA InStepFields ==
  ASSUME IInv, NEW g \in Live, NEW s, s = InStep(sessions[g])
  PROVE  /\ s \in Session
         /\ s.account = sessions[g].account /\ s.stacks = sessions[g].stacks
         /\ s.recorded_items = sessions[g].recorded_items
         /\ s.recorded_mail = sessions[g].recorded_mail
         /\ s.items_restored = sessions[g].items_restored
<1>1. s = [sessions[g] EXCEPT !.next = s.next] /\ sessions[g] \in Session /\ s \in Session
  BY InStepSound DEF IInv, ServerTypeOK, Sound, FiniteSession
<1>2. QED BY <1>1 DEF Session

(* Every packet but a connection, an end or what restores a rucksack.      *)
LEMMA DrainPlays ==
  ASSUME IInv, NEW g \in Guids,
         \/ ReadyToPlay(g) \/ GainStack(g) \/ SetOff(g) \/ OtherPacket(g)
         \/ \E e \in sessions[g].stacks : SpendStack(g, e)
  PROVE  PlayStep(g)
<1> DEFINE s == InStep(sessions[g])
<1>1. /\ g \in Live /\ phase = "drain" /\ phase' = phase
      /\ spent \subseteq spent' /\ UNCHANGED <<inventories, mail>>
  BY DEF ReadyToPlay, GainStack, SetOff, OtherPacket, SpendStack
<1>2. /\ s \in Session /\ s.account = sessions[g].account /\ s.stacks = sessions[g].stacks
      /\ s.recorded_items = sessions[g].recorded_items
      /\ s.recorded_mail = sessions[g].recorded_mail
      /\ s.items_restored = sessions[g].items_restored
  BY <1>1, InStepFields
<1> HIDE DEF s
<1>3. ASSUME NEW t, sessions' = [sessions EXCEPT ![g] = t], Plays(g, t)
      PROVE  PlayStep(g)
  BY <1>1, <1>3 DEF PlayStep
<1>4. CASE OtherPacket(g) \/ SetOff(g)
  <2>1. sessions' = [sessions EXCEPT ![g] = s]
    BY <1>4 DEF OtherPacket, SetOff, TakeBack, s
  <2>2. Plays(g, s)
    BY <1>2 DEF Plays
  <2>3. QED BY <1>3, <2>1, <2>2
<1>5. CASE ReadyToPlay(g)
  <2>1. sessions' = [sessions EXCEPT ![g] = [s EXCEPT !.playing = TRUE]]
    BY <1>5 DEF ReadyToPlay, TakeBack, s
  <2>2. Plays(g, [s EXCEPT !.playing = TRUE])
    BY <1>2 DEF Plays, Session
  <2>3. QED BY <1>3, <2>1, <2>2
<1>6. CASE GainStack(g)
  <2>1. sessions' = [sessions EXCEPT ![g] = WithStack(s)]
    BY <1>6 DEF GainStack, TakeBack, s
  <2>2. sessions[g].items_restored \/ Early
    BY <1>6 DEF GainStack
  <2>3. Plays(g, WithStack(s))
    BY <1>2, <2>2 DEF Plays, Session, WithStack
  <2>4. QED BY <1>3, <2>1, <2>3
<1>7. ASSUME NEW e \in sessions[g].stacks, SpendStack(g, e)
      PROVE  PlayStep(g)
  <2> DEFINE t == [s EXCEPT !.stacks = s.stacks \ {e}]
  <2>1. sessions' = [sessions EXCEPT ![g] = t]
    BY <1>7 DEF SpendStack, TakeBack, s
  <2>2. sessions[g].account \in spent'
    BY <1>7 DEF SpendStack
  <2>3. Plays(g, t)
    BY <1>2, <2>2 DEF Plays, Session
  <2>4. QED BY <1>3, <2>1, <2>3
<1>8. QED BY <1>4, <1>5, <1>6, <1>7

(* Every admin command (give, clear, mail).                                *)
LEMMA CommandPlays ==
  ASSUME IInv, NEW g \in Guids, Command(g)
  PROVE  PlayStep(g)
<1> DEFINE s == InStep(sessions[g])
<1>1. /\ g \in Live /\ phase = "commands" /\ phase' = phase
      /\ spent \subseteq spent' /\ UNCHANGED <<inventories, mail>>
  BY DEF Command, GiveStack, ClearInventory, SendMail
<1>2. /\ s \in Session /\ s.account = sessions[g].account /\ s.stacks = sessions[g].stacks
      /\ s.recorded_items = sessions[g].recorded_items
      /\ s.recorded_mail = sessions[g].recorded_mail
      /\ s.items_restored = sessions[g].items_restored
  BY <1>1, InStepFields
<1> HIDE DEF s
<1>3. ASSUME NEW t, sessions' = [sessions EXCEPT ![g] = t], Plays(g, t)
      PROVE  PlayStep(g)
  BY <1>1, <1>3 DEF PlayStep
<1>4. CASE GiveStack(g)
  <2>1. \/ sessions' = [sessions EXCEPT ![g] = WithStack(s)]
        \/ sessions' = [sessions EXCEPT ![g] = s]
    BY <1>4 DEF GiveStack, TakeBack, s
  <2>2. sessions[g].items_restored \/ Early
    BY <1>4 DEF GiveStack
  <2>3. Plays(g, WithStack(s))
    BY <1>2, <2>2 DEF Plays, Session, WithStack
  <2>4. Plays(g, s)
    BY <1>2 DEF Plays
  <2>5. QED BY <1>3, <2>1, <2>3, <2>4
<1>5. CASE SendMail(g)
  <2>1. sessions' = [sessions EXCEPT ![g] = WithMessage(s)]
    BY <1>5 DEF SendMail, TakeBack, s
  <2>2. Plays(g, WithMessage(s))
    BY <1>2 DEF Plays, Session, WithMessage
  <2>3. QED BY <1>3, <2>1, <2>2
<1>6. CASE ClearInventory(g)
  <2> DEFINE t == [sessions[g] EXCEPT !.stacks = {}]
  <2>1. sessions' = [sessions EXCEPT ![g] = t]
    BY <1>6 DEF ClearInventory
  <2>2. sessions[g].account \in spent' /\ sessions[g] \in Session
    BY <1>1, <1>6 DEF ClearInventory, IInv, ServerTypeOK
  <2>3. Plays(g, t)
    BY <2>2 DEF Plays, Session
  <2>4. QED BY <1>3, <2>1, <2>3
<1>7. QED BY <1>4, <1>5, <1>6 DEF Command

(* The restore of an inbox leaves the rucksack alone.                      *)
LEMMA RestoreMailPlays ==
  ASSUME IInv, NEW g \in Guids, RestoreMail(g)
  PROVE  PlayStep(g)
<1> DEFINE s == InStep(sessions[g])
           n == MailToRestore(s)
           t == [s EXCEPT !.inbox = @ \cup Minted(s, n), !.next = @ + n,
                          !.mail_restored = TRUE]
<1>1. /\ g \in Live /\ phase = "restore_mailboxes" /\ phase' = phase
      /\ spent \subseteq spent' /\ UNCHANGED <<inventories, mail>>
  BY DEF RestoreMail, Visit, IInv, ServerTypeOK
<1>2. /\ s \in Session /\ s.account = sessions[g].account /\ s.stacks = sessions[g].stacks
      /\ s.recorded_items = sessions[g].recorded_items
      /\ s.recorded_mail = sessions[g].recorded_mail
      /\ s.items_restored = sessions[g].items_restored
  BY <1>1, InStepFields
<1>3. \/ sessions' = [sessions EXCEPT ![g] = t]
      \/ sessions' = [sessions EXCEPT ![g] = sessions[g]]
  <2>1. sessions = [sessions EXCEPT ![g] = sessions[g]]
    BY <1>1 DEF IInv, ServerTypeOK
  <2>2. QED BY <2>1 DEF RestoreMail, TakeBack
<1> HIDE DEF s, n
<1>4. Plays(g, t)
  BY <1>2 DEF Plays, Session
<1>5. Plays(g, sessions[g])
  BY DEF Plays
<1>6. QED BY <1>1, <1>3, <1>4, <1>5 DEF PlayStep

(* A step like that writes nothing and loses nothing that was written.     *)
LEMMA PlayKeepsRecords ==
  ASSUME IInv, RInv, NEW g \in Guids, PlayStep(g)
  PROVE  RInv'
<1>1. PICK t : sessions' = [sessions EXCEPT ![g] = t] /\ Plays(g, t)
  BY DEF PlayStep
<1>2. /\ Live' = Live /\ g \in Live /\ sessions'[g] = t
      /\ \A h \in Live : h # g => sessions'[h] = sessions[h]
      /\ UNCHANGED <<inventories, mail>>
  BY <1>1 DEF PlayStep, Live
<1>3. \A h \in Live : /\ sessions'[h].account = sessions[h].account
                       /\ sessions'[h].recorded_items = sessions[h].recorded_items
                       /\ sessions'[h].recorded_mail = sessions[h].recorded_mail
  BY <1>1, <1>2 DEF Plays
<1>4. OneEach' /\ Remembered'
  BY <1>2, <1>3 DEF RInv, OneEach, Remembered
<1>5. Written'
  BY DEF PlayStep, Written
<1>6. QED BY <1>4, <1>5 DEF RInv

(* Nor does it leave a player with less than what is written, unless the   *)
(* player used something up.                                               *)
LEMMA PlayErasesNothing ==
  ASSUME IInv, IInv', EInv, ~Early, NEW g \in Guids, PlayStep(g)
  PROVE  EInv'
<1>1. PICK t : sessions' = [sessions EXCEPT ![g] = t] /\ Plays(g, t)
  BY DEF PlayStep
<1>2. /\ Live' = Live /\ g \in Live /\ sessions'[g] = t
      /\ \A h \in Live : h # g => sessions'[h] = sessions[h]
      /\ UNCHANGED inventories /\ spent \subseteq spent'
  BY <1>1 DEF PlayStep, Live
<1>3. NothingBefore'
  BY <1>1, <1>2 DEF NothingBefore, EInv, Plays
<1>4. NotLess'
  <2> SUFFICES ASSUME NEW h \in Live, sessions'[h].items_restored,
                      sessions'[h].account # None, sessions'[h].account \notin spent'
               PROVE  inventories[sessions'[h].account] <= Cardinality(sessions'[h].stacks)
    BY <1>2 DEF NotLess
  <2>1. CASE h # g
    BY <1>2, <2>1 DEF EInv, NotLess
  <2>2. CASE h = g
    <3>1. /\ sessions[g].items_restored /\ t.account = sessions[g].account
          /\ t.account # None /\ t.account \notin spent
          /\ sessions[g].stacks \subseteq t.stacks
      BY <1>1, <1>2, <2>2 DEF Plays
    <3>2. inventories[t.account] <= Cardinality(sessions[g].stacks)
      BY <1>2, <3>1 DEF EInv, NotLess
    <3>3. IsFiniteSet(t.stacks)
      BY <1>2 DEF IInv, AllSound, Sound, FiniteSession
    <3>4. /\ Cardinality(sessions[g].stacks) <= Cardinality(t.stacks)
          /\ Cardinality(sessions[g].stacks) \in Nat /\ Cardinality(t.stacks) \in Nat
      BY <3>1, <3>3, FS_Subset, FS_CardinalityType
    <3>5. inventories[t.account] \in Nat
      BY <1>2, <3>1 DEF IInv, ServerTypeOK, Session
    <3>6. QED BY <1>2, <2>2, <3>2, <3>4, <3>5
  <2>3. QED BY <2>1, <2>2
<1>5. QED BY <1>3, <1>4 DEF EInv

-----------------------------------------------------------------------------
(* Connections come and go. *)

(* A new session has written nothing, and is the only one of its account.  *)
LEMMA ConnectRecords ==
  ASSUME IInv, NEW g \in Guids, Connect(g)
  PROVE  /\ ~Overlap /\ RInv => RInv'
         /\ EInv => EInv'
<1> DEFINE account == IF reservations = <<>> THEN None ELSE Head(reservations)
           new     == FreshSession(next_free_id, account)
<1>1. /\ g \notin Live /\ phase = "drain" /\ phase' = phase
      /\ UNCHANGED <<inventories, mail, spent>>
      /\ sessions' = [h \in Live \cup {g} |-> IF h = g THEN new ELSE sessions[h]]
      /\ Overlap \/ account = None \/ \A h \in Live : sessions[h].account # account
  BY DEF Connect
<1>2. /\ new.account = account /\ new.stacks = {} /\ ~new.items_restored
      /\ new.recorded_items = None /\ new.recorded_mail = None
  BY DEF FreshSession
<1> HIDE DEF new, account
<1>3. /\ Live' = Live \cup {g} /\ sessions'[g] = new
      /\ \A h \in Live : sessions'[h] = sessions[h]
  BY <1>1 DEF Live
<1>4. ASSUME ~Overlap, RInv
      PROVE  RInv'
  <2>1. OneEach'
    BY <1>1, <1>2, <1>3, <1>4 DEF RInv, OneEach
  <2>2. Remembered'
    BY <1>1, <1>2, <1>3, <1>4 DEF RInv, Remembered
  <2>3. Written'
    BY <1>1 DEF Written
  <2>4. QED BY <2>1, <2>2, <2>3 DEF RInv
<1>5. ASSUME EInv
      PROVE  EInv'
  BY <1>1, <1>2, <1>3, <1>5 DEF EInv, NothingBefore, NotLess
<1>6. QED BY <1>4, <1>5

(* The sessions that stay agree with what is written as before.            *)
LEMMA DisconnectRecords ==
  ASSUME IInv, NEW g \in Guids, Disconnect(g)
  PROVE  (RInv => RInv') /\ (EInv => EInv')
<1>1. /\ phase = "drain" /\ phase' = phase /\ UNCHANGED <<inventories, mail, spent>>
      /\ sessions' = [h \in Live \ {g} |-> sessions[h]]
  BY DEF Disconnect
<1>2. Live' = Live \ {g} /\ \A h \in Live' : sessions'[h] = sessions[h]
  BY <1>1 DEF Live
<1>3. QED BY <1>1, <1>2 DEF RInv, OneEach, Remembered, Written, EInv, NothingBefore, NotLess

-----------------------------------------------------------------------------
(* The loops that restore and record. *)

(* A restore gives back as many stacks as are written down.                *)
LEMMA RestoreItemsRecords ==
  ASSUME IInv, IInv', NEW g \in Guids, RestoreItems(g)
  PROVE  (RInv => RInv') /\ (EInv => EInv')
<1> DEFINE s   == sessions[g]
           n   == ItemsToRestore(s)
           run == Minted(s, n)
           t   == [s EXCEPT !.stacks = @ \cup run, !.from_store = run, !.next = @ + n,
                            !.items_restored = TRUE]
<1>1. /\ g \in Live /\ phase = "restore_inventories" /\ phase' = phase
      /\ UNCHANGED <<inventories, mail, spent>> /\ s \in Session
  BY DEF RestoreItems, Visit, IInv, ServerTypeOK
<1>2. CASE UNCHANGED sessions
  BY <1>1, <1>2 DEF RInv, OneEach, Remembered, Written, EInv, NothingBefore, NotLess, Live
<1>3. ASSUME DueItems(s), sessions' = [sessions EXCEPT ![g] = t]
      PROVE  (RInv => RInv') /\ (EInv => EInv')
  <2>1. ~s.items_restored /\ s.account # None
    BY <1>3 DEF DueItems
  <2>2. /\ t.account = s.account /\ t.items_restored /\ t.stacks = s.stacks \cup run
        /\ t.recorded_items = s.recorded_items /\ t.recorded_mail = s.recorded_mail
    <3> HIDE DEF run, n
    <3>1. QED BY <1>1 DEF Session
  <2> HIDE DEF t
  <2>3. /\ Live' = Live /\ sessions'[g] = t
        /\ \A h \in Live : h # g => sessions'[h] = sessions[h]
    BY <1>1, <1>3 DEF Live
  <2>4. ASSUME RInv
        PROVE  RInv'
    <3>1. \A h \in Live : /\ sessions'[h].account = sessions[h].account
                           /\ sessions'[h].recorded_items = sessions[h].recorded_items
                           /\ sessions'[h].recorded_mail = sessions[h].recorded_mail
      BY <2>2, <2>3
    <3>2. OneEach' /\ Remembered'
      BY <1>1, <2>3, <2>4, <3>1 DEF RInv, OneEach, Remembered
    <3>3. QED BY <1>1, <3>2 DEF RInv, Written
  <2>5. ASSUME EInv
        PROVE  EInv'
    <3>1. s.stacks = {} /\ t.stacks = run
      BY <1>1, <2>1, <2>2, <2>5 DEF EInv, NothingBefore
    <3>2. n = inventories[s.account] /\ n \in Nat /\ s.next \in Nat
      BY <1>1, <2>1, <3>1 DEF ItemsToRestore, IInv, ServerTypeOK, Session
    <3> HIDE DEF n
    <3>3. Cardinality(run) = n
      BY <3>2, MintedRun
    <3> HIDE DEF run
    <3>4. inventories'[t.account] <= Cardinality(t.stacks)
      BY <1>1, <2>2, <3>1, <3>2, <3>3
    <3>5. NothingBefore'
      BY <2>2, <2>3, <2>5 DEF EInv, NothingBefore
    <3>6. NotLess'
      BY <1>1, <2>3, <2>5, <3>4 DEF EInv, NotLess
    <3>7. QED BY <3>5, <3>6 DEF EInv
  <2>6. QED BY <2>4, <2>5
<1>4. QED BY <1>2, <1>3 DEF RestoreItems

(* Writing a rucksack down makes the shared state current for that account *)
(* and leaves the others' alone: no other session is of that account.      *)
LEMMA RecordItemsRecords ==
  ASSUME IInv, RInv, NEW g \in Guids, RecordItems(g)
  PROVE  RInv' /\ (EInv => EInv')
<1> DEFINE s == sessions[g]
           n == Cardinality(s.stacks)
<1>1. /\ g \in Live /\ phase = "record_inventories" /\ phase' = phase
      /\ todo' = todo \ {g} /\ UNCHANGED mail /\ s \in Session
      /\ inventories \in [Accounts -> Nat]
  BY DEF RecordItems, Visit, IInv, ServerTypeOK
<1>2. n \in Nat /\ n # None /\ None \notin Accounts
  BY <1>1, FS_CardinalityType, GameServerAssumption
     DEF IInv, AllSound, Sound, FiniteSession
<1> HIDE DEF n
<1>3. \/ /\ ItemsToRecord(s) = {n} /\ n # s.recorded_items /\ s.items_restored
         /\ sessions' = [sessions EXCEPT ![g].recorded_items = n]
         /\ inventories' = [a \in Accounts |-> IF a = s.account THEN n ELSE inventories[a]]
      \/ /\ n = s.recorded_items \/ ~s.items_restored
         /\ sessions' = sessions /\ inventories' = inventories
  BY DEF RecordItems, ItemsToRecord, n
<1>4. /\ Live' = Live /\ \A h \in Live : h # g => sessions'[h] = sessions[h]
      /\ sessions'[g].account = s.account /\ sessions'[g].stacks = s.stacks
      /\ sessions'[g].items_restored = s.items_restored
      /\ sessions'[g].recorded_mail = s.recorded_mail
      /\ sessions'[g].recorded_items \in {s.recorded_items, n}
  BY <1>1, <1>3 DEF Live, Session, IInv, ServerTypeOK
<1>5. \A h \in Live \ {g} : sessions[h].account # None =>
        /\ sessions[h].account # s.account
        /\ inventories'[sessions[h].account] = inventories[sessions[h].account]
  <2> SUFFICES ASSUME NEW h \in Live \ {g}, sessions[h].account # None
               PROVE  /\ sessions[h].account # s.account
                      /\ inventories'[sessions[h].account] = inventories[sessions[h].account]
    OBVIOUS
  <2>1. sessions[h].account # s.account
    BY <1>1 DEF RInv, OneEach
  <2>2. sessions[h].account \in Accounts
    BY DEF IInv, ServerTypeOK, Session
  <2>3. QED BY <1>3, <2>1, <2>2
<1>6. s.account # None /\ s.items_restored => inventories'[s.account] = n
  <2> SUFFICES ASSUME s.account # None, s.items_restored
               PROVE  inventories'[s.account] = n
    OBVIOUS
  <2>1. s.account \in Accounts /\ s.recorded_items \in {None, inventories[s.account]}
    BY <1>1 DEF Session, RInv, Remembered
  <2>2. QED BY <1>2, <1>3, <2>1
<1>7. s.account # None => sessions'[g].recorded_items \in {None, inventories'[s.account]}
  <2> SUFFICES ASSUME s.account # None
               PROVE  sessions'[g].recorded_items \in {None, inventories'[s.account]}
    OBVIOUS
  <2>1. s.account \in Accounts /\ s.recorded_items \in {None, inventories[s.account]}
    BY <1>1 DEF Session, RInv, Remembered
  <2>2. CASE sessions' = sessions /\ inventories' = inventories
    BY <2>1, <2>2
  <2>3. CASE s.items_restored /\ sessions' = [sessions EXCEPT ![g].recorded_items = n]
    <3>1. sessions'[g].recorded_items = n
      BY <1>1, <2>3 DEF Live, IInv, ServerTypeOK, Session
    <3>2. QED BY <1>6, <2>3, <3>1
  <2>4. QED BY <1>3, <2>2, <2>3
<1>8. OneEach'
  BY <1>4 DEF RInv, OneEach
<1>9. Remembered'
  <2> SUFFICES ASSUME NEW h \in Live, sessions'[h].account # None
               PROVE  /\ sessions'[h].recorded_items \in {None, inventories'[sessions'[h].account]}
                      /\ sessions'[h].recorded_mail \in {None, mail'[sessions'[h].account]}
    BY <1>4 DEF Remembered
  <2>1. CASE h = g
    BY <1>1, <1>4, <1>7, <2>1 DEF RInv, Remembered
  <2>2. CASE h # g
    BY <1>1, <1>4, <1>5, <2>2 DEF RInv, Remembered
  <2>3. QED BY <2>1, <2>2
<1>10. Written'
  <2> SUFFICES ASSUME NEW h \in Live, h \notin todo', sessions'[h].account # None,
                      sessions'[h].items_restored
               PROVE  inventories'[sessions'[h].account] = Cardinality(sessions'[h].stacks)
    BY <1>1, <1>4 DEF Written, ItemsWritten
  <2>1. CASE h = g
    BY <1>4, <1>6, <2>1 DEF n
  <2>2. CASE h # g
    BY <1>1, <1>4, <1>5, <2>2 DEF RInv, Written, ItemsWritten
  <2>3. QED BY <2>1, <2>2
<1>11. ASSUME EInv
       PROVE  EInv'
  <2>1. NothingBefore'
    BY <1>4, <1>11 DEF EInv, NothingBefore
  <2>2. NotLess'
    <3> SUFFICES ASSUME NEW h \in Live, sessions'[h].items_restored,
                        sessions'[h].account # None, sessions'[h].account \notin spent'
                 PROVE  inventories'[sessions'[h].account] <= Cardinality(sessions'[h].stacks)
      BY <1>4 DEF NotLess
    <3>1. CASE h = g
      BY <1>2, <1>4, <1>6, <3>1 DEF n
    <3>2. CASE h # g
      <4>1. sessions[h].account \notin spent
        BY <1>4, <1>5, <3>2 DEF RecordItems
      <4>2. QED BY <1>4, <1>5, <1>11, <3>2, <4>1 DEF EInv, NotLess
    <3>3. QED BY <3>1, <3>2
  <2>3. QED BY <2>1, <2>2 DEF EInv
<1>12. QED BY <1>8, <1>9, <1>10, <1>11 DEF RInv

(* The same of an inbox. *)
LEMMA RecordMailRecords ==
  ASSUME IInv, RInv, NEW g \in Guids, RecordMail(g)
  PROVE  RInv' /\ (EInv => EInv')
<1> DEFINE s == sessions[g]
           n == Cardinality(s.inbox)
<1>1. /\ g \in Live /\ phase = "record_mailboxes" /\ phase' = phase
      /\ todo' = todo \ {g} /\ UNCHANGED <<inventories, spent>> /\ s \in Session
      /\ mail \in [Accounts -> Nat]
  BY DEF RecordMail, Visit, IInv, ServerTypeOK
<1>2. n \in Nat /\ n # None /\ None \notin Accounts
  BY <1>1, FS_CardinalityType, GameServerAssumption
     DEF IInv, AllSound, Sound, FiniteSession
<1> HIDE DEF n
<1>3. \/ /\ n # s.recorded_mail /\ s.mail_restored
         /\ sessions' = [sessions EXCEPT ![g].recorded_mail = n]
         /\ mail' = [a \in Accounts |-> IF a = s.account THEN n ELSE mail[a]]
      \/ /\ n = s.recorded_mail \/ ~s.mail_restored
         /\ sessions' = sessions /\ mail' = mail
  BY DEF RecordMail, MailToRecord, n
<1>4. /\ Live' = Live /\ \A h \in Live : h # g => sessions'[h] = sessions[h]
      /\ sessions'[g].account = s.account /\ sessions'[g].stacks = s.stacks
      /\ sessions'[g].inbox = s.inbox
      /\ sessions'[g].items_restored = s.items_restored
      /\ sessions'[g].mail_restored = s.mail_restored
      /\ sessions'[g].recorded_items = s.recorded_items
      /\ sessions'[g].recorded_mail \in {s.recorded_mail, n}
  BY <1>1, <1>3 DEF Live, Session, IInv, ServerTypeOK
<1>5. \A h \in Live \ {g} : sessions[h].account # None =>
        mail'[sessions[h].account] = mail[sessions[h].account]
  <2> SUFFICES ASSUME NEW h \in Live \ {g}, sessions[h].account # None
               PROVE  mail'[sessions[h].account] = mail[sessions[h].account]
    OBVIOUS
  <2>1. sessions[h].account # s.account
    BY <1>1 DEF RInv, OneEach
  <2>2. sessions[h].account \in Accounts
    BY DEF IInv, ServerTypeOK, Session
  <2>3. QED BY <1>3, <2>1, <2>2
<1>6. s.account # None /\ s.mail_restored => mail'[s.account] = n
  <2> SUFFICES ASSUME s.account # None, s.mail_restored
               PROVE  mail'[s.account] = n
    OBVIOUS
  <2>1. s.account \in Accounts /\ s.recorded_mail \in {None, mail[s.account]}
    BY <1>1 DEF Session, RInv, Remembered
  <2>2. QED BY <1>2, <1>3, <2>1
<1>7. s.account # None => sessions'[g].recorded_mail \in {None, mail'[s.account]}
  <2> SUFFICES ASSUME s.account # None
               PROVE  sessions'[g].recorded_mail \in {None, mail'[s.account]}
    OBVIOUS
  <2>1. s.account \in Accounts /\ s.recorded_mail \in {None, mail[s.account]}
    BY <1>1 DEF Session, RInv, Remembered
  <2>2. CASE sessions' = sessions /\ mail' = mail
    BY <2>1, <2>2
  <2>3. CASE s.mail_restored /\ sessions' = [sessions EXCEPT ![g].recorded_mail = n]
    <3>1. sessions'[g].recorded_mail = n
      BY <1>1, <2>3 DEF Live, IInv, ServerTypeOK, Session
    <3>2. QED BY <1>6, <2>3, <3>1
  <2>4. QED BY <1>3, <2>2, <2>3
<1>8. OneEach'
  BY <1>4 DEF RInv, OneEach
<1>9. Remembered'
  <2> SUFFICES ASSUME NEW h \in Live, sessions'[h].account # None
               PROVE  /\ sessions'[h].recorded_items \in {None, inventories'[sessions'[h].account]}
                      /\ sessions'[h].recorded_mail \in {None, mail'[sessions'[h].account]}
    BY <1>4 DEF Remembered
  <2>1. CASE h = g
    BY <1>1, <1>4, <1>7, <2>1 DEF RInv, Remembered
  <2>2. CASE h # g
    BY <1>1, <1>4, <1>5, <2>2 DEF RInv, Remembered
  <2>3. QED BY <2>1, <2>2
<1>10. Written'
  <2> SUFFICES ASSUME NEW h \in Live
               PROVE  ItemsWritten(h)' /\ (h \notin todo' => MailWritten(h)')
    BY <1>1, <1>4 DEF Written
  <2>1. ItemsWritten(h)'
    <3>1. ItemsWritten(h) /\ sessions'[h].account = sessions[h].account
          /\ sessions'[h].stacks = sessions[h].stacks
          /\ sessions'[h].items_restored = sessions[h].items_restored
      BY <1>1, <1>4 DEF RInv, Written
    <3>2. QED BY <1>1, <3>1 DEF ItemsWritten
  <2>2. ASSUME h \notin todo'
        PROVE  MailWritten(h)'
    <3>1. CASE h = g
      BY <1>4, <1>6, <3>1 DEF MailWritten, n
    <3>2. CASE h # g
      BY <1>1, <1>4, <1>5, <2>2, <3>2 DEF RInv, Written, MailWritten
    <3>3. QED BY <3>1, <3>2
  <2>3. QED BY <2>1, <2>2
<1>11. ASSUME EInv
       PROVE  EInv'
  <2>1. \A h \in Live : /\ sessions'[h].account = sessions[h].account
                         /\ sessions'[h].stacks = sessions[h].stacks
                         /\ sessions'[h].items_restored = sessions[h].items_restored
    BY <1>4
  <2>2. QED BY <1>1, <1>4, <1>11, <2>1 DEF EInv, NothingBefore, NotLess
<1>12. QED BY <1>8, <1>9, <1>10, <1>11 DEF RInv

(* A loop that is over has visited every session. *)
LEMMA NextPhaseRecords ==
  ASSUME IInv, NextPhase
  PROVE  (RInv => RInv') /\ (EInv => EInv')
<1>1. /\ todo = {} /\ Live' = Live /\ UNCHANGED <<sessions, inventories, mail, spent>>
      /\ phase \in DOMAIN After /\ phase' = After[phase]
      /\ todo' = IF phase' \in {"drain", "commands"} THEN {} ELSE Live
  BY DEF NextPhase, Live, IInv, ServerTypeOK
<1>2. EInv => EInv'
  BY <1>1 DEF EInv, NothingBefore, NotLess
<1>3. ASSUME RInv
      PROVE  RInv'
  <2>1. OneEach' /\ Remembered'
    BY <1>1, <1>3 DEF RInv, OneEach, Remembered
  <2>2. /\ phase' = "record_inventories" => todo' = Live
        /\ phase' = "record_mailboxes" => todo' = Live /\ phase = "record_inventories"
    BY <1>1 DEF After
  <2>3. Written'
    BY <1>1, <1>3, <2>2 DEF RInv, Written, ItemsWritten
  <2>4. QED BY <2>1, <2>3 DEF RInv
<1>4. QED BY <1>2, <1>3

-----------------------------------------------------------------------------
(* Together. *)

(* Nothing is recorded, and nobody is there, when the server starts.       *)
LEMMA InitRecords ==
  ASSUME ServerInit
  PROVE  RInv /\ EInv
<1>1. Live = {}
  BY DEF ServerInit, Live
<1>2. QED BY <1>1 DEF RInv, OneEach, Remembered, Written, EInv, NothingBefore, NotLess

(* A step that touches neither sessions nor the shared state. *)
LEMMA QuietRecords ==
  ASSUME UNCHANGED <<phase, todo, sessions, inventories, mail, spent>>
  PROVE  (RInv => RInv') /\ (EInv => EInv')
BY DEF RInv, OneEach, Remembered, Written, ItemsWritten, MailWritten, EInv, NothingBefore,
       NotLess, Live

(* With one session per account, every step keeps what the sessions        *)
(* remember in agreement with what is written.                             *)
LEMMA StepRecords ==
  ASSUME ~Overlap, IInv, IInv', RInv, [ServerNext]_server_vars
  PROVE  RInv'
<1>1. CASE UNCHANGED server_vars
  BY <1>1, QuietRecords DEF server_vars
<1>2. ASSUME NEW a \in Accounts, RetrieveConductor(a)
      PROVE  RInv'
  BY <1>2, QuietRecords DEF RetrieveConductor
<1>3. ASSUME NEW g \in Guids, Drain(g)
      PROVE  RInv'
  <2>1. CASE Connect(g)
    BY <2>1, ConnectRecords
  <2>2. CASE Disconnect(g)
    BY <2>2, DisconnectRecords
  <2>3. CASE \/ ReadyToPlay(g) \/ GainStack(g) \/ SetOff(g) \/ OtherPacket(g)
             \/ \E e \in sessions[g].stacks : SpendStack(g, e)
    BY <2>3, DrainPlays, PlayKeepsRecords
  <2>4. QED BY <1>3, <2>1, <2>2, <2>3 DEF Drain
<1>4. ASSUME NEW g \in Guids, Command(g)
      PROVE  RInv'
  BY <1>4, CommandPlays, PlayKeepsRecords
<1>5. ASSUME NEW g \in Guids, EndOfTick(g)
      PROVE  RInv'
  BY <1>5, RestoreItemsRecords, RestoreMailPlays, PlayKeepsRecords, RecordItemsRecords,
     RecordMailRecords DEF EndOfTick
<1>6. CASE NextPhase
  BY <1>6, NextPhaseRecords
<1>7. QED BY <1>1, <1>2, <1>3, <1>4, <1>5, <1>6 DEF ServerNext

(* And when nobody gets a stack before the rucksack is given back, no step *)
(* makes a rucksack smaller than what is written without the player having *)
(* used something up.                                                      *)
LEMMA StepErasesNothing ==
  ASSUME ~Early, IInv, IInv', RInv, EInv, [ServerNext]_server_vars
  PROVE  EInv'
<1>1. CASE UNCHANGED server_vars
  BY <1>1, QuietRecords DEF server_vars
<1>2. ASSUME NEW a \in Accounts, RetrieveConductor(a)
      PROVE  EInv'
  BY <1>2, QuietRecords DEF RetrieveConductor
<1>3. ASSUME NEW g \in Guids, Drain(g)
      PROVE  EInv'
  <2>1. CASE Connect(g)
    BY <2>1, ConnectRecords
  <2>2. CASE Disconnect(g)
    BY <2>2, DisconnectRecords
  <2>3. CASE \/ ReadyToPlay(g) \/ GainStack(g) \/ SetOff(g) \/ OtherPacket(g)
             \/ \E e \in sessions[g].stacks : SpendStack(g, e)
    BY <2>3, DrainPlays, PlayErasesNothing
  <2>4. QED BY <1>3, <2>1, <2>2, <2>3 DEF Drain
<1>4. ASSUME NEW g \in Guids, Command(g)
      PROVE  EInv'
  BY <1>4, CommandPlays, PlayErasesNothing
<1>5. ASSUME NEW g \in Guids, EndOfTick(g)
      PROVE  EInv'
  BY <1>5, RestoreItemsRecords, RestoreMailPlays, PlayErasesNothing, RecordItemsRecords,
     RecordMailRecords DEF EndOfTick
<1>6. CASE NextPhase
  BY <1>6, NextPhaseRecords
<1>7. QED BY <1>1, <1>2, <1>3, <1>4, <1>5, <1>6 DEF ServerNext

(* A stored rucksack becomes smaller in one step only, and there only when *)
(* the session holds less than what is written.                            *)
LEMMA OnlySpentIsErased ==
  ASSUME IInv, RInv, EInv, [ServerNext]_server_vars, NEW a \in Accounts, inventories'[a] < inventories[a]
  PROVE  a \in spent
<1>1. inventories'[a] # inventories[a]
  BY DEF IInv, ServerTypeOK
<1>2. PICK g \in Guids : RecordItems(g)
  BY <1>1 DEF ServerNext, server_vars, RetrieveConductor, Drain, Connect, Disconnect, ReadyToPlay, GainStack,
              SpendStack, SetOff, OtherPacket, Command, GiveStack, ClearInventory, SendMail,
              EndOfTick, RestoreItems, RestoreMail, RecordMail, NextPhase
<1> DEFINE s == sessions[g]
           n == Cardinality(s.stacks)
<1>3. g \in Live /\ None \notin Accounts
  BY <1>2, GameServerAssumption DEF RecordItems, Visit, IInv, ServerTypeOK
<1>4. a = s.account /\ s.items_restored /\ inventories'[a] = n
  BY <1>1, <1>2 DEF RecordItems, ItemsToRecord
<1>5. n \in Nat /\ inventories[a] \in Nat
  BY <1>3, FS_CardinalityType DEF IInv, ServerTypeOK, AllSound, Sound, FiniteSession
<1>6. ASSUME a \notin spent
      PROVE  FALSE
  <2>1. inventories[a] <= n
    BY <1>3, <1>4, <1>6 DEF EInv, NotLess
  <2>2. QED BY <1>4, <1>5, <2>1
<1>7. QED BY <1>6

(* When a tick ends the shared state has what every player carries and     *)
(* every inbox, provided an account has one live session at a time         *)
(* (record_inventories and record_mailboxes).                              *)
THEOREM RecordsAreCurrent ==
  ASSUME ~Overlap
  PROVE  ServerSpec => []RecordIsCurrent
<1>1. ServerInit => RInv
  BY InitRecords
<1>2. IInv /\ IInv' /\ RInv /\ [ServerNext]_server_vars => RInv'
  BY StepRecords
<1>3. RInv => RecordIsCurrent
  BY DEF RInv, Written, ItemsWritten, MailWritten, RecordIsCurrent
<1>4. QED BY <1>1, <1>2, <1>3, InvariantHolds, PTL DEF ServerSpec

(* Stored stacks become fewer only when the player has used some up, if    *)
(* besides nobody gets a stack before the restore (items_to_record).       *)
THEOREM RecordsEraseNothing ==
  ASSUME ~Early, ~Overlap
  PROVE  ServerSpec => RecordErasesNothing
<1>1. ServerInit => RInv /\ EInv
  BY InitRecords
<1>2. IInv /\ IInv' /\ RInv /\ [ServerNext]_server_vars => RInv'
  BY StepRecords
<1>3. IInv /\ IInv' /\ RInv /\ EInv /\ [ServerNext]_server_vars => EInv'
  BY StepErasesNothing
<1>4. IInv /\ RInv /\ EInv /\ [ServerNext]_server_vars
        => [\A a \in Accounts : inventories'[a] < inventories[a] => a \in spent]_server_vars
  BY OnlySpentIsErased
<1>5. QED BY <1>1, <1>2, <1>3, <1>4, InvariantHolds, PTL DEF ServerSpec, RecordErasesNothing

=============================================================================
