------------------------ MODULE InventorySyncProofs ------------------------
(***************************************************************************)
(* What is proved of InventorySync: the client never draws a square whose  *)
(* stack it does not know, and once everything has arrived it shows what   *)
(* the model is; for any owners, items, limits and number of packets on    *)
(* the way.                                                                *)
(*                                                                         *)
(* Both speak of what the client has been told.  The invariant is about    *)
(* what it will have been told, packet by packet, with what an operation   *)
(* that has yet to end has reported (Owed).                                *)
(***************************************************************************)
EXTENDS InventorySync, InventoriesProofs

-----------------------------------------------------------------------------
(* What packets say. *)

Packet ==
  [kind : {"add", "sync"}, entity : Nat, stack : Stack]
    \cup [kind : {"remove"}, entity : Nat]
    \cup [kind : {"list"}, owner : Owners, list : UNION {[I -> Nat] : I \in SUBSET Nat}]
    \cup {NoPacket}

Tells(p, e) == p.kind \in {"add", "sync"} /\ p.entity = e
Drops(p, e) == p.kind = "remove" /\ p.entity = e
Lists(p, o) == p.kind = "list" /\ p.owner = o

Shows(p, sq, e) == Lists(p, sq[1]) /\ sq[2] \in DOMAIN p.list /\ p.list[sq[2]] = e

Reports(E, o) == \E i \in DOMAIN E : E[i] = SlotsChanged(o)

-----------------------------------------------------------------------------
(* The invariant: q is on its way, E is what an operation under way has    *)
(* reported so far; it, sl and nm are the stacks, the squares and the ids  *)
(* that were ever held.                                                    *)

(* A stack is known, about to be, or reported before any list names it.    *)
HeldIsTold(q, E, it, sl) ==
  \A e \in DOMAIN it :
    \/ e \in DOMAIN known
    \/ \E j \in DOMAIN q : Tells(q[j], e)
    \/ \E i \in DOMAIN E :
         /\ E[i] = ItemCreated(e)
         /\ \A sq \in DOMAIN sl, m \in DOMAIN E :
              sl[sq] = e /\ m < i => E[m] # SlotsChanged(sq[1])

HeldIsNotDropped(q, E, it) ==
  \A e \in DOMAIN it : /\ \A j \in DOMAIN q : ~Drops(q[j], e)
                       /\ \A i \in DOMAIN E : E[i] # ItemRemoved(e)

(* Whatever is told wrong is put right later.                              *)
StacksSettle(q, E, it) ==
  \A e \in DOMAIN it :
    \/ \E i \in DOMAIN E : E[i] \in {ItemCreated(e), ItemChanged(e)}
    \/ /\ e \in DOMAIN known /\ known[e] # it[e] =>
            \E k \in DOMAIN q : Tells(q[k], e) /\ q[k].stack = it[e]
       /\ \A j \in DOMAIN q : Tells(q[j], e) /\ q[j].stack # it[e] =>
            \E k \in DOMAIN q : j < k /\ Tells(q[k], e) /\ q[k].stack = it[e]

SquaresSettle(q, E, sl) ==
  \A sq \in DOMAIN sl :
    \/ Reports(E, sq[1])
    \/ /\ \/ sq \in DOMAIN view /\ view[sq] = sl[sq]
          \/ \E k \in DOMAIN q : Shows(q[k], sq, sl[sq])
       /\ \A j \in DOMAIN q : Lists(q[j], sq[1]) /\ ~Shows(q[j], sq, sl[sq]) =>
            \E k \in DOMAIN q : j < k /\ Shows(q[k], sq, sl[sq])

(* Where a stack is shown it is, or a new list of that owner is to come.   *)
SeenIsHeld(q, E, it, sl) ==
  /\ \A sq \in DOMAIN view : view[sq] \in DOMAIN it =>
       \/ sq \in DOMAIN sl /\ sl[sq] = view[sq]
       \/ Reports(E, sq[1])
       \/ \E k \in DOMAIN q : Lists(q[k], sq[1])
  /\ \A j \in DOMAIN q : q[j].kind = "list" => \A x \in DOMAIN q[j].list :
       LET sq == <<q[j].owner, x>>
       IN  q[j].list[x] \in DOMAIN it =>
             \/ sq \in DOMAIN sl /\ sl[sq] = q[j].list[x]
             \/ Reports(E, sq[1])
             \/ \E k \in DOMAIN q : j < k /\ Lists(q[k], sq[1])

(* By the n-th packet, with new lists of the owners in R, no square shows e. *)
Hidden(q, n, e, R) ==
  /\ \A sq \in DOMAIN view : view[sq] = e =>
       sq[1] \in R \/ \E k \in DOMAIN q : k < n /\ Lists(q[k], sq[1])
  /\ \A j \in DOMAIN q : j < n /\ q[j].kind = "list" => \A x \in DOMAIN q[j].list :
       q[j].list[x] = e =>
         q[j].owner \in R \/ \E k \in DOMAIN q : j < k /\ k < n /\ Lists(q[k], q[j].owner)

ReportedBefore(E, i) == {o \in Owners : \E m \in DOMAIN E : m < i /\ E[m] = SlotsChanged(o)}

(* What is dropped is gone for good and shown nowhere by then.             *)
GoneIsHidden(q, E, it, nm) ==
  /\ \A i \in DOMAIN E : E[i].kind = "removed" =>
       /\ E[i].entity \in nm \ DOMAIN it
       /\ Hidden(q, Len(q) + 1, E[i].entity, ReportedBefore(E, i))
  /\ \A n \in DOMAIN q : q[n].kind = "remove" =>
       /\ q[n].entity \in nm \ DOMAIN it
       /\ Hidden(q, n, q[n].entity, {})

(* What a list names has been told before it, and not dropped.             *)
ShownIsKnown(q) ==
  \A j \in DOMAIN q : q[j].kind = "list" => \A x \in DOMAIN q[j].list :
    LET e == q[j].list[x]
    IN  e # 0 => /\ e \in DOMAIN known \/ \E k \in DOMAIN q : k < j /\ Tells(q[k], e)
                 /\ \A k \in DOMAIN q : k < j => ~Drops(q[k], e)

ShownIsNamed(q, nm) ==
  /\ \A sq \in DOMAIN view : view[sq] \in nm \cup {0}
  /\ \A j \in DOMAIN q : q[j].kind = "list" => \A x \in DOMAIN q[j].list :
       q[j].list[x] \in nm \cup {0}

Owed(q, E, it, sl, nm) ==
  /\ HeldIsTold(q, E, it, sl) /\ HeldIsNotDropped(q, E, it)
  /\ StacksSettle(q, E, it) /\ SquaresSettle(q, E, sl)
  /\ SeenIsHeld(q, E, it, sl) /\ GoneIsHidden(q, E, it, nm)
  /\ ShownIsKnown(q) /\ ShownIsNamed(q, nm)

Pending == IF task = Idle THEN <<>> ELSE effects

NothingNew == task # Idle => \A i \in DOMAIN effects : effects[i].kind # "created"

SyncTyped == outbox \in Seq(Packet) /\ DOMAIN view \subseteq Square

SyncInv ==
  /\ SyncTyped /\ NothingNew
  /\ Owed(outbox, Pending, items, slots, named)
  /\ ClientNeverDangles

-----------------------------------------------------------------------------
(* Packets made of effects.                                                *)

(* What a packet says of the stacks and squares it is made from.           *)
Says(p, effect, it, sl) ==
  /\ p \in Packet
  /\ \A e : Tells(p, e) <=> effect \in {ItemCreated(e), ItemChanged(e)} /\ e \in DOMAIN it
  /\ \A e : Tells(p, e) => p.stack = it[e]
  /\ \A e : Drops(p, e) <=> effect = ItemRemoved(e)
  /\ \A o : Lists(p, o) <=> effect = SlotsChanged(o)
  /\ \A o : Lists(p, o) =>
       /\ \A x \in DOMAIN p.list : <<o, x>> \in DOMAIN sl /\ p.list[x] = sl[<<o, x>>]
       /\ \A sq \in DOMAIN sl : sq[1] = o => Shows(p, sq, sl[sq])

LEMMA JoinedPackets ==
  ASSUME NEW q \in Seq(Packet), NEW p \in Seq(Packet)
  PROVE  /\ q \o p \in Seq(Packet) /\ Len(q) \in Nat /\ Len(p) \in Nat
         /\ DOMAIN q = 1 .. Len(q) /\ DOMAIN p = 1 .. Len(p)
         /\ DOMAIN (q \o p) = 1 .. Len(q) + Len(p)
         /\ \A j \in DOMAIN q : (q \o p)[j] = q[j]
         /\ \A i \in DOMAIN p : /\ (q \o p)[Len(q) + i] = p[i]
                                /\ Len(q) + i \in DOMAIN (q \o p)
         /\ \A j \in DOMAIN (q \o p) :
              j \in DOMAIN q \/ (j > Len(q) /\ j - Len(q) \in DOMAIN p /\ (q \o p)[j] = p[j - Len(q)])
<1>1. q \o p \in Seq(Packet) /\ Len(q) \in Nat /\ Len(p) \in Nat
  BY ConcatProperties
<1>2. DOMAIN q = 1 .. Len(q) /\ DOMAIN p = 1 .. Len(p)
  OBVIOUS
<1>3. /\ Len(q \o p) = Len(q) + Len(p)
      /\ \A j \in 1 .. Len(q) + Len(p) :
           (q \o p)[j] = IF j <= Len(q) THEN q[j] ELSE p[j - Len(q)]
  BY ConcatProperties
<1>4. DOMAIN (q \o p) = 1 .. Len(q) + Len(p)
  BY <1>1, <1>3
<1>5. ASSUME NEW j \in DOMAIN q PROVE (q \o p)[j] = q[j]
  BY <1>1, <1>2, <1>3
<1>6. ASSUME NEW i \in DOMAIN p
      PROVE  (q \o p)[Len(q) + i] = p[i] /\ Len(q) + i \in DOMAIN (q \o p)
  <2>1. i \in Nat /\ 1 <= i /\ i <= Len(p)
    BY <1>1, <1>2
  <2>2. Len(q) + i \in 1 .. Len(q) + Len(p) /\ ~(Len(q) + i <= Len(q)) /\ Len(q) + i - Len(q) = i
    BY <1>1, <2>1
  <2> QED BY <1>3, <1>4, <2>2
<1>7. ASSUME NEW j \in DOMAIN (q \o p)
      PROVE  j \in DOMAIN q \/ (j > Len(q) /\ j - Len(q) \in DOMAIN p /\ (q \o p)[j] = p[j - Len(q)])
  BY <1>1, <1>2, <1>3, <1>4
<1> QED BY <1>1, <1>2, <1>4, <1>5, <1>6, <1>7

LEMMA LiveIsListed ==
  ASSUME NEW it, NEW sl, NEW p, NEW effect, Says(p, effect, it, sl), p.kind = "list",
         \A sq \in DOMAIN sl : sl[sq] \in DOMAIN it \cup {0}
  PROVE  \A x \in DOMAIN p.list : p.list[x] \in DOMAIN it \cup {0}
<1>1. Lists(p, p.owner)
  BY DEF Lists
<1>2. \A x \in DOMAIN p.list :
        <<p.owner, x>> \in DOMAIN sl /\ p.list[x] = sl[<<p.owner, x>>]
  BY <1>1 DEF Says
<1> QED BY <1>2

(* Sending what was reported: what an operation owed is on its way.        *)
LEMMA SendingSettles ==
  ASSUME NEW it, NEW sl, NEW nm, NEW q \in Seq(Packet), NEW p \in Seq(Packet),
         NEW E \in Seq(Effect), Len(p) = Len(E),
         \A i \in DOMAIN E : Says(p[i], E[i], it, sl),
         Owed(q, E, it, sl, nm),
         0 \notin nm, DOMAIN it \subseteq nm, DOMAIN sl \subseteq Square,
         \A sq \in DOMAIN sl : sl[sq] \in DOMAIN it \cup {0}
  PROVE  Owed(q \o p, <<>>, it, sl, nm)
<1> DEFINE qp == q \o p
           n == Len(q)
<1>1. /\ n \in Nat /\ DOMAIN q = 1 .. n /\ DOMAIN E = DOMAIN p /\ DOMAIN p = 1 .. Len(p)
      /\ DOMAIN qp = 1 .. n + Len(p)
      /\ Len(p) \in Nat
      /\ \A j \in DOMAIN q : qp[j] = q[j] /\ j \in DOMAIN qp /\ j <= n
      /\ \A i \in DOMAIN E : qp[n + i] = p[i] /\ n + i \in DOMAIN qp
      /\ \A j \in DOMAIN qp :
           \/ j \in DOMAIN q
           \/ j > n /\ j - n \in DOMAIN E /\ qp[j] = p[j - n]
  <2>1. DOMAIN E = 1 .. Len(E) /\ DOMAIN p = 1 .. Len(p) /\ Len(p) \in Nat
    OBVIOUS
  <2>2. n \in Nat /\ DOMAIN q = 1 .. n /\ DOMAIN qp = 1 .. n + Len(p)
    BY JoinedPackets
  <2>3. \A j \in DOMAIN q : j \in DOMAIN qp /\ j <= n
    BY <2>1, <2>2
  <2>4. DOMAIN E = DOMAIN p
    BY <2>1
  <2> HIDE DEF n, qp
  <2>5. /\ \A j \in DOMAIN q : qp[j] = q[j]
        /\ \A i \in DOMAIN p : qp[n + i] = p[i] /\ n + i \in DOMAIN qp
        /\ \A j \in DOMAIN qp :
             j \in DOMAIN q \/ (j > n /\ j - n \in DOMAIN p /\ qp[j] = p[j - n])
    BY JoinedPackets DEF n, qp
  <2> QED BY <2>1, <2>2, <2>3, <2>4, <2>5
<1>2. \A i \in DOMAIN E : Says(qp[n + i], E[i], it, sl)
  BY <1>1
<1>3. \A j \in DOMAIN qp :
        \/ j \in DOMAIN q /\ qp[j] = q[j] /\ j <= n
        \/ j > n /\ j - n \in DOMAIN E /\ Says(qp[j], E[j - n], it, sl)
  BY <1>1
<1> HIDE DEF qp, n
<1>4. HeldIsTold(qp, <<>>, it, sl)
  <2> SUFFICES ASSUME NEW e \in DOMAIN it, e \notin DOMAIN known
               PROVE  \E j \in DOMAIN qp : Tells(qp[j], e)
    BY DEF HeldIsTold
  <2>1. CASE \E j \in DOMAIN q : Tells(q[j], e)
    BY <1>1, <2>1
  <2>2. CASE \E i \in DOMAIN E : E[i] = ItemCreated(e)
    BY <1>1, <1>2, <2>2 DEF Says
  <2> QED BY <2>1, <2>2 DEF Owed, HeldIsTold
<1>5. HeldIsNotDropped(qp, <<>>, it)
  BY <1>3 DEF Owed, HeldIsNotDropped, Says
<1>6. StacksSettle(qp, <<>>, it)
  <2> SUFFICES ASSUME NEW e \in DOMAIN it
               PROVE  /\ e \in DOMAIN known /\ known[e] # it[e] =>
                           \E k \in DOMAIN qp : Tells(qp[k], e) /\ qp[k].stack = it[e]
                      /\ \A j \in DOMAIN qp : Tells(qp[j], e) /\ qp[j].stack # it[e] =>
                           \E k \in DOMAIN qp : j < k /\ Tells(qp[k], e) /\ qp[k].stack = it[e]
    BY DEF StacksSettle
  <2>1. CASE \E i \in DOMAIN E : E[i] \in {ItemCreated(e), ItemChanged(e)}
    <3>1. PICK i \in DOMAIN E : E[i] \in {ItemCreated(e), ItemChanged(e)}
      BY <2>1
    <3>2. n + i \in DOMAIN qp /\ Tells(qp[n + i], e) /\ qp[n + i].stack = it[e]
      BY <1>1, <1>2, <3>1 DEF Says
    <3>3. \A j \in DOMAIN qp : Tells(qp[j], e) /\ qp[j].stack # it[e] => j <= n
      BY <1>3 DEF Says
    <3>4. \A j \in DOMAIN qp : j <= n => j < n + i
      BY <1>1
    <3> QED BY <3>2, <3>3, <3>4
  <2>2. CASE ~\E i \in DOMAIN E : E[i] \in {ItemCreated(e), ItemChanged(e)}
    <3>1. \A j \in DOMAIN qp : Tells(qp[j], e) => j \in DOMAIN q /\ qp[j] = q[j]
      BY <1>3, <2>2 DEF Says
    <3>2. /\ e \in DOMAIN known /\ known[e] # it[e] =>
               \E k \in DOMAIN q : Tells(q[k], e) /\ q[k].stack = it[e]
          /\ \A j \in DOMAIN q : Tells(q[j], e) /\ q[j].stack # it[e] =>
               \E k \in DOMAIN q : j < k /\ Tells(q[k], e) /\ q[k].stack = it[e]
      BY <2>2 DEF Owed, StacksSettle
    <3>3. \A k \in DOMAIN q : k \in DOMAIN qp /\ qp[k] = q[k]
      BY <1>1
    <3> QED BY <3>1, <3>2, <3>3
  <2> QED BY <2>1, <2>2
<1>7. SquaresSettle(qp, <<>>, sl)
  <2> SUFFICES ASSUME NEW sq \in DOMAIN sl
               PROVE  /\ \/ sq \in DOMAIN view /\ view[sq] = sl[sq]
                         \/ \E k \in DOMAIN qp : Shows(qp[k], sq, sl[sq])
                      /\ \A j \in DOMAIN qp : Lists(qp[j], sq[1]) /\ ~Shows(qp[j], sq, sl[sq]) =>
                           \E k \in DOMAIN qp : j < k /\ Shows(qp[k], sq, sl[sq])
    BY DEF SquaresSettle
  <2>1. \A j \in DOMAIN qp : Lists(qp[j], sq[1]) /\ ~Shows(qp[j], sq, sl[sq]) =>
          j \in DOMAIN q /\ qp[j] = q[j] /\ j <= n
    BY <1>3 DEF Says
  <2>2. CASE Reports(E, sq[1])
    <3>1. PICK i \in DOMAIN E : E[i] = SlotsChanged(sq[1])
      BY <2>2 DEF Reports
    <3>2. n + i \in DOMAIN qp /\ Shows(qp[n + i], sq, sl[sq])
      BY <1>1, <1>2, <3>1 DEF Says
    <3>3. \A j \in DOMAIN qp : j <= n => j < n + i
      BY <1>1
    <3> QED BY <2>1, <3>2, <3>3
  <2>3. CASE ~Reports(E, sq[1])
    <3>1. /\ \/ sq \in DOMAIN view /\ view[sq] = sl[sq]
             \/ \E k \in DOMAIN q : Shows(q[k], sq, sl[sq])
          /\ \A j \in DOMAIN q : Lists(q[j], sq[1]) /\ ~Shows(q[j], sq, sl[sq]) =>
               \E k \in DOMAIN q : j < k /\ Shows(q[k], sq, sl[sq])
      BY <2>3 DEF Owed, SquaresSettle
    <3>2. \A k \in DOMAIN q : k \in DOMAIN qp /\ qp[k] = q[k]
      BY <1>1
    <3> QED BY <2>1, <3>1, <3>2
  <2> QED BY <2>2, <2>3
<1>8. \A o : Reports(E, o) => \E k \in DOMAIN qp : k > n /\ Lists(qp[k], o)
  BY <1>1, <1>2 DEF Reports, Says
<1>9. SeenIsHeld(qp, <<>>, it, sl)
  <2>1. ASSUME NEW sq \in DOMAIN view, view[sq] \in DOMAIN it
        PROVE  \/ sq \in DOMAIN sl /\ sl[sq] = view[sq]
               \/ \E k \in DOMAIN qp : Lists(qp[k], sq[1])
    BY <1>1, <1>8, <2>1 DEF Owed, SeenIsHeld
  <2>2. ASSUME NEW j \in DOMAIN qp, qp[j].kind = "list", NEW x \in DOMAIN qp[j].list,
               qp[j].list[x] \in DOMAIN it
        PROVE  \/ <<qp[j].owner, x>> \in DOMAIN sl /\ sl[<<qp[j].owner, x>>] = qp[j].list[x]
               \/ \E k \in DOMAIN qp : j < k /\ Lists(qp[k], qp[j].owner)
    <3>1. CASE j \in DOMAIN q /\ qp[j] = q[j] /\ j <= n
      <4>1. \/ <<q[j].owner, x>> \in DOMAIN sl /\ sl[<<q[j].owner, x>>] = q[j].list[x]
            \/ Reports(E, q[j].owner)
            \/ \E k \in DOMAIN q : j < k /\ Lists(q[k], q[j].owner)
        BY <2>2, <3>1 DEF Owed, SeenIsHeld
      <4>2. \A k \in DOMAIN qp : k > n => j < k
        BY <1>1, <3>1
      <4> QED BY <1>1, <1>8, <3>1, <4>1, <4>2
    <3>2. CASE j > n /\ j - n \in DOMAIN E /\ Says(qp[j], E[j - n], it, sl)
      BY <2>2, <3>2 DEF Says, Lists
    <3> QED BY <1>3, <3>1, <3>2
  <2> QED BY <2>1, <2>2 DEF SeenIsHeld
<1>10. ASSUME NEW i \in DOMAIN E, NEW o \in ReportedBefore(E, i)
       PROVE  \E k \in DOMAIN qp : n < k /\ k < n + i /\ Lists(qp[k], o)
  <2>1. PICK m \in DOMAIN E : m < i /\ E[m] = SlotsChanged(o)
    BY <1>10 DEF ReportedBefore
  <2>2. n + m \in DOMAIN qp /\ Lists(qp[n + m], o)
    BY <1>1, <1>2, <2>1 DEF Says
  <2>3. n < n + m /\ n + m < n + i
    BY <1>1, <2>1
  <2> QED BY <2>2, <2>3
<1>11. ASSUME NEW k \in DOMAIN qp, qp[k].kind = "remove"
       PROVE  qp[k].entity \in nm \ DOMAIN it /\ Hidden(qp, k, qp[k].entity, {})
  <2> DEFINE e == qp[k].entity
  <2>1. CASE k \in DOMAIN q /\ qp[k] = q[k] /\ k <= n
    <3>1. e \in nm \ DOMAIN it /\ Hidden(q, k, e, {})
      BY <1>11, <2>1 DEF Owed, GoneIsHidden
    <3>2. \A j \in DOMAIN qp : j < k => j \in DOMAIN q /\ qp[j] = q[j]
      BY <1>1, <2>1
    <3>3. \A j \in DOMAIN q : j \in DOMAIN qp /\ qp[j] = q[j]
      BY <1>1
    <3> HIDE DEF e
    <3>4. Hidden(qp, k, e, {})
      BY <3>1, <3>2, <3>3 DEF Hidden
    <3> QED BY <3>1, <3>4 DEF e
  <2>2. CASE k > n /\ k - n \in DOMAIN E /\ Says(qp[k], E[k - n], it, sl)
    <3> DEFINE i == k - n
    <3>1. E[i] = ItemRemoved(e)
      BY <1>11, <2>2 DEF Says, Drops
    <3>2. e \in nm \ DOMAIN it /\ Hidden(q, n + 1, e, ReportedBefore(E, i))
      BY <2>2, <3>1 DEF Owed, GoneIsHidden, ItemRemoved, n
    <3>3. n + i = k /\ i \in DOMAIN E
      BY <1>1, <2>2
    <3>4. \A o \in ReportedBefore(E, i) :
            \E l \in DOMAIN qp : n < l /\ l < k /\ Lists(qp[l], o)
      BY <1>10, <3>3
    <3>5. \A j \in DOMAIN q : j \in DOMAIN qp /\ qp[j] = q[j] /\ j <= n /\ j < n + 1 /\ j < k
      BY <1>1, <2>2
    <3>6. \A j \in DOMAIN qp : qp[j].kind = "list" =>
            \A x \in DOMAIN qp[j].list : qp[j].list[x] = e => j \in DOMAIN q /\ qp[j] = q[j]
      <4> SUFFICES ASSUME NEW j \in DOMAIN qp, qp[j].kind = "list",
                          Says(qp[j], E[j - n], it, sl),
                          NEW x \in DOMAIN qp[j].list, qp[j].list[x] = e
                   PROVE  FALSE
        BY <1>3
      <4>1. qp[j].list[x] \in DOMAIN it \cup {0}
        BY LiveIsListed
      <4> QED BY <3>2, <4>1
    <3> HIDE DEF e, i
    <3>7. \A sq \in DOMAIN view : view[sq] = e =>
            \E l \in DOMAIN qp : l < k /\ Lists(qp[l], sq[1])
      BY <3>2, <3>4, <3>5 DEF Hidden
    <3>8. \A j \in DOMAIN qp : j < k /\ qp[j].kind = "list" => \A x \in DOMAIN qp[j].list :
            qp[j].list[x] = e =>
              \E l \in DOMAIN qp : j < l /\ l < k /\ Lists(qp[l], qp[j].owner)
      <4> SUFFICES ASSUME NEW j \in DOMAIN qp, j < k, qp[j].kind = "list",
                          NEW x \in DOMAIN qp[j].list, qp[j].list[x] = e
                   PROVE  \E l \in DOMAIN qp : j < l /\ l < k /\ Lists(qp[l], qp[j].owner)
        OBVIOUS
      <4>1. j \in DOMAIN q /\ qp[j] = q[j] /\ j <= n /\ j < n + 1
        BY <3>5, <3>6
      <4>2. \/ q[j].owner \in ReportedBefore(E, i)
            \/ \E l \in DOMAIN q : j < l /\ l < n + 1 /\ Lists(q[l], q[j].owner)
        BY <3>2, <4>1 DEF Hidden
      <4>3. \A l \in DOMAIN qp : n < l => j < l
        BY <1>1, <4>1
      <4> QED BY <3>4, <3>5, <4>1, <4>2, <4>3
    <3>9. Hidden(qp, k, e, {})
      BY <3>7, <3>8 DEF Hidden
    <3> QED BY <3>2, <3>9 DEF e
  <2> QED BY <1>3, <2>1, <2>2
<1>12. GoneIsHidden(qp, <<>>, it, nm)
  BY <1>11 DEF GoneIsHidden
<1>13. ShownIsKnown(qp)
  <2> SUFFICES ASSUME NEW j \in DOMAIN qp, qp[j].kind = "list", NEW x \in DOMAIN qp[j].list,
                      NEW e, e = qp[j].list[x], e # 0
               PROVE  /\ e \in DOMAIN known \/ \E k \in DOMAIN qp : k < j /\ Tells(qp[k], e)
                      /\ \A k \in DOMAIN qp : k < j => ~Drops(qp[k], e)
    BY DEF ShownIsKnown
  <2>1. CASE j \in DOMAIN q /\ qp[j] = q[j] /\ j <= n
    <3>1. /\ e \in DOMAIN known \/ \E k \in DOMAIN q : k < j /\ Tells(q[k], e)
          /\ \A k \in DOMAIN q : k < j => ~Drops(q[k], e)
      BY <2>1 DEF Owed, ShownIsKnown
    <3>2. \A k \in DOMAIN qp : k < j => k \in DOMAIN q /\ qp[k] = q[k]
      BY <1>1, <2>1
    <3>3. \A k \in DOMAIN q : k \in DOMAIN qp /\ qp[k] = q[k]
      BY <1>1
    <3> QED BY <3>1, <3>2, <3>3
  <2>2. CASE j > n /\ j - n \in DOMAIN E /\ Says(qp[j], E[j - n], it, sl)
    <3> DEFINE o == qp[j].owner
    <3>1. E[j - n] = SlotsChanged(o) /\ <<o, x>> \in DOMAIN sl /\ e = sl[<<o, x>>]
      BY <2>2 DEF Says, Lists
    <3>2. e \in DOMAIN it
      BY <3>1
    <3>3. \A k \in DOMAIN qp : ~Drops(qp[k], e)
      BY <1>5, <3>2 DEF HeldIsNotDropped
    <3>4. \A k \in DOMAIN q : k \in DOMAIN qp /\ qp[k] = q[k] /\ k < j
      BY <1>1, <2>2
    <3>5. CASE \E i \in DOMAIN E :
                 /\ E[i] = ItemCreated(e)
                 /\ \A sq \in DOMAIN sl, m \in DOMAIN E :
                      sl[sq] = e /\ m < i => E[m] # SlotsChanged(sq[1])
      <4>1. PICK i \in DOMAIN E :
                 /\ E[i] = ItemCreated(e)
                 /\ \A sq \in DOMAIN sl, m \in DOMAIN E :
                      sl[sq] = e /\ m < i => E[m] # SlotsChanged(sq[1])
        BY <3>5
      <4>2. ~(j - n < i)
        BY <2>2, <3>1, <4>1
      <4>3. E[i] # E[j - n]
        BY <3>1, <4>1 DEF ItemCreated, SlotsChanged
      <4>4. i < j - n
        BY <1>1, <2>2, <4>2, <4>3
      <4>5. n + i \in DOMAIN qp /\ n + i < j
        BY <1>1, <2>2, <4>4
      <4>6. Tells(qp[n + i], e)
        BY <1>2, <3>2, <4>1 DEF Says
      <4> QED BY <3>3, <4>5, <4>6
    <3>6. CASE e \in DOMAIN known \/ \E k \in DOMAIN q : Tells(q[k], e)
      BY <3>3, <3>4, <3>6
    <3> QED BY <3>2, <3>5, <3>6 DEF Owed, HeldIsTold
  <2> QED BY <1>3, <2>1, <2>2
<1>14. ShownIsNamed(qp, nm)
  <2>1. \A sq \in DOMAIN view : view[sq] \in nm \cup {0}
    BY DEF Owed, ShownIsNamed
  <2>2. ASSUME NEW j \in DOMAIN qp, qp[j].kind = "list", NEW x \in DOMAIN qp[j].list
        PROVE  qp[j].list[x] \in nm \cup {0}
    <3>1. CASE j \in DOMAIN q /\ qp[j] = q[j]
      BY <2>2, <3>1 DEF Owed, ShownIsNamed
    <3>2. CASE j > n /\ j - n \in DOMAIN E /\ Says(qp[j], E[j - n], it, sl)
      BY <2>2, <3>2, LiveIsListed
    <3> QED BY <1>3, <3>1, <3>2
  <2> QED BY <2>1, <2>2 DEF ShownIsNamed
<1> QED BY <1>4, <1>5, <1>6, <1>7, <1>9, <1>12, <1>13, <1>14 DEF Owed, qp

-----------------------------------------------------------------------------
(* An operation that reports what it does.                                 *)

Honest(E, more, it, it2, sl, sl2, nm, nm2) ==
  /\ \A e \in DOMAIN it \cap DOMAIN it2 :
       it2[e] # it[e] => \E i \in DOMAIN more : more[i] = ItemChanged(e)
  /\ \A e \in DOMAIN it2 \ DOMAIN it :
       /\ e \notin nm
       /\ \E i \in DOMAIN more :
            /\ more[i] = ItemCreated(e)
            /\ \A sq \in DOMAIN sl2, m \in DOMAIN more :
                 sl2[sq] = e /\ m < i => more[m] # SlotsChanged(sq[1])
  /\ \A sq \in DOMAIN sl2 : (sq \in DOMAIN sl /\ sl2[sq] = sl[sq]) \/ Reports(more, sq[1])
  /\ \A i \in DOMAIN more \ DOMAIN E : more[i].kind = "removed" =>
       /\ more[i].entity \in DOMAIN it \ DOMAIN it2
       /\ \A sq \in DOMAIN sl : sl[sq] = more[i].entity => sq[1] \in ReportedBefore(more, i)
  /\ \A sq \in DOMAIN sl \ DOMAIN sl2 : sl[sq] \notin DOMAIN it2
  /\ nm \subseteq nm2

(* What such an operation has done is owed until it is sent.               *)
LEMMA HonestIsOwed ==
  ASSUME NEW q \in Seq(Packet), NEW E \in Seq(Effect), NEW more \in Seq(Effect),
         NEW it, NEW it2, NEW sl, NEW sl2, NEW nm, NEW nm2,
         DOMAIN E \subseteq DOMAIN more, \A i \in DOMAIN E : more[i] = E[i],
         \A i \in DOMAIN E : E[i].kind # "created",
         0 \notin nm2, DOMAIN it \subseteq nm, DOMAIN it2 \subseteq nm2,
         DOMAIN sl \subseteq Square, DOMAIN sl2 \subseteq Square,
         DOMAIN view \subseteq Square,
         Honest(E, more, it, it2, sl, sl2, nm, nm2), Owed(q, E, it, sl, nm)
  PROVE  Owed(q, more, it2, sl2, nm2)
<1>1. \A o : Reports(E, o) => Reports(more, o)
  BY DEF Reports
<1>2. \A e \in DOMAIN it2 : e \in DOMAIN it \/ e \notin nm
  BY DEF Honest
<1>3. \A i \in DOMAIN E : /\ E[i] # ItemRemoved(0)
                          /\ \A e \in DOMAIN it2 : more[i] # ItemRemoved(e)
  <2> SUFFICES ASSUME NEW i \in DOMAIN E, NEW e, E[i] = ItemRemoved(e), e \in DOMAIN it2 \/ e = 0
               PROVE  FALSE
    OBVIOUS
  <2>1. e \in nm \ DOMAIN it
    BY DEF Owed, GoneIsHidden, ItemRemoved
  <2> QED BY <1>2, <2>1 DEF Honest
<1>4. \A i \in DOMAIN more \ DOMAIN E, e \in DOMAIN it2 : more[i] # ItemRemoved(e)
  BY DEF Honest, ItemRemoved
<1>5. HeldIsTold(q, more, it2, sl2)
  <2> SUFFICES ASSUME NEW e \in DOMAIN it2
               PROVE  \/ e \in DOMAIN known
                      \/ \E j \in DOMAIN q : Tells(q[j], e)
                      \/ \E i \in DOMAIN more :
                           /\ more[i] = ItemCreated(e)
                           /\ \A sq \in DOMAIN sl2, m \in DOMAIN more :
                                sl2[sq] = e /\ m < i => more[m] # SlotsChanged(sq[1])
    BY DEF HeldIsTold
  <2>1. CASE e \in DOMAIN it
    BY <2>1 DEF Owed, HeldIsTold, ItemCreated
  <2>2. CASE e \notin DOMAIN it
    BY <2>2 DEF Honest
  <2> QED BY <2>1, <2>2
<1>6. HeldIsNotDropped(q, more, it2)
  <2>1. \A e \in DOMAIN it2, j \in DOMAIN q : ~Drops(q[j], e)
    BY <1>2 DEF Owed, HeldIsNotDropped, GoneIsHidden, Drops
  <2> QED BY <1>3, <1>4, <2>1 DEF HeldIsNotDropped
<1>7. StacksSettle(q, more, it2)
  <2> SUFFICES ASSUME NEW e \in DOMAIN it2,
                      ~\E i \in DOMAIN more : more[i] \in {ItemCreated(e), ItemChanged(e)}
               PROVE  /\ e \in DOMAIN known /\ known[e] # it2[e] =>
                           \E k \in DOMAIN q : Tells(q[k], e) /\ q[k].stack = it2[e]
                      /\ \A j \in DOMAIN q : Tells(q[j], e) /\ q[j].stack # it2[e] =>
                           \E k \in DOMAIN q : j < k /\ Tells(q[k], e) /\ q[k].stack = it2[e]
    BY DEF StacksSettle
  <2>1. e \in DOMAIN it /\ it2[e] = it[e]
    BY DEF Honest
  <2>2. ~\E i \in DOMAIN E : E[i] \in {ItemCreated(e), ItemChanged(e)}
    OBVIOUS
  <2> QED BY <2>1, <2>2 DEF Owed, StacksSettle
<1>8. SquaresSettle(q, more, sl2)
  <2> SUFFICES ASSUME NEW sq \in DOMAIN sl2, ~Reports(more, sq[1])
               PROVE  /\ \/ sq \in DOMAIN view /\ view[sq] = sl2[sq]
                         \/ \E k \in DOMAIN q : Shows(q[k], sq, sl2[sq])
                      /\ \A j \in DOMAIN q : Lists(q[j], sq[1]) /\ ~Shows(q[j], sq, sl2[sq]) =>
                           \E k \in DOMAIN q : j < k /\ Shows(q[k], sq, sl2[sq])
    BY DEF SquaresSettle
  <2>1. sq \in DOMAIN sl /\ sl2[sq] = sl[sq] /\ ~Reports(E, sq[1])
    BY <1>1 DEF Honest
  <2> QED BY <2>1 DEF Owed, SquaresSettle
<1>9. ASSUME NEW sq, sq \in DOMAIN sl, sl[sq] \in DOMAIN it2
      PROVE  (sq \in DOMAIN sl2 /\ sl2[sq] = sl[sq]) \/ Reports(more, sq[1])
  BY <1>9 DEF Honest
<1>10. SeenIsHeld(q, more, it2, sl2)
  <2>1. ASSUME NEW sq \in DOMAIN view, view[sq] \in DOMAIN it2
        PROVE  \/ sq \in DOMAIN sl2 /\ sl2[sq] = view[sq]
               \/ Reports(more, sq[1])
               \/ \E k \in DOMAIN q : Lists(q[k], sq[1])
    <3>1. view[sq] \in DOMAIN it
      BY <1>2, <2>1 DEF Owed, ShownIsNamed
    <3>2. \/ sq \in DOMAIN sl /\ sl[sq] = view[sq]
          \/ Reports(E, sq[1])
          \/ \E k \in DOMAIN q : Lists(q[k], sq[1])
      BY <3>1 DEF Owed, SeenIsHeld
    <3> QED BY <1>1, <1>9, <2>1, <3>2
  <2>2. ASSUME NEW j \in DOMAIN q, q[j].kind = "list", NEW x \in DOMAIN q[j].list,
               q[j].list[x] \in DOMAIN it2, NEW sq, sq = <<q[j].owner, x>>
        PROVE  \/ sq \in DOMAIN sl2 /\ sl2[sq] = q[j].list[x]
               \/ Reports(more, sq[1])
               \/ \E k \in DOMAIN q : j < k /\ Lists(q[k], sq[1])
    <3>1. q[j].list[x] \in DOMAIN it
      BY <1>2, <2>2 DEF Owed, ShownIsNamed
    <3>2. \/ sq \in DOMAIN sl /\ sl[sq] = q[j].list[x]
          \/ Reports(E, sq[1])
          \/ \E k \in DOMAIN q : j < k /\ Lists(q[k], sq[1])
      BY <2>2, <3>1 DEF Owed, SeenIsHeld
    <3> QED BY <1>1, <1>9, <2>2, <3>2
  <2> QED BY <2>1, <2>2 DEF SeenIsHeld
<1>11. ASSUME NEW i \in DOMAIN more, more[i].kind = "removed"
       PROVE  /\ more[i].entity \in nm2 \ DOMAIN it2
              /\ Hidden(q, Len(q) + 1, more[i].entity, ReportedBefore(more, i))
  <2> DEFINE e == more[i].entity
  <2>1. CASE i \in DOMAIN E
    <3>1. e \in nm \ DOMAIN it /\ Hidden(q, Len(q) + 1, e, ReportedBefore(E, i))
      BY <1>11, <2>1 DEF Owed, GoneIsHidden
    <3>2. ReportedBefore(E, i) \subseteq ReportedBefore(more, i)
      BY DEF ReportedBefore
    <3>3. e \in nm2 \ DOMAIN it2
      BY <1>2, <3>1 DEF Honest
    <3> HIDE DEF e
    <3>4. Hidden(q, Len(q) + 1, e, ReportedBefore(more, i))
      BY <3>1, <3>2 DEF Hidden
    <3> QED BY <3>3, <3>4 DEF e
  <2>2. CASE i \notin DOMAIN E
    <3>1. /\ e \in DOMAIN it \ DOMAIN it2
          /\ \A sq \in DOMAIN sl : sl[sq] = e => sq[1] \in ReportedBefore(more, i)
      BY <1>11, <2>2 DEF Honest
    <3>2. e \in nm2
      BY <3>1 DEF Honest
    <3>3. \A m \in DOMAIN E : m < i
      <4>1. DOMAIN E = 1 .. Len(E) /\ DOMAIN more = 1 .. Len(more) /\ Len(E) \in Nat /\ Len(more) \in Nat
        OBVIOUS
      <4> QED BY <2>2, <4>1
    <3>4. \A o \in Owners : Reports(E, o) => o \in ReportedBefore(more, i)
      BY <3>3 DEF Reports, ReportedBefore
    <3>5. DOMAIN q = 1 .. Len(q) /\ Len(q) \in Nat /\ \A k \in DOMAIN q : k < Len(q) + 1
      OBVIOUS
    <3> HIDE DEF e
    <3>6. \A sq \in DOMAIN view : view[sq] = e =>
            \/ sq[1] \in ReportedBefore(more, i)
            \/ \E k \in DOMAIN q : k < Len(q) + 1 /\ Lists(q[k], sq[1])
      BY <3>1, <3>4, <3>5 DEF Owed, SeenIsHeld, Square
    <3>7. \A j \in DOMAIN q : j < Len(q) + 1 /\ q[j].kind = "list" => \A x \in DOMAIN q[j].list :
            q[j].list[x] = e =>
              \/ q[j].owner \in ReportedBefore(more, i)
              \/ \E k \in DOMAIN q : j < k /\ k < Len(q) + 1 /\ Lists(q[k], q[j].owner)
      <4> SUFFICES ASSUME NEW j \in DOMAIN q, q[j].kind = "list", NEW x \in DOMAIN q[j].list,
                          q[j].list[x] = e
                   PROVE  \/ q[j].owner \in ReportedBefore(more, i)
                          \/ \E k \in DOMAIN q : j < k /\ Lists(q[k], q[j].owner)
        BY <3>5
      <4>1. q[j] \in Packet
        OBVIOUS
      <4>2. q[j].owner \in Owners
        BY <4>1 DEF Packet, NoPacket
      <4> DEFINE sq == <<q[j].owner, x>>
      <4>3. \/ sq \in DOMAIN sl /\ sl[sq] = e
            \/ Reports(E, q[j].owner)
            \/ \E k \in DOMAIN q : j < k /\ Lists(q[k], q[j].owner)
        BY <3>1 DEF Owed, SeenIsHeld
      <4>4. sq[1] = q[j].owner
        OBVIOUS
      <4> HIDE DEF sq
      <4> QED BY <3>1, <3>4, <4>2, <4>3, <4>4
    <3>8. Hidden(q, Len(q) + 1, e, ReportedBefore(more, i))
      BY <3>6, <3>7 DEF Hidden
    <3> QED BY <3>1, <3>2, <3>8 DEF e
  <2> QED BY <2>1, <2>2
<1>12. \A n \in DOMAIN q : q[n].kind = "remove" =>
         q[n].entity \in nm2 \ DOMAIN it2 /\ Hidden(q, n, q[n].entity, {})
  BY <1>2 DEF Owed, GoneIsHidden, Honest
<1>13. GoneIsHidden(q, more, it2, nm2)
  BY <1>11, <1>12 DEF GoneIsHidden
<1>14. ShownIsKnown(q) /\ ShownIsNamed(q, nm2)
  BY DEF Owed, ShownIsNamed, Honest
<1> QED BY <1>5, <1>6, <1>7, <1>8, <1>10, <1>13, <1>14 DEF Owed

-----------------------------------------------------------------------------
(* The client reads the first packet.                                      *)

LEMMA ReadingSays ==
  ASSUME NEW p \in Packet, Receive(p), DOMAIN view \subseteq Square
  PROVE  /\ DOMAIN view' \subseteq Square
         /\ \A e : Tells(p, e) => e \in DOMAIN known' /\ known'[e] = p.stack
         /\ \A e : ~Tells(p, e) /\ ~Drops(p, e) =>
              /\ e \in DOMAIN known' <=> e \in DOMAIN known
              /\ e \in DOMAIN known => known'[e] = known[e]
         /\ \A sq \in DOMAIN view' : Lists(p, sq[1]) => Shows(p, sq, view'[sq])
         /\ \A sq \in Square : \A e : Shows(p, sq, e) => sq \in DOMAIN view' /\ view'[sq] = e
         /\ \A sq : ~Lists(p, sq[1]) => /\ sq \in DOMAIN view' <=> sq \in DOMAIN view
                                        /\ sq \in DOMAIN view => view'[sq] = view[sq]
<1>1. CASE p.kind = "list"
  <2> DEFINE there == {q \in DOMAIN view : q[1] # p.owner} \cup ({p.owner} \X DOMAIN p.list)
  <2>1. /\ view' = [sq \in there |-> IF sq[1] = p.owner THEN p.list[sq[2]] ELSE view[sq]]
        /\ UNCHANGED known
    BY <1>1 DEF Receive
  <2>2. p.owner \in Owners /\ DOMAIN p.list \subseteq Nat
    <3>1. p.owner \in Owners /\ p.list \in UNION {[I -> Nat] : I \in SUBSET Nat}
      BY <1>1 DEF Packet, NoPacket
    <3>2. PICK I \in SUBSET Nat : p.list \in [I -> Nat]
      BY <3>1
    <3> QED BY <3>1, <3>2
  <2>3. /\ DOMAIN view' = there
        /\ \A sq \in there : view'[sq] = IF sq[1] = p.owner THEN p.list[sq[2]] ELSE view[sq]
    BY <2>1
  <2>4. DOMAIN view' \subseteq Square
    BY <2>2, <2>3 DEF Square
  <2>5. \A sq \in DOMAIN view' : Lists(p, sq[1]) => Shows(p, sq, view'[sq])
    BY <1>1, <2>3 DEF Lists, Shows
  <2>6. \A sq \in Square : \A e : Shows(p, sq, e) => sq \in DOMAIN view' /\ view'[sq] = e
    <3> SUFFICES ASSUME NEW sq \in Square, Lists(p, sq[1]), sq[2] \in DOMAIN p.list
                 PROVE  sq \in DOMAIN view' /\ view'[sq] = p.list[sq[2]]
      BY DEF Shows
    <3>1. sq = <<sq[1], sq[2]>> /\ sq[1] = p.owner
      BY DEF Square, Lists
    <3>2. sq \in {p.owner} \X DOMAIN p.list
      BY <3>1
    <3> QED BY <2>3, <3>1, <3>2
  <2>7. \A sq : ~Lists(p, sq[1]) => /\ sq \in DOMAIN view' <=> sq \in DOMAIN view
                                    /\ sq \in DOMAIN view => view'[sq] = view[sq]
    BY <1>1, <2>3 DEF Lists
  <2>8. /\ \A e : Tells(p, e) => e \in DOMAIN known' /\ known'[e] = p.stack
        /\ \A e : ~Tells(p, e) /\ ~Drops(p, e) =>
             /\ e \in DOMAIN known' <=> e \in DOMAIN known
             /\ e \in DOMAIN known => known'[e] = known[e]
    BY <1>1, <2>1 DEF Tells
  <2> HIDE DEF there
  <2> QED BY <2>4, <2>5, <2>6, <2>7, <2>8
<1>2. CASE p.kind # "list"
  <2>1. UNCHANGED view
    BY <1>2 DEF Receive
  <2>2. \A o : ~Lists(p, o)
    BY <1>2 DEF Lists
  <2>3. /\ \A e : Tells(p, e) => e \in DOMAIN known' /\ known'[e] = p.stack
        /\ \A e : ~Tells(p, e) /\ ~Drops(p, e) =>
             /\ e \in DOMAIN known' <=> e \in DOMAIN known
             /\ e \in DOMAIN known => known'[e] = known[e]
    <3>1. CASE p.kind \in {"add", "sync"}
      <4>1. known' = [e \in DOMAIN known \cup {p.entity} |->
                        IF e = p.entity THEN p.stack ELSE known[e]]
        BY <3>1 DEF Receive
      <4> QED BY <3>1, <4>1 DEF Tells
    <3>2. CASE p.kind = "remove"
      <4>1. known' = [e \in DOMAIN known \ {p.entity} |-> known[e]]
        BY <3>2 DEF Receive
      <4> QED BY <3>2, <4>1 DEF Tells, Drops
    <3>3. CASE p.kind = "nothing"
      BY <3>3 DEF Receive, Tells
    <3> QED BY <1>2, <3>1, <3>2, <3>3 DEF Receive
  <2> QED BY <2>1, <2>2, <2>3 DEF Shows
<1> QED BY <1>1, <1>2

(* q is what remains of Q.                                                 *)
LEMMA TailOfPackets ==
  ASSUME NEW Q \in Seq(Packet), Q # <<>>
  PROVE  /\ Tail(Q) \in Seq(Packet) /\ Len(Q) = Len(Tail(Q)) + 1 /\ Len(Tail(Q)) \in Nat
         /\ 1 \in DOMAIN Q /\ Head(Q) = Q[1] /\ Q[1] \in Packet
         /\ \A j \in DOMAIN Q : j >= 1 /\ j \in Nat
         /\ \A j \in DOMAIN Tail(Q) : j \in Nat /\ j >= 1 /\ j + 1 \in DOMAIN Q /\ Tail(Q)[j] = Q[j + 1]
         /\ \A j \in DOMAIN Q : j # 1 => j - 1 \in DOMAIN Tail(Q) /\ Tail(Q)[j - 1] = Q[j]
<1>1. Tail(Q) \in Seq(Packet) /\ Len(Tail(Q)) = Len(Q) - 1 /\ Len(Q) \in Nat \ {0}
  OBVIOUS
<1>2. DOMAIN Q = 1 .. Len(Q) /\ DOMAIN Tail(Q) = 1 .. Len(Q) - 1
  BY <1>1
<1>3. \A j \in 1 .. Len(Q) - 1 : Tail(Q)[j] = Q[j + 1]
  BY <1>1
<1>4. Head(Q) = Q[1]
  OBVIOUS
<1> QED BY <1>1, <1>2, <1>3, <1>4

LEMMA HidingShifts ==
  ASSUME NEW Q \in Seq(Packet), Q # <<>>, DOMAIN view \subseteq Square, Receive(Head(Q)),
         NEW n \in Nat, n >= 1, NEW e, NEW R, Hidden(Q, n + 1, e, R)
  PROVE  Hidden(Tail(Q), n, e, R)'
<1> DEFINE q == Tail(Q)
           p == Head(Q)
<1>1. /\ 1 \in DOMAIN Q /\ p = Q[1] /\ p \in Packet
      /\ \A j \in DOMAIN Q : j >= 1 /\ j \in Nat
      /\ \A j \in DOMAIN q : j \in Nat /\ j >= 1 /\ j + 1 \in DOMAIN Q /\ q[j] = Q[j + 1]
      /\ \A j \in DOMAIN Q : j # 1 => j - 1 \in DOMAIN q /\ q[j - 1] = Q[j]
  BY TailOfPackets
<1>2. /\ \A sq \in DOMAIN view' : Lists(p, sq[1]) => Shows(p, sq, view'[sq])
      /\ \A sq : ~Lists(p, sq[1]) => /\ sq \in DOMAIN view' <=> sq \in DOMAIN view
                                     /\ sq \in DOMAIN view => view'[sq] = view[sq]
  BY <1>1, ReadingSays
<1>3. 1 < n + 1
  OBVIOUS
<1>4. \A k \in DOMAIN Q : k < n + 1 /\ k # 1 => k - 1 < n
  BY <1>1
<1> HIDE DEF p, q
<1>5. ASSUME NEW sq \in DOMAIN view', view'[sq] = e
      PROVE  sq[1] \in R \/ \E k \in DOMAIN q : k < n /\ Lists(q[k], sq[1])
  <2>1. CASE Lists(p, sq[1])
    <3>1. Shows(p, sq, e)
      BY <1>2, <1>5, <2>1
    <3>2. \/ p.owner \in R
          \/ \E k \in DOMAIN Q : 1 < k /\ k < n + 1 /\ Lists(Q[k], p.owner)
      BY <1>1, <1>3, <3>1 DEF Hidden, Shows, Lists
    <3>3. p.owner = sq[1]
      BY <2>1 DEF Lists
    <3>4. \A k \in DOMAIN Q : 1 < k => k # 1
      BY <1>1
    <3> QED BY <1>1, <1>4, <3>2, <3>3, <3>4
  <2>2. CASE ~Lists(p, sq[1])
    <3>1. sq \in DOMAIN view /\ view[sq] = e
      BY <1>2, <1>5, <2>2
    <3>2. sq[1] \in R \/ \E k \in DOMAIN Q : k < n + 1 /\ k # 1 /\ Lists(Q[k], sq[1])
      BY <1>1, <2>2, <3>1 DEF Hidden
    <3> QED BY <1>1, <1>4, <3>2
  <2> QED BY <2>1, <2>2
<1>6. ASSUME NEW j \in DOMAIN q, j < n, q[j].kind = "list", NEW x \in DOMAIN q[j].list,
             q[j].list[x] = e
      PROVE  \/ q[j].owner \in R
             \/ \E k \in DOMAIN q : j < k /\ k < n /\ Lists(q[k], q[j].owner)
  <2>1. j + 1 \in DOMAIN Q /\ Q[j + 1] = q[j] /\ j + 1 < n + 1
    BY <1>1, <1>6
  <2>2. \/ q[j].owner \in R
        \/ \E k \in DOMAIN Q : j + 1 < k /\ k < n + 1 /\ Lists(Q[k], q[j].owner)
    BY <1>6, <2>1 DEF Hidden
  <2>3. \A k \in DOMAIN Q : j + 1 < k => k # 1 /\ j < k - 1
    BY <1>1
  <2> QED BY <1>1, <1>4, <2>2, <2>3
<1> QED BY <1>5, <1>6 DEF Hidden, q

(* What is owed stays owed, or has been made good.                         *)
LEMMA ReadingKeepsOwed ==
  ASSUME NEW Q \in Seq(Packet), Q # <<>>, NEW E, NEW it, NEW sl, NEW nm,
         DOMAIN view \subseteq Square, DOMAIN sl \subseteq Square, Receive(Head(Q)),
         Owed(Q, E, it, sl, nm), ClientNeverDangles
  PROVE  Owed(Tail(Q), E, it, sl, nm)' /\ ClientNeverDangles'
<1> DEFINE q == Tail(Q)
           p == Head(Q)
<1>1. /\ Len(Q) = Len(q) + 1 /\ Len(q) \in Nat
      /\ 1 \in DOMAIN Q /\ p = Q[1] /\ p \in Packet
      /\ \A j \in DOMAIN Q : j >= 1 /\ j \in Nat
      /\ \A j \in DOMAIN q : j \in Nat /\ j >= 1 /\ j + 1 \in DOMAIN Q /\ q[j] = Q[j + 1]
      /\ \A j \in DOMAIN Q : j # 1 => j - 1 \in DOMAIN q /\ q[j - 1] = Q[j]
  BY TailOfPackets
<1>2. /\ \A e : Tells(p, e) => e \in DOMAIN known' /\ known'[e] = p.stack
      /\ \A e : ~Tells(p, e) /\ ~Drops(p, e) =>
           /\ e \in DOMAIN known' <=> e \in DOMAIN known
           /\ e \in DOMAIN known => known'[e] = known[e]
      /\ \A sq \in DOMAIN view' : Lists(p, sq[1]) => Shows(p, sq, view'[sq])
      /\ \A sq \in Square : \A e : Shows(p, sq, e) => sq \in DOMAIN view' /\ view'[sq] = e
      /\ \A sq : ~Lists(p, sq[1]) => /\ sq \in DOMAIN view' <=> sq \in DOMAIN view
                                     /\ sq \in DOMAIN view => view'[sq] = view[sq]
      /\ DOMAIN view' \subseteq Square
  BY <1>1, ReadingSays
<1>3. \A n \in DOMAIN q : \A e, R : Hidden(Q, n + 1, e, R) => Hidden(q, n, e, R)'
  BY <1>1, HidingShifts
<1>4. \A e, R : Hidden(Q, Len(Q) + 1, e, R) => Hidden(q, Len(q) + 1, e, R)'
  <2>1. Len(q) + 1 \in Nat /\ Len(q) + 1 >= 1
    BY <1>1
  <2> QED BY <1>1, <2>1, HidingShifts
<1> HIDE DEF p, q
<1>5. \A k \in DOMAIN Q : k # 1 => k - 1 \in DOMAIN q /\ q[k - 1] = Q[k]
  BY <1>1
<1>6. \A j \in DOMAIN q : /\ j + 1 \in DOMAIN Q /\ q[j] = Q[j + 1]
                          /\ \A k \in DOMAIN Q : j + 1 < k => k # 1 /\ j < k - 1
                          /\ \A k \in DOMAIN Q : k < j + 1 /\ k # 1 => k - 1 < j
                          /\ \A k \in DOMAIN q : k < j => k + 1 < j + 1
  BY <1>1
<1>7. \A k \in DOMAIN Q : 1 < k => k # 1
  OBVIOUS
<1>8. HeldIsTold(q, E, it, sl)'
  <2> SUFFICES ASSUME NEW e \in DOMAIN it,
                      e \in DOMAIN known \/ \E j \in DOMAIN Q : Tells(Q[j], e)
               PROVE  e \in DOMAIN known' \/ \E j \in DOMAIN q : Tells(q[j], e)
    BY DEF Owed, HeldIsTold
  <2>1. ~Drops(p, e)
    BY <1>1 DEF Owed, HeldIsNotDropped
  <2> QED BY <1>1, <1>2, <1>5, <2>1
<1>9. HeldIsNotDropped(q, E, it)'
  BY <1>6 DEF Owed, HeldIsNotDropped
<1>10. StacksSettle(q, E, it)'
  <2> SUFFICES ASSUME NEW e \in DOMAIN it,
                      /\ e \in DOMAIN known /\ known[e] # it[e] =>
                           \E k \in DOMAIN Q : Tells(Q[k], e) /\ Q[k].stack = it[e]
                      /\ \A j \in DOMAIN Q : Tells(Q[j], e) /\ Q[j].stack # it[e] =>
                           \E k \in DOMAIN Q : j < k /\ Tells(Q[k], e) /\ Q[k].stack = it[e]
               PROVE  /\ e \in DOMAIN known' /\ known'[e] # it[e] =>
                           \E k \in DOMAIN q : Tells(q[k], e) /\ q[k].stack = it[e]
                      /\ \A j \in DOMAIN q : Tells(q[j], e) /\ q[j].stack # it[e] =>
                           \E k \in DOMAIN q : j < k /\ Tells(q[k], e) /\ q[k].stack = it[e]
    BY DEF Owed, StacksSettle
  <2>1. ~Drops(p, e)
    BY <1>1 DEF Owed, HeldIsNotDropped
  <2>2. ASSUME e \in DOMAIN known', known'[e] # it[e]
        PROVE  \E k \in DOMAIN q : Tells(q[k], e) /\ q[k].stack = it[e]
    <3>1. CASE Tells(p, e)
      <4>1. Q[1].stack # it[e] /\ Tells(Q[1], e) /\ 1 \in DOMAIN Q
        BY <1>1, <1>2, <2>2, <3>1
      <4>2. PICK k \in DOMAIN Q : 1 < k /\ Tells(Q[k], e) /\ Q[k].stack = it[e]
        BY <4>1
      <4> QED BY <1>5, <1>7, <4>2
    <3>2. CASE ~Tells(p, e)
      <4>1. e \in DOMAIN known /\ known[e] # it[e]
        BY <1>2, <2>1, <2>2, <3>2
      <4>2. PICK k \in DOMAIN Q : Tells(Q[k], e) /\ Q[k].stack = it[e]
        BY <4>1
      <4> QED BY <1>1, <1>5, <3>2, <4>2
    <3> QED BY <3>1, <3>2
  <2>3. ASSUME NEW j \in DOMAIN q, Tells(q[j], e), q[j].stack # it[e]
        PROVE  \E k \in DOMAIN q : j < k /\ Tells(q[k], e) /\ q[k].stack = it[e]
    <3>1. PICK k \in DOMAIN Q : j + 1 < k /\ Tells(Q[k], e) /\ Q[k].stack = it[e]
      BY <1>6, <2>3
    <3> QED BY <1>5, <1>6, <3>1
  <2> QED BY <2>2, <2>3
<1>11. SquaresSettle(q, E, sl)'
  <2> SUFFICES ASSUME NEW sq \in DOMAIN sl,
                      /\ \/ sq \in DOMAIN view /\ view[sq] = sl[sq]
                         \/ \E k \in DOMAIN Q : Shows(Q[k], sq, sl[sq])
                      /\ \A j \in DOMAIN Q : Lists(Q[j], sq[1]) /\ ~Shows(Q[j], sq, sl[sq]) =>
                           \E k \in DOMAIN Q : j < k /\ Shows(Q[k], sq, sl[sq])
               PROVE  /\ \/ sq \in DOMAIN view' /\ view'[sq] = sl[sq]
                         \/ \E k \in DOMAIN q : Shows(q[k], sq, sl[sq])
                      /\ \A j \in DOMAIN q : Lists(q[j], sq[1]) /\ ~Shows(q[j], sq, sl[sq]) =>
                           \E k \in DOMAIN q : j < k /\ Shows(q[k], sq, sl[sq])
    BY DEF Owed, SquaresSettle
  <2>1. \/ sq \in DOMAIN view' /\ view'[sq] = sl[sq]
        \/ \E k \in DOMAIN q : Shows(q[k], sq, sl[sq])
    <3>1. CASE Shows(p, sq, sl[sq])
      BY <1>2, <3>1
    <3>2. CASE Lists(p, sq[1]) /\ ~Shows(p, sq, sl[sq])
      <4>1. PICK k \in DOMAIN Q : 1 < k /\ Shows(Q[k], sq, sl[sq])
        BY <1>1, <3>2
      <4> QED BY <1>5, <1>7, <4>1
    <3>3. CASE ~Lists(p, sq[1]) /\ ~Shows(p, sq, sl[sq])
      BY <1>1, <1>2, <1>5, <3>3
    <3> QED BY <3>1, <3>2, <3>3
  <2>2. ASSUME NEW j \in DOMAIN q, Lists(q[j], sq[1]), ~Shows(q[j], sq, sl[sq])
        PROVE  \E k \in DOMAIN q : j < k /\ Shows(q[k], sq, sl[sq])
    <3>1. PICK k \in DOMAIN Q : j + 1 < k /\ Shows(Q[k], sq, sl[sq])
      BY <1>6, <2>2
    <3> QED BY <1>5, <1>6, <3>1
  <2> QED BY <2>1, <2>2
<1>12. SeenIsHeld(q, E, it, sl)'
  <2>1. ASSUME NEW sq \in DOMAIN view', view'[sq] \in DOMAIN it
        PROVE  \/ sq \in DOMAIN sl /\ sl[sq] = view'[sq]
               \/ Reports(E, sq[1])
               \/ \E k \in DOMAIN q : Lists(q[k], sq[1])
    <3>1. CASE Lists(p, sq[1])
      <4> DEFINE e == view'[sq]
      <4>1. Q[1].kind = "list" /\ sq[2] \in DOMAIN Q[1].list /\ Q[1].list[sq[2]] = e /\ Q[1].owner = sq[1]
        BY <1>1, <1>2, <3>1 DEF Shows, Lists
      <4>2. sq = <<Q[1].owner, sq[2]>>
        BY <1>2, <4>1 DEF Square
      <4> HIDE DEF e
      <4>3. \/ sq \in DOMAIN sl /\ sl[sq] = e
            \/ Reports(E, sq[1])
            \/ \E k \in DOMAIN Q : 1 < k /\ Lists(Q[k], sq[1])
        BY <1>1, <2>1, <4>1, <4>2 DEF Owed, SeenIsHeld, e
      <4> QED BY <1>5, <1>7, <4>3 DEF e
    <3>2. CASE ~Lists(p, sq[1])
      <4>1. sq \in DOMAIN view /\ view'[sq] = view[sq]
        BY <1>2, <3>2
      <4>2. \/ sq \in DOMAIN sl /\ sl[sq] = view[sq]
            \/ Reports(E, sq[1])
            \/ \E k \in DOMAIN Q : Lists(Q[k], sq[1])
        BY <2>1, <4>1 DEF Owed, SeenIsHeld
      <4> QED BY <1>1, <1>5, <3>2, <4>1, <4>2
    <3> QED BY <3>1, <3>2
  <2>2. ASSUME NEW j \in DOMAIN q, q[j].kind = "list", NEW x \in DOMAIN q[j].list,
               q[j].list[x] \in DOMAIN it, NEW sq, sq = <<q[j].owner, x>>
        PROVE  \/ sq \in DOMAIN sl /\ sl[sq] = q[j].list[x]
               \/ Reports(E, sq[1])
               \/ \E k \in DOMAIN q : j < k /\ Lists(q[k], sq[1])
    <3>1. \/ sq \in DOMAIN sl /\ sl[sq] = q[j].list[x]
          \/ Reports(E, sq[1])
          \/ \E k \in DOMAIN Q : j + 1 < k /\ Lists(Q[k], sq[1])
      BY <1>6, <2>2 DEF Owed, SeenIsHeld
    <3> QED BY <1>5, <1>6, <3>1
  <2> QED BY <2>1, <2>2 DEF SeenIsHeld
<1>13. GoneIsHidden(q, E, it, nm)'
  <2>1. \A i \in DOMAIN E : E[i].kind = "removed" =>
          /\ E[i].entity \in nm \ DOMAIN it
          /\ Hidden(q, Len(q) + 1, E[i].entity, ReportedBefore(E, i))'
    BY <1>4 DEF Owed, GoneIsHidden
  <2>2. \A n \in DOMAIN q : q[n].kind = "remove" =>
          /\ q[n].entity \in nm \ DOMAIN it
          /\ Hidden(q, n, q[n].entity, {})'
    BY <1>3, <1>6 DEF Owed, GoneIsHidden
  <2> QED BY <2>1, <2>2 DEF GoneIsHidden
<1>14. ShownIsKnown(q)'
  <2> SUFFICES ASSUME NEW j \in DOMAIN q, q[j].kind = "list", NEW x \in DOMAIN q[j].list,
                      NEW e, e = q[j].list[x], e # 0
               PROVE  /\ e \in DOMAIN known' \/ \E k \in DOMAIN q : k < j /\ Tells(q[k], e)
                      /\ \A k \in DOMAIN q : k < j => ~Drops(q[k], e)
    BY DEF ShownIsKnown
  <2>1. /\ e \in DOMAIN known \/ \E k \in DOMAIN Q : k < j + 1 /\ Tells(Q[k], e)
        /\ \A k \in DOMAIN Q : k < j + 1 => ~Drops(Q[k], e)
    BY <1>6 DEF Owed, ShownIsKnown
  <2>2. 1 < j + 1
    BY <1>1
  <2>3. ~Drops(p, e)
    BY <1>1, <2>1, <2>2
  <2>4. \A k \in DOMAIN q : k < j => ~Drops(q[k], e)
    BY <1>6, <2>1
  <2>5. CASE e \in DOMAIN known
    BY <1>2, <2>3, <2>4, <2>5
  <2>6. CASE \E k \in DOMAIN Q : k < j + 1 /\ Tells(Q[k], e)
    <3>1. PICK k \in DOMAIN Q : k < j + 1 /\ Tells(Q[k], e)
      BY <2>6
    <3>2. CASE k = 1
      BY <1>1, <1>2, <2>4, <3>1, <3>2
    <3>3. CASE k # 1
      BY <1>5, <1>6, <2>4, <3>1, <3>3
    <3> QED BY <3>2, <3>3
  <2> QED BY <2>1, <2>5, <2>6
<1>15. ShownIsNamed(q, nm)'
  <2>1. ASSUME NEW sq \in DOMAIN view'
        PROVE  view'[sq] \in nm \cup {0}
    <3>1. CASE Lists(p, sq[1])
      <4>1. Q[1].kind = "list" /\ sq[2] \in DOMAIN Q[1].list /\ Q[1].list[sq[2]] = view'[sq]
        BY <1>1, <1>2, <3>1 DEF Shows, Lists
      <4> QED BY <1>1, <4>1 DEF Owed, ShownIsNamed
    <3>2. CASE ~Lists(p, sq[1])
      BY <1>2, <3>2 DEF Owed, ShownIsNamed
    <3> QED BY <3>1, <3>2
  <2>2. \A j \in DOMAIN q : q[j].kind = "list" => \A x \in DOMAIN q[j].list :
          q[j].list[x] \in nm \cup {0}
    BY <1>6 DEF Owed, ShownIsNamed
  <2> QED BY <2>1, <2>2 DEF ShownIsNamed
<1>16. ClientNeverDangles'
  <2> SUFFICES ASSUME NEW sq \in DOMAIN view', view'[sq] # 0
               PROVE  view'[sq] \in DOMAIN known'
    BY DEF ClientNeverDangles
  <2> DEFINE e == view'[sq]
  <2>1. CASE Lists(p, sq[1])
    <3>1. Q[1].kind = "list" /\ sq[2] \in DOMAIN Q[1].list /\ Q[1].list[sq[2]] = e
      BY <1>1, <1>2, <2>1 DEF Shows, Lists
    <3>2. e \in DOMAIN known \/ \E k \in DOMAIN Q : k < 1 /\ Tells(Q[k], e)
      BY <1>1, <3>1 DEF Owed, ShownIsKnown
    <3>3. \A k \in DOMAIN Q : ~(k < 1)
      BY <1>1
    <3>4. ~Tells(p, e) /\ ~Drops(p, e)
      BY <2>1 DEF Lists, Tells, Drops
    <3> HIDE DEF e
    <3>5. e \in DOMAIN known'
      BY <1>2, <3>2, <3>3, <3>4
    <3> QED BY <3>5 DEF e
  <2>2. CASE ~Lists(p, sq[1])
    <3>1. sq \in DOMAIN view /\ view[sq] = e /\ e \in DOMAIN known
      BY <1>2, <2>2 DEF ClientNeverDangles
    <3>2. ~Drops(p, e)
      <4> SUFFICES ASSUME Drops(p, e) PROVE FALSE
        OBVIOUS
      <4>1. Q[1].kind = "remove" /\ Q[1].entity = e
        BY <1>1 DEF Drops
      <4> HIDE DEF e
      <4>2. Hidden(Q, 1, e, {})
        BY <1>1, <4>1 DEF Owed, GoneIsHidden
      <4>3. \A k \in DOMAIN Q : ~(k < 1)
        BY <1>1
      <4> QED BY <3>1, <4>2, <4>3 DEF Hidden
    <3> HIDE DEF e
    <3>3. e \in DOMAIN known'
      BY <1>2, <3>1, <3>2
    <3> QED BY <3>3 DEF e
  <2> QED BY <2>1, <2>2
<1> QED BY <1>8, <1>9, <1>10, <1>11, <1>12, <1>13, <1>14, <1>15, <1>16 DEF Owed, q

-----------------------------------------------------------------------------
(* Every operation reports what it does. *)

Told(D) == Honest(<<>>, D, items, items', slots, slots', named, named')

LEMMA EffectKinds ==
  /\ \A e : /\ ItemCreated(e).kind = "created" /\ ItemCreated(e).entity = e
            /\ ItemChanged(e).kind = "changed" /\ ItemChanged(e).entity = e
            /\ ItemRemoved(e).kind = "removed" /\ ItemRemoved(e).entity = e
  /\ \A o : SlotsChanged(o).kind = "slots" /\ SlotsChanged(o).owner = o
BY DEF ItemCreated, ItemChanged, ItemRemoved, SlotsChanged

(* What a step of a "take all" reports comes after what was reported.      *)
LEMMA ToldAfter ==
  ASSUME NEW E \in Seq(Effect), NEW D \in Seq(Effect), Told(D),
         DOMAIN items' \subseteq DOMAIN items
  PROVE  /\ E \o D \in Seq(Effect) /\ DOMAIN E \subseteq DOMAIN (E \o D)
         /\ \A i \in DOMAIN E : (E \o D)[i] = E[i]
         /\ Honest(E, E \o D, items, items', slots, slots', named, named')
         /\ (\A i \in DOMAIN E : E[i].kind # "created") /\ (\A i \in DOMAIN D : D[i].kind # "created")
              => \A i \in DOMAIN (E \o D) : (E \o D)[i].kind # "created"
<1> DEFINE F == E \o D
           n == Len(E)
<1>1. /\ F \in Seq(Effect) /\ Len(F) = n + Len(D) /\ n \in Nat /\ Len(D) \in Nat
      /\ \A j \in 1 .. n + Len(D) : F[j] = IF j <= n THEN E[j] ELSE D[j - n]
  BY ConcatProperties
<1>2. DOMAIN E = 1 .. n /\ DOMAIN D = 1 .. Len(D) /\ DOMAIN F = 1 .. n + Len(D)
  BY <1>1
<1> HIDE DEF F, n
<1>3. \A i \in DOMAIN E : i \in DOMAIN F /\ F[i] = E[i]
  BY <1>1, <1>2
<1>4. ASSUME NEW i \in DOMAIN D
      PROVE  n + i \in DOMAIN F /\ F[n + i] = D[i] /\ \A m \in DOMAIN D : m < i => n + m < n + i
  <2>1. i \in Nat /\ 1 <= i /\ i <= Len(D)
    BY <1>1, <1>2
  <2>2. n + i \in 1 .. n + Len(D) /\ ~(n + i <= n) /\ n + i - n = i
    BY <1>1, <2>1
  <2> QED BY <1>1, <1>2, <2>2
<1>5. \A j \in DOMAIN F \ DOMAIN E : j - n \in DOMAIN D /\ F[j] = D[j - n] /\ n + (j - n) = j
  BY <1>1, <1>2
<1>6. \A o : Reports(D, o) => Reports(F, o)
  BY <1>4 DEF Reports
<1>7. ASSUME NEW j \in DOMAIN F \ DOMAIN E
      PROVE  ReportedBefore(D, j - n) \subseteq ReportedBefore(F, j)
  BY <1>4, <1>5 DEF ReportedBefore
<1>8. Honest(E, F, items, items', slots, slots', named, named')
  <2>1. \A e \in DOMAIN items \cap DOMAIN items' :
          items'[e] # items[e] => \E i \in DOMAIN F : F[i] = ItemChanged(e)
    BY <1>4 DEF Told, Honest
  <2>2. \A j \in DOMAIN F \ DOMAIN E : F[j].kind = "removed" =>
          /\ F[j].entity \in DOMAIN items \ DOMAIN items'
          /\ \A sq \in DOMAIN slots : slots[sq] = F[j].entity => sq[1] \in ReportedBefore(F, j)
    BY <1>5, <1>7 DEF Told, Honest
  <2> QED BY <1>6, <2>1, <2>2 DEF Told, Honest
<1>9. (\A i \in DOMAIN E : E[i].kind # "created") /\ (\A i \in DOMAIN D : D[i].kind # "created")
        => \A i \in DOMAIN F : F[i].kind # "created"
  BY <1>3, <1>5
<1> QED BY <1>1, <1>3, <1>8, <1>9 DEF F

(* Operations that change squares only.                                    *)
LEMMA SquaresTold ==
  ASSUME NEW D, UNCHANGED <<items, named>>,
         \A sq \in DOMAIN slots' :
           (sq \in DOMAIN slots /\ slots'[sq] = slots[sq]) \/ Reports(D, sq[1]),
         DOMAIN slots \subseteq DOMAIN slots',
         \A i \in DOMAIN D : D[i].kind = "slots"
  PROVE  Told(D)
BY DEF Told, Honest

LEMMA OpenTold ==
  ASSUME IInv, NEW o \in Owners, NEW size, ~IsOpen(o), Open(o, size)
  PROVE  Told(effects')
<1> DEFINE new == {q \in DOMAIN slots : q[1] # o} \cup ({o} \X (0 .. size - 1))
<1>1. /\ slots' = [sq \in new |-> IF sq[1] = o THEN 0 ELSE slots[sq]]
      /\ effects' = <<SlotsChanged(o)>> /\ UNCHANGED <<items, named>>
  BY DEF Open
<1>2. \A sq \in DOMAIN slots : sq[1] # o
  BY DEF IsOpen
<1>3. Reports(effects', o) /\ \A i \in DOMAIN effects' : effects'[i].kind = "slots"
  BY <1>1, EffectKinds DEF Reports
<1>4. DOMAIN slots \subseteq DOMAIN slots'
  BY <1>1, <1>2
<1>5. \A sq \in DOMAIN slots' : (sq \in DOMAIN slots /\ slots'[sq] = slots[sq]) \/ sq[1] = o
  BY <1>1
<1> QED BY <1>1, <1>3, <1>4, <1>5, SquaresTold

LEMMA CloseTold ==
  ASSUME IInv, NEW o \in Owners, Close(o)
  PROVE  Told(effects')
<1> DEFINE gone == {slots[sq] : sq \in SquaresOf(o)}
<1>1. /\ items' = [x \in DOMAIN items \ gone |-> items[x]]
      /\ slots' = [sq \in {q \in DOMAIN slots : q[1] # o} |-> slots[sq]]
      /\ effects' = <<>> /\ named' = named
  BY DEF Close
<1>2. \A sq \in DOMAIN slots \ DOMAIN slots' : slots[sq] \in gone
  BY <1>1 DEF SquaresOf
<1> HIDE DEF gone
<1>3. DOMAIN items' = DOMAIN items \ gone /\ \A e \in DOMAIN items' : items'[e] = items[e]
  BY <1>1
<1>4. \A sq \in DOMAIN slots' : sq \in DOMAIN slots /\ slots'[sq] = slots[sq]
  BY <1>1
<1> QED BY <1>1, <1>2, <1>3, <1>4 DEF Told, Honest

(* What is minted is told of before the square it is put in.               *)
LEMMA MintedTold ==
  ASSUME IInv, NEW name, NEW count, CreateStack(name, count),
         NEW D, NEW i \in DOMAIN D, D[i] = ItemCreated(next_entity_id),
         \A m \in DOMAIN D : D[m].kind # "removed" /\ (m < i => D[m].kind # "slots"),
         DOMAIN slots' = DOMAIN slots,
         \A sq \in DOMAIN slots : slots'[sq] = slots[sq] \/ Reports(D, sq[1])
  PROVE  Told(D)
<1>1. /\ next_entity_id \notin named /\ next_entity_id \notin DOMAIN items
  BY MintIsNew
<1>2. /\ DOMAIN items' = DOMAIN items \cup {next_entity_id}
      /\ \A e \in DOMAIN items : items'[e] = items[e]
      /\ named \subseteq named'
  BY <1>1 DEF CreateStack
<1> QED BY <1>1, <1>2, EffectKinds DEF Told, Honest

LEMMA GiveTold ==
  ASSUME IInv, NEW sq, NEW name, NEW count, Give(sq, name, count)
  PROVE  Told(effects')
<1>1. /\ CreateStack(name, count) /\ slots' = [slots EXCEPT ![sq] = next_entity_id]
      /\ effects' = <<ItemCreated(next_entity_id), SlotsChanged(sq[1])>>
  BY DEF Give, Announcement
<1>2. /\ DOMAIN effects' = 1 .. 2
      /\ effects'[1] = ItemCreated(next_entity_id) /\ effects'[2] = SlotsChanged(sq[1])
  BY <1>1
<1>3. DOMAIN slots' = DOMAIN slots /\ \A q \in DOMAIN slots : slots'[q] = slots[q] \/ q = sq
  BY <1>1
<1>4. \A m \in DOMAIN effects' : /\ effects'[m].kind # "removed"
                                 /\ m < 1 => effects'[m].kind # "slots"
  BY <1>2, EffectKinds
<1>5. Reports(effects', sq[1]) /\ 1 \in DOMAIN effects'
  BY <1>2 DEF Reports
<1> QED BY <1>1, <1>2, <1>3, <1>4, <1>5, MintedTold

LEMMA CreateLooseTold ==
  ASSUME IInv, NEW name, NEW count, CreateLoose(name, count)
  PROVE  Told(effects')
<1>1. /\ CreateStack(name, count) /\ slots' = slots
      /\ effects' = <<ItemCreated(next_entity_id)>>
  BY DEF CreateLoose
<1>2. DOMAIN effects' = {1} /\ effects'[1] = ItemCreated(next_entity_id)
  BY <1>1
<1> QED BY <1>1, <1>2, MintedTold, EffectKinds

LEMMA CreateLooseWithIdTold ==
  ASSUME IInv, NEW e, NEW name, NEW count, CreateLooseWithId(e, name, count),
         e \notin named \/ Loose(e)
  PROVE  Told(effects')
<1>1. CASE e \in DOMAIN items
  <2>1. effects' = <<>> /\ UNCHANGED <<slots, items, named>>
    BY <1>1 DEF CreateLooseWithId
  <2> QED BY <2>1 DEF Told, Honest
<1>2. CASE e \notin DOMAIN items
  <2>1. /\ items' = [x \in DOMAIN items \cup {e} |->
                       IF x = e THEN [name |-> name, count |-> count] ELSE items[x]]
        /\ named' = named \cup {e} /\ effects' = <<ItemCreated(e)>> /\ slots' = slots
    BY <1>2 DEF CreateLooseWithId
  <2>2. e \notin named
    BY <1>2 DEF Loose
  <2>3. /\ DOMAIN items' = DOMAIN items \cup {e}
        /\ \A x \in DOMAIN items : items'[x] = items[x]
    BY <1>2, <2>1
  <2>4. DOMAIN effects' = {1} /\ effects'[1] = ItemCreated(e)
    BY <2>1
  <2> QED BY <2>1, <2>2, <2>3, <2>4, EffectKinds DEF Told, Honest
<1> QED BY <1>1, <1>2

LEMMA DetachTold ==
  ASSUME IInv, NEW sq, Detach(sq)
  PROVE  Told(effects')
<1>1. /\ slots' = [slots EXCEPT ![sq] = 0] /\ effects' = <<SlotsChanged(sq[1])>>
      /\ UNCHANGED <<items, named>>
  BY DEF Detach
<1>2. DOMAIN slots' = DOMAIN slots /\ \A q \in DOMAIN slots : slots'[q] = slots[q] \/ q = sq
  BY <1>1
<1>3. Reports(effects', sq[1]) /\ \A i \in DOMAIN effects' : effects'[i].kind = "slots"
  BY <1>1, EffectKinds DEF Reports
<1> QED BY <1>1, <1>2, <1>3, SquaresTold

LEMMA ClearRucksackTold ==
  ASSUME IInv, NEW o \in Owners, ClearRucksack(o)
  PROVE  Told(effects')
<1> DEFINE held == {sq \in SquaresOf(o) : sq[2] >= FirstRucksackSlot /\ slots[sq] # 0}
<1>1. /\ slots' = [sq \in DOMAIN slots |-> IF sq \in held THEN 0 ELSE slots[sq]]
      /\ effects' = [i \in 1 .. Cardinality(held) + 1 |-> SlotsChanged(o)]
      /\ UNCHANGED <<items, named>>
  BY DEF ClearRucksack
<1>2. Cardinality(held) \in Nat
  <2>1. IsFiniteSet(held)
    BY FS_Subset DEF IInv, TypeOK, SquaresOf
  <2> QED BY <2>1, FS_CardinalityType
<1>3. DOMAIN slots' = DOMAIN slots /\ \A q \in DOMAIN slots : slots'[q] = slots[q] \/ q[1] = o
  BY <1>1 DEF SquaresOf
<1> HIDE DEF held
<1>4. 1 \in 1 .. Cardinality(held) + 1
  BY <1>2
<1>5. Reports(effects', o) /\ \A i \in DOMAIN effects' : effects'[i].kind = "slots"
  BY <1>1, <1>4, EffectKinds DEF Reports
<1> QED BY <1>1, <1>3, <1>5, SquaresTold

(* Operations that change what there is of one stack.                      *)
LEMMA ConsumeTold ==
  ASSUME IInv, NEW e, NEW count, Loose(e), ConsumeLoose(e, count)
  PROVE  Told(effects')
<1>1. slots' = slots /\ named' = named /\ e \in DOMAIN items /\ \A sq \in DOMAIN slots : slots[sq] # e
  BY DEF ConsumeLoose, Loose
<1>2. CASE items' = Without(e) /\ effects' = <<ItemRemoved(e)>>
  <2>1. DOMAIN items' = DOMAIN items \ {e} /\ \A x \in DOMAIN items' : items'[x] = items[x]
    BY <1>2 DEF Without
  <2>2. DOMAIN effects' = {1} /\ effects'[1] = ItemRemoved(e)
    BY <1>2
  <2> QED BY <1>1, <2>1, <2>2, EffectKinds DEF Told, Honest
<1>3. CASE items' = [items EXCEPT ![e].count = @ - count] /\ effects' = <<ItemChanged(e)>>
  <2>1. DOMAIN items' = DOMAIN items /\ \A x \in DOMAIN items : items'[x] = items[x] \/ x = e
    BY <1>3
  <2>2. DOMAIN effects' = {1} /\ effects'[1] = ItemChanged(e)
    BY <1>3
  <2> QED BY <1>1, <2>1, <2>2, EffectKinds DEF Told, Honest
<1> QED BY <1>2, <1>3 DEF ConsumeLoose

LEMMA DestroyTold ==
  ASSUME IInv, NEW sq, NEW count, Destroy(sq, count)
  PROVE  Told(effects')
<1> DEFINE e == slots[sq]
<1>1. /\ named' = named /\ sq \in DOMAIN slots /\ e # 0 /\ e \in DOMAIN items /\ sq[1] \in Owners
      /\ \A q \in DOMAIN slots : slots[q] = e => q = sq
  BY DEF Destroy, Occupied, IInv, NoDanglingSlot, NoSharedStack, TypeOK, Square
<1> HIDE DEF e
<1>2. CASE items' = Without(e) /\ effects' = <<SlotsChanged(sq[1]), ItemRemoved(e)>>
           /\ slots' = [slots EXCEPT ![sq] = 0]
  <2>1. /\ DOMAIN items' = DOMAIN items \ {e} /\ \A x \in DOMAIN items' : items'[x] = items[x]
        /\ DOMAIN slots' = DOMAIN slots /\ \A q \in DOMAIN slots : slots'[q] = slots[q] \/ q = sq
    BY <1>2 DEF Without
  <2>2. /\ DOMAIN effects' = 1 .. 2
        /\ effects'[1] = SlotsChanged(sq[1]) /\ effects'[2] = ItemRemoved(e)
    BY <1>2
  <2>3. Reports(effects', sq[1]) /\ sq[1] \in ReportedBefore(effects', 2)
    BY <1>1, <2>2 DEF Reports, ReportedBefore
  <2> QED BY <1>1, <2>1, <2>2, <2>3, EffectKinds DEF Told, Honest
<1>3. CASE items' = [items EXCEPT ![e].count = @ - count] /\ effects' = <<ItemChanged(e)>>
           /\ slots' = slots
  <2>1. DOMAIN items' = DOMAIN items /\ \A x \in DOMAIN items : items'[x] = items[x] \/ x = e
    BY <1>3
  <2>2. DOMAIN effects' = {1} /\ effects'[1] = ItemChanged(e)
    BY <1>3
  <2> QED BY <1>1, <1>3, <2>1, <2>2, EffectKinds DEF Told, Honest
<1> QED BY <1>2, <1>3 DEF Destroy, e

(* The primitives of a move, after whatever was reported before.           *)
Adds(done) ==
  \E D \in Seq(Effect) : /\ effects' = done \o D /\ Told(D)
                         /\ DOMAIN items' \subseteq DOMAIN items
                         /\ \A i \in DOMAIN D : D[i].kind # "created"

LEMMA EffectsAre ==
  /\ \A e \in Nat : ItemCreated(e) \in Effect /\ ItemChanged(e) \in Effect /\ ItemRemoved(e) \in Effect
  /\ \A o \in Owners : SlotsChanged(o) \in Effect
BY DEF Effect, ItemCreated, ItemChanged, ItemRemoved, SlotsChanged

LEMMA ExchangeAdds ==
  ASSUME IInv, NEW s \in DOMAIN slots, NEW t \in DOMAIN slots, NEW done, Exchange(s, t, done)
  PROVE  Adds(done)
<1> DEFINE D == IF s[1] = t[1] THEN <<SlotsChanged(s[1])>>
                ELSE <<SlotsChanged(s[1]), SlotsChanged(t[1])>>
<1>1. /\ slots' = [slots EXCEPT ![s] = slots[t], ![t] = slots[s]]
      /\ effects' = done \o D /\ UNCHANGED <<items, named>>
  BY DEF Exchange
<1>2. s[1] \in Owners /\ t[1] \in Owners
  BY DEF IInv, TypeOK, Square
<1>3. /\ D \in Seq(Effect) /\ Reports(D, s[1]) /\ Reports(D, t[1])
      /\ \A i \in DOMAIN D : D[i].kind = "slots"
  <2>1. CASE s[1] = t[1]
    <3>1. D = <<SlotsChanged(s[1])>>
      BY <2>1
    <3> HIDE DEF D
    <3> QED BY <1>2, <2>1, <3>1, EffectsAre, EffectKinds DEF Reports
  <2>2. CASE s[1] # t[1]
    <3>1. D = <<SlotsChanged(s[1]), SlotsChanged(t[1])>>
      BY <2>2
    <3> HIDE DEF D
    <3>2. D[1] = SlotsChanged(s[1]) /\ D[2] = SlotsChanged(t[1]) /\ DOMAIN D = 1 .. 2
      BY <3>1
    <3>3. D \in Seq(Effect)
      BY <1>2, <3>1, EffectsAre
    <3> QED BY <3>2, <3>3, EffectKinds DEF Reports
  <2> QED BY <2>1, <2>2
<1> HIDE DEF D
<1>4. /\ DOMAIN slots' = DOMAIN slots
      /\ \A q \in DOMAIN slots : slots'[q] = slots[q] \/ q = s \/ q = t
  BY <1>1
<1>5. Told(D)
  BY <1>1, <1>3, <1>4, SquaresTold
<1> QED BY <1>1, <1>3, <1>5 DEF Adds

LEMMA TryMergeAdds ==
  ASSUME IInv, NEW s \in DOMAIN slots, NEW t \in DOMAIN slots, NEW count \in Nat, NEW done,
         CanMerge(s, t, count), TryMerge(s, t, count, done)
  PROVE  Adds(done)
<1> DEFINE from == slots[s]
           into == slots[t]
           moved == Moved(s, t, count)
           left == items[from].count - moved
           grown == [items EXCEPT ![into].count = @ + moved]
<1>1. /\ from # 0 /\ from \in DOMAIN items /\ into \in DOMAIN items
      /\ from \in Nat /\ into \in Nat /\ s[1] \in Owners
      /\ from # into /\ named' = named
      /\ \A q \in DOMAIN slots : slots[q] = from => q = s
  BY DEF CanMerge, Occupied, IInv, TypeOK, Square, NoDanglingSlot, NoSharedStack, TryMerge
<1>2. \/ /\ items' = [grown EXCEPT ![from].count = left]
         /\ effects' = done \o <<ItemChanged(into), ItemChanged(from)>>
         /\ slots' = slots
      \/ /\ items' = [x \in DOMAIN items \ {from} |-> grown[x]]
         /\ slots' = [slots EXCEPT ![s] = 0]
         /\ effects' = done \o <<ItemChanged(into), SlotsChanged(s[1]), ItemRemoved(from)>>
  BY DEF TryMerge
<1>3. /\ DOMAIN grown = DOMAIN items
      /\ \A x \in DOMAIN items : grown[x] = items[x] \/ x = into
  OBVIOUS
<1> HIDE DEF from, into, grown, left, moved
<1>4. CASE /\ items' = [grown EXCEPT ![from].count = left]
           /\ effects' = done \o <<ItemChanged(into), ItemChanged(from)>>
           /\ slots' = slots
  <2> DEFINE D == <<ItemChanged(into), ItemChanged(from)>>
  <2>1. D \in Seq(Effect)
    BY <1>1, EffectsAre
  <2>2. DOMAIN D = 1 .. 2 /\ D[1] = ItemChanged(into) /\ D[2] = ItemChanged(from)
    OBVIOUS
  <2>3. effects' = done \o D
    BY <1>4
  <2> HIDE DEF D
  <2>4. /\ DOMAIN items' = DOMAIN items
        /\ \A x \in DOMAIN items : items'[x] = items[x] \/ x = into \/ x = from
    BY <1>3, <1>4
  <2>5. Told(D)
    BY <1>1, <1>4, <2>2, <2>4, EffectKinds DEF Told, Honest
  <2>6. \A i \in DOMAIN D : D[i].kind # "created"
    BY <2>2, EffectKinds
  <2> QED BY <2>1, <2>3, <2>4, <2>5, <2>6 DEF Adds
<1>5. CASE /\ items' = [x \in DOMAIN items \ {from} |-> grown[x]]
           /\ slots' = [slots EXCEPT ![s] = 0]
           /\ effects' = done \o <<ItemChanged(into), SlotsChanged(s[1]), ItemRemoved(from)>>
  <2> DEFINE D == <<ItemChanged(into), SlotsChanged(s[1]), ItemRemoved(from)>>
  <2>1. D \in Seq(Effect)
    BY <1>1, EffectsAre
  <2>2. /\ DOMAIN D = 1 .. 3 /\ D[1] = ItemChanged(into) /\ D[2] = SlotsChanged(s[1])
        /\ D[3] = ItemRemoved(from)
    OBVIOUS
  <2>3. effects' = done \o D
    BY <1>5
  <2> HIDE DEF D
  <2>4. /\ DOMAIN items' = DOMAIN items \ {from}
        /\ \A x \in DOMAIN items' : items'[x] = items[x] \/ x = into
    BY <1>3, <1>5
  <2>5. DOMAIN slots' = DOMAIN slots /\ \A q \in DOMAIN slots : slots'[q] = slots[q] \/ q = s
    BY <1>5
  <2>6. Reports(D, s[1]) /\ s[1] \in ReportedBefore(D, 3)
    BY <1>1, <2>2 DEF Reports, ReportedBefore
  <2>7. Told(D)
    <3>1. \A i \in DOMAIN D : D[i].kind = "removed" => i = 3
      BY <2>2, EffectKinds
    <3>2. D[3].entity = from
      BY <2>2, EffectKinds
    <3>3. \A e \in DOMAIN items \cap DOMAIN items' :
            items'[e] # items[e] => \E i \in DOMAIN D : D[i] = ItemChanged(e)
      BY <2>2, <2>4
    <3> QED BY <1>1, <2>4, <2>5, <2>6, <3>1, <3>2, <3>3 DEF Told, Honest
  <2>8. \A i \in DOMAIN D : D[i].kind # "created"
    BY <2>2, EffectKinds
  <2> QED BY <2>1, <2>3, <2>4, <2>7, <2>8 DEF Adds
<1> QED BY <1>2, <1>4, <1>5

LEMMA AddsToNothing ==
  ASSUME Adds(<<>>)
  PROVE  Told(effects')
<1>1. PICK D \in Seq(Effect) : effects' = <<>> \o D /\ Told(D)
  BY DEF Adds
<1>2. <<>> \o D = D
  BY ConcatEmptySeq
<1> QED BY <1>1, <1>2

LEMMA TrySplitTold ==
  ASSUME IInv, NEW s \in DOMAIN slots, NEW t \in DOMAIN slots, NEW count,
         slots[s] # 0, TrySplit(s, t, count)
  PROVE  Told(effects')
<1> DEFINE from == slots[s]
           e == next_entity_id
           rest == [items EXCEPT ![from].count = @ - count]
<1>1. /\ from \in DOMAIN items /\ e \notin named /\ e \notin DOMAIN items
  BY MintIsNew DEF IInv, NoDanglingSlot
<1>2. /\ items' = [x \in DOMAIN items \cup {e} |->
                     IF x = e THEN [name |-> items[from].name, count |-> count] ELSE rest[x]]
      /\ named' = named \cup {e}
      /\ slots' = [slots EXCEPT ![t] = e]
      /\ effects' = <<ItemChanged(from), ItemCreated(e), SlotsChanged(t[1])>>
  BY DEF TrySplit
<1>3. \A x \in DOMAIN items : rest[x] = items[x] \/ x = from
  OBVIOUS
<1> HIDE DEF from, rest, e
<1>4. /\ DOMAIN items' = DOMAIN items \cup {e}
      /\ \A x \in DOMAIN items : items'[x] = items[x] \/ x = from
  BY <1>1, <1>2, <1>3
<1>5. DOMAIN slots' = DOMAIN slots /\ \A q \in DOMAIN slots : slots'[q] = slots[q] \/ q = t
  BY <1>2
<1>6. /\ DOMAIN effects' = 1 .. 3 /\ effects'[1] = ItemChanged(from)
      /\ effects'[2] = ItemCreated(e) /\ effects'[3] = SlotsChanged(t[1])
  BY <1>2
<1>7. /\ Reports(effects', t[1]) /\ \A i \in DOMAIN effects' : effects'[i].kind # "removed"
      /\ \A m \in DOMAIN effects' : m < 2 => effects'[m].kind # "slots"
  BY <1>6, EffectKinds DEF Reports
<1>8. \A x \in DOMAIN items \cap DOMAIN items' :
        items'[x] # items[x] => \E i \in DOMAIN effects' : effects'[i] = ItemChanged(x)
  BY <1>4, <1>6
<1>9. \E i \in DOMAIN effects' :
        /\ effects'[i] = ItemCreated(e)
        /\ \A sq \in DOMAIN slots', m \in DOMAIN effects' :
             slots'[sq] = e /\ m < i => effects'[m] # SlotsChanged(sq[1])
  BY <1>6, <1>7, EffectKinds
<1>10. \A x \in DOMAIN items' \ DOMAIN items : x = e
  BY <1>4
<1>11. named \subseteq named'
  BY <1>2
<1> QED BY <1>1, <1>5, <1>7, <1>8, <1>9, <1>10, <1>11 DEF Told, Honest

LEMMA CollectTold ==
  ASSUME IInv, NEW o \in Owners, NEW e, Loose(e), Collect(o, e)
  PROVE  Told(effects')
<1>1. named' = named /\ e \in DOMAIN items /\ \A sq \in DOMAIN slots : slots[sq] # e
  BY DEF Collect, Loose
<1>2. CASE CollectMerging(o, e)
  <2> DEFINE into == slots[First(Mergeable(o, e))]
             moved == MinOf(items[e].count, Room(into))
             grown == [items EXCEPT ![into].count = @ + moved]
             leftover == items[e].count - moved
  <2>1. /\ slots' = slots
        /\ \/ /\ items' = [x \in DOMAIN items \ {e} |-> grown[x]]
              /\ effects' = <<ItemChanged(into), ItemRemoved(e)>>
           \/ /\ items' = [grown EXCEPT ![e].count = leftover]
              /\ effects' = <<ItemChanged(into), ItemChanged(e)>>
    BY <1>2 DEF CollectMerging
  <2>2. \A x \in DOMAIN items : grown[x] = items[x] \/ x = into
    OBVIOUS
  <2>3. DOMAIN grown = DOMAIN items
    OBVIOUS
  <2> HIDE DEF into, grown, leftover, moved
  <2>4. CASE /\ items' = [x \in DOMAIN items \ {e} |-> grown[x]]
             /\ effects' = <<ItemChanged(into), ItemRemoved(e)>>
    <3>1. /\ DOMAIN items' = DOMAIN items \ {e}
          /\ \A x \in DOMAIN items' : items'[x] = items[x] \/ x = into
      BY <2>2, <2>4
    <3>2. /\ DOMAIN effects' = 1 .. 2 /\ effects'[1] = ItemChanged(into)
          /\ effects'[2] = ItemRemoved(e)
      BY <2>4
    <3>3. \A i \in DOMAIN effects' : effects'[i].kind = "removed" => effects'[i].entity = e
      BY <3>2, EffectKinds
    <3> QED BY <1>1, <2>1, <3>1, <3>2, <3>3 DEF Told, Honest
  <2>5. CASE /\ items' = [grown EXCEPT ![e].count = leftover]
             /\ effects' = <<ItemChanged(into), ItemChanged(e)>>
    <3>1. /\ DOMAIN items' = DOMAIN items
          /\ \A x \in DOMAIN items' : items'[x] = items[x] \/ x = into \/ x = e
      BY <2>2, <2>3, <2>5
    <3>2. /\ DOMAIN effects' = 1 .. 2 /\ effects'[1] = ItemChanged(into)
          /\ effects'[2] = ItemChanged(e)
      BY <2>5
    <3>3. \A i \in DOMAIN effects' : effects'[i].kind # "removed"
      BY <3>2, EffectKinds
    <3> QED BY <1>1, <2>1, <3>1, <3>2, <3>3 DEF Told, Honest
  <2> QED BY <2>1, <2>4, <2>5
<1>3. CASE CollectIntoSquare(o, e)
  <2> DEFINE to == First(FreeRucksack(o))
  <2>1. to[1] = o
    BY <1>3, FreeIsFree DEF CollectIntoSquare, IInv
  <2>2. slots' = [slots EXCEPT ![to] = e] /\ effects' = <<SlotsChanged(o)>> /\ items' = items
    BY <1>3 DEF CollectIntoSquare
  <2> HIDE DEF to
  <2>3. DOMAIN slots' = DOMAIN slots /\ \A q \in DOMAIN slots : slots'[q] = slots[q] \/ q = to
    BY <2>2
  <2>4. Reports(effects', o) /\ \A i \in DOMAIN effects' : effects'[i].kind = "slots"
    BY <2>2, EffectKinds DEF Reports
  <2> QED BY <1>1, <2>1, <2>2, <2>3, <2>4, SquaresTold
<1> QED BY <1>2, <1>3 DEF Collect

LEMMA AddsToReported ==
  ASSUME effects \in Seq(Effect), Adds(effects), \A i \in DOMAIN effects : effects[i].kind # "created"
  PROVE  /\ Honest(effects, effects', items, items', slots, slots', named, named')
         /\ DOMAIN effects \subseteq DOMAIN effects' /\ \A i \in DOMAIN effects : effects'[i] = effects[i]
         /\ \A i \in DOMAIN effects' : effects'[i].kind # "created"
<1>1. PICK D \in Seq(Effect) : /\ effects' = effects \o D /\ Told(D)
                               /\ DOMAIN items' \subseteq DOMAIN items
                               /\ \A i \in DOMAIN D : D[i].kind # "created"
  BY DEF Adds
<1> QED BY <1>1, ToldAfter

(* Whatever happens to the inventories.                                    *)
LEMMA IdleTold ==
  ASSUME IInv, task = Idle, Next
  PROVE  Told(effects') /\ NothingNew'
<1>1. /\ <<>> \in Seq(Effect) /\ 0 \in Nat /\ \A c \in Counts : c \in Nat
  BY InventoriesAssumption
<1>2. ~TransferAllStep
  BY DEF TransferAllStep
<1>3. CASE OpenNew
  BY <1>3, OpenTold DEF OpenNew, Open, NothingNew
<1>4. CASE Seed
  <2>1. task' = Idle
    BY <1>4 DEF Seed, Give, CreateLoose, CreateLooseWithId
  <2> QED BY <1>4, <2>1, GiveTold, CreateLooseTold, CreateLooseWithIdTold DEF Seed, NothingNew
<1>5. CASE Spend
  <2>1. task' = Idle
    BY <1>5 DEF Spend, Destroy, ConsumeLoose, Close
  <2> QED BY <1>5, <2>1, DestroyTold, ConsumeTold, CloseTold DEF Spend, NothingNew
<1>6. CASE Administer
  <2>1. task' = Idle /\ effects' = <<>> /\ UNCHANGED <<slots, items, named>>
    BY <1>6 DEF Administer, ReserveIdsFrom, SetLimits
  <2> QED BY <2>1 DEF Told, Honest, NothingNew
<1>7. ASSUME NEW s \in DOMAIN slots, NEW t \in DOMAIN slots, NEW c \in Counts,
             TransferToSlot(s, t, c)
      PROVE  Told(effects') /\ task' = Idle
  <2>1. slots[s] # 0 /\ task' = Idle /\ c \in Nat
    BY <1>1, <1>7 DEF TransferToSlot
  <2>2. CASE TrySplit(s, t, c)
    BY <2>1, <2>2, TrySplitTold
  <2>3. CASE CanMerge(s, t, c) /\ TryMerge(s, t, c, <<>>)
    BY <2>1, <2>3, TryMergeAdds, AddsToNothing
  <2>4. CASE Exchange(s, t, <<>>)
    BY <2>1, <2>4, ExchangeAdds, AddsToNothing
  <2> QED BY <1>7, <2>2, <2>3, <2>4, <2>1 DEF TransferToSlot
<1>8. ASSUME NEW s \in DOMAIN slots, NEW t \in DOMAIN slots, Swap(s, t)
      PROVE  Told(effects') /\ task' = Idle
  <2>1. task' = Idle
    BY <1>8 DEF Swap
  <2>2. CASE CanMerge(s, t, 0) /\ TryMerge(s, t, 0, <<>>)
    BY <1>1, <2>1, <2>2, TryMergeAdds, AddsToNothing
  <2>3. CASE Exchange(s, t, <<>>)
    BY <2>1, <2>3, ExchangeAdds, AddsToNothing
  <2> QED BY <1>8, <2>2, <2>3 DEF Swap
<1>9. ASSUME NEW s \in DOMAIN slots, NEW t \in DOMAIN slots, s[1] = t[1],
             Equip(s[1], s[2], t[2])
      PROVE  Told(effects') /\ task' = Idle
  <2>1. s = <<s[1], s[2]>> /\ t = <<s[1], t[2]>>
    BY <1>9 DEF IInv, TypeOK, Square
  <2>2. Exchange(s, t, <<>>) /\ task' = Idle
    BY <1>9, <2>1 DEF Equip
  <2> QED BY <2>2, ExchangeAdds, AddsToNothing
<1>10. ASSUME NEW sq \in DOMAIN slots, Unequip(sq[1], sq[2])
       PROVE  Told(effects') /\ task' = Idle
  <2>1. sq = <<sq[1], sq[2]>>
    BY DEF IInv, TypeOK, Square
  <2>2. /\ Exchange(sq, First(FreeRucksack(sq[1])), <<>>)
        /\ FreeRucksack(sq[1]) # {} /\ task' = Idle
    BY <1>10, <2>1 DEF Unequip
  <2>3. First(FreeRucksack(sq[1])) \in DOMAIN slots
    BY <2>2, FreeIsFree DEF IInv
  <2> QED BY <2>2, <2>3, ExchangeAdds, AddsToNothing
<1>11. ASSUME NEW o \in Owners, NEW p \in Owners, TransferAll(o, p)
       PROVE  Told(effects') /\ NothingNew'
  <2>1. effects' = <<>> /\ UNCHANGED <<slots, items, named>>
    BY <1>11 DEF TransferAll
  <2> QED BY <2>1 DEF Told, Honest, NothingNew
<1>12. CASE Move
  <2>1. ASSUME NEW o \in Owners, NEW e \in DOMAIN items, Loose(e), Collect(o, e)
        PROVE  Told(effects') /\ task' = Idle
    BY <2>1, CollectTold DEF Collect
  <2>2. ASSUME NEW sq \in DOMAIN slots, Detach(sq)
        PROVE  Told(effects') /\ task' = Idle
    BY <2>2, DetachTold DEF Detach
  <2>3. ASSUME NEW o \in Owners, ClearRucksack(o)
        PROVE  Told(effects') /\ task' = Idle
    BY <2>3, ClearRucksackTold DEF ClearRucksack
  <2> QED BY <1>2, <1>7, <1>8, <1>9, <1>10, <1>11, <1>12, <2>1, <2>2, <2>3 DEF Move, NothingNew
<1> QED BY <1>3, <1>4, <1>5, <1>6, <1>12 DEF Next

LEMMA TaskTold ==
  ASSUME IInv, CursorOnSquare, NothingNew, task # Idle, Next
  PROVE  /\ Honest(effects, effects', items, items', slots, slots', named, named')
         /\ DOMAIN effects \subseteq DOMAIN effects' /\ \A i \in DOMAIN effects : effects'[i] = effects[i]
         /\ \A i \in DOMAIN effects' : effects'[i].kind # "created"
<1>1. TransferAllStep
  BY DEF Next, OpenNew, Seed, Move, Spend, Administer, Open, Close, Give, CreateLoose,
         CreateLooseWithId, Collect, Detach, ConsumeLoose, TransferToSlot, Swap, Destroy,
         Equip, Unequip, ClearRucksack, ReserveIdsFrom, SetLimits, TransferAll
<1>2. effects \in Seq(Effect) /\ \A i \in DOMAIN effects : effects[i].kind # "created"
  BY DEF IInv, TypeOK, NothingNew
<1>3. CASE UNCHANGED <<slots, items, effects, named>>
  BY <1>2, <1>3 DEF Honest
<1>4. CASE TransferAllMerge /\ MergeTargets # {}
  <2>1. Cursor \in DOMAIN slots /\ TryMerge(Cursor, First(MergeTargets), 0, effects)
    BY <1>4 DEF TransferAllMerge, Occupied
  <2>2. \A t \in MergeTargets : t[2] \in Nat
    BY DEF MergeTargets, SquaresOf, IInv, TypeOK, Square
  <2>3. First(MergeTargets) \in MergeTargets
    BY <1>4, <2>2, FirstIsMember
  <2>4. First(MergeTargets) \in DOMAIN slots /\ CanMerge(Cursor, First(MergeTargets), 0)
    BY <2>3 DEF MergeTargets, SquaresOf
  <2>5. Adds(effects)
    BY <2>1, <2>4, TryMergeAdds
  <2> QED BY <1>2, <2>5, AddsToReported
<1>5. CASE TransferAllPlace
  <2>1. /\ FreeRucksack(task.target) # {}
        /\ Exchange(Cursor, First(FreeRucksack(task.target)), effects)
    BY <1>5 DEF TransferAllPlace
  <2>2. First(FreeRucksack(task.target)) \in DOMAIN slots
    BY <2>1, FreeIsFree DEF IInv
  <2>3. Cursor \in DOMAIN slots
    BY <1>5 DEF TransferAllPlace, CursorOnSquare
  <2>4. Adds(effects)
    BY <2>1, <2>2, <2>3, ExchangeAdds
  <2> QED BY <1>2, <2>4, AddsToReported
<1> QED BY <1>1, <1>3, <1>4, <1>5
        DEF TransferAllStep, TransferAllSkip, TransferAllMerge, TransferAllEnd

-----------------------------------------------------------------------------
(* The steps of the session and its client.                                *)

LEMMA PacketsSay ==
  ASSUME TypeOK', NEW i \in DOMAIN effects'
  PROVE  i \in DOMAIN Packets' /\ Says(Packets'[i], effects'[i], items', slots')
<1> DEFINE p == Packets'[i]
           effect == effects'[i]
           e == effect.entity
           o == effect.owner
           there == {sq[2] : sq \in {q \in DOMAIN slots' : q[1] = o}}
<1>1. effects' \in Seq(Effect) /\ effect \in Effect
  BY DEF TypeOK
<1>2. DOMAIN effects' = 1 .. Len(effects')
  BY <1>1
<1>3. Packets' = [j \in 1 .. Len(effects') |-> PacketFor(effects[j])']
  BY DEF Packets
<1>4. i \in DOMAIN Packets' /\ p = PacketFor(effects[i])'
  BY <1>2, <1>3
<1>5. /\ effect.kind = "created" =>
           p = IF e \in DOMAIN items' THEN [kind |-> "add", entity |-> e, stack |-> items'[e]]
               ELSE NoPacket
      /\ effect.kind = "changed" =>
           p = IF e \in DOMAIN items' THEN [kind |-> "sync", entity |-> e, stack |-> items'[e]]
               ELSE NoPacket
      /\ effect.kind = "removed" => p = [kind |-> "remove", entity |-> e]
      /\ effect.kind = "slots" =>
           p = [kind |-> "list", owner |-> o, list |-> [x \in there |-> slots'[<<o, x>>]]]
  BY <1>4 DEF PacketFor, EntityAdd, EntitySync, EntityRemoved, SlotListSync, SquaresOf
<1>6. /\ items' \in [DOMAIN items' -> Stack] /\ DOMAIN items' \subseteq Nat
      /\ DOMAIN slots' \subseteq Square /\ slots' \in [DOMAIN slots' -> Nat]
  BY DEF TypeOK
<1> SUFFICES Says(p, effect, items', slots')
  BY <1>4
<1> HIDE DEF p, effect
<1>7. \/ effect.kind = "created" /\ e \in Nat /\ effect = ItemCreated(e)
      \/ effect.kind = "changed" /\ e \in Nat /\ effect = ItemChanged(e)
      \/ effect.kind = "removed" /\ e \in Nat /\ effect = ItemRemoved(e)
      \/ effect.kind = "slots" /\ o \in Owners /\ effect = SlotsChanged(o)
  BY <1>1 DEF Effect, ItemCreated, ItemChanged, ItemRemoved, SlotsChanged
<1> HIDE DEF e, o
<1>8. CASE effect.kind \in {"created", "changed"}
  <2>1. /\ e \in Nat /\ effect \in {ItemCreated(e), ItemChanged(e)}
        /\ \A x : effect \in {ItemCreated(x), ItemChanged(x)} => x = e
        /\ \A x : effect # ItemRemoved(x) /\ effect # SlotsChanged(x)
    BY <1>7, <1>8, EffectKinds
  <2>2. CASE e \in DOMAIN items'
    <3>1. p.kind \in {"add", "sync"} /\ p.entity = e /\ p.stack = items'[e] /\ p \in Packet
      BY <1>5, <1>6, <1>8, <2>2 DEF Packet
    <3>2. \A x : Tells(p, x) <=> x = e
      BY <3>1 DEF Tells
    <3>3. \A x : ~Drops(p, x) /\ ~Lists(p, x)
      BY <3>1 DEF Drops, Lists
    <3>4. \A x : Tells(p, x) => p.stack = items'[x]
      BY <3>1, <3>2
    <3>5. \A x : Tells(p, x) <=> effect \in {ItemCreated(x), ItemChanged(x)} /\ x \in DOMAIN items'
      BY <2>1, <2>2, <3>2
    <3> QED BY <2>1, <3>1, <3>3, <3>4, <3>5 DEF Says
  <2>3. CASE e \notin DOMAIN items'
    <3>1. p = NoPacket /\ p \in Packet
      BY <1>5, <1>8, <2>3 DEF Packet
    <3>2. p.kind = "nothing"
      BY <3>1 DEF NoPacket
    <3>3. \A x : ~Tells(p, x) /\ ~Drops(p, x) /\ ~Lists(p, x)
      BY <3>2 DEF Tells, Drops, Lists
    <3>4. \A x : ~(effect \in {ItemCreated(x), ItemChanged(x)} /\ x \in DOMAIN items')
      BY <2>1, <2>3
    <3> QED BY <2>1, <3>1, <3>3, <3>4 DEF Says
  <2> QED BY <2>2, <2>3
<1>9. CASE effect.kind = "removed"
  <2>1. p.kind = "remove" /\ p.entity = e /\ p \in Packet
    BY <1>5, <1>7, <1>9, EffectKinds DEF Packet
  <2>2. /\ \A x : effect = ItemRemoved(x) <=> x = e
        /\ \A x : effect \notin {ItemCreated(x), ItemChanged(x)} /\ effect # SlotsChanged(x)
    BY <1>7, <1>9, EffectKinds
  <2>3. \A x : Drops(p, x) <=> x = e
    BY <2>1 DEF Drops
  <2>4. \A x : ~Tells(p, x) /\ ~Lists(p, x)
    BY <2>1 DEF Tells, Lists
  <2> QED BY <2>1, <2>2, <2>3, <2>4 DEF Says
<1>10. CASE effect.kind = "slots"
  <2>1. /\ p.kind = "list" /\ p.owner = o /\ DOMAIN p.list = there
        /\ \A x \in there : p.list[x] = slots'[<<o, x>>]
        /\ p = [kind |-> "list", owner |-> o, list |-> [x \in there |-> slots'[<<o, x>>]]]
    BY <1>5, <1>10
  <2>2. \A sq \in DOMAIN slots' : sq[1] = o => sq = <<o, sq[2]>> /\ sq[2] \in Nat
    BY <1>6 DEF Square
  <2>3. \A x \in there : <<o, x>> \in DOMAIN slots' /\ x \in Nat
    BY <2>2
  <2>4. \A sq \in DOMAIN slots' : sq[1] = o => sq[2] \in there
    OBVIOUS
  <2> HIDE DEF there
  <2>5. there \in SUBSET Nat /\ [x \in there |-> slots'[<<o, x>>]] \in [there -> Nat]
    BY <1>6, <2>3
  <2>6. p \in Packet
    <3>1. o \in Owners
      BY <1>7, <1>10, EffectKinds
    <3>2. [x \in there |-> slots'[<<o, x>>]] \in UNION {[I -> Nat] : I \in SUBSET Nat}
      BY <2>5
    <3> QED BY <2>1, <3>1, <3>2 DEF Packet
  <2>7. \A sq \in DOMAIN slots' : sq[1] = o => Shows(p, sq, slots'[sq])
    BY <2>1, <2>2, <2>4 DEF Shows, Lists
  <2>8. \A x \in DOMAIN p.list : <<o, x>> \in DOMAIN slots' /\ p.list[x] = slots'[<<o, x>>]
    BY <2>1, <2>3
  <2>9. effect = SlotsChanged(o)
    BY <1>7, <1>10, EffectKinds
  <2>10. \A x : Lists(p, x) <=> effect = SlotsChanged(x)
    BY <2>1, <2>9, EffectKinds DEF Lists
  <2>11. \A x : Lists(p, x) => x = o
    BY <2>1 DEF Lists
  <2>12. \A x : /\ ~Tells(p, x) /\ ~Drops(p, x)
                /\ effect \notin {ItemCreated(x), ItemChanged(x)} /\ effect # ItemRemoved(x)
    BY <1>10, <2>1, EffectKinds DEF Tells, Drops
  <2> QED BY <2>6, <2>7, <2>8, <2>10, <2>11, <2>12 DEF Says
<1> QED BY <1>7, <1>8, <1>9, <1>10

(* Nothing of it is about the client but what it knows and shows.          *)
LEMMA ScreenStays ==
  ASSUME NEW q, NEW E, NEW it, NEW sl, NEW nm, Owed(q, E, it, sl, nm), UNCHANGED <<known, view>>
  PROVE  Owed(q, E, it, sl, nm)'
<1>1. HeldIsTold(q, E, it, sl)' /\ HeldIsNotDropped(q, E, it)'
  BY DEF Owed, HeldIsTold, HeldIsNotDropped
<1>2. StacksSettle(q, E, it)'
  BY DEF Owed, StacksSettle
<1>3. SquaresSettle(q, E, sl)'
  BY DEF Owed, SquaresSettle
<1>4. SeenIsHeld(q, E, it, sl)'
  BY DEF Owed, SeenIsHeld
<1>5. GoneIsHidden(q, E, it, nm)'
  BY DEF Owed, GoneIsHidden, Hidden
<1>6. ShownIsKnown(q)' /\ ShownIsNamed(q, nm)'
  BY DEF Owed, ShownIsKnown, ShownIsNamed
<1> QED BY <1>1, <1>2, <1>3, <1>4, <1>5, <1>6 DEF Owed

LEMMA OperateKeepsInv ==
  ASSUME IInv, CursorOnSquare, SyncInv, Operate
  PROVE  SyncInv'
<1>1. Next /\ UNCHANGED <<known, view>> /\ outbox' = IF task' = Idle THEN outbox \o Packets' ELSE outbox
  BY DEF Operate
<1>2. IInv'
  BY <1>1, StepInvariant
<1>3. /\ outbox \in Seq(Packet) /\ DOMAIN view \subseteq Square
      /\ Owed(outbox, Pending, items, slots, named)
      /\ NothingNew /\ ClientNeverDangles
  BY DEF SyncInv, SyncTyped
<1>4. /\ effects \in Seq(Effect) /\ effects' \in Seq(Effect)
      /\ 0 \notin named' /\ DOMAIN items \subseteq named /\ DOMAIN items' \subseteq named'
      /\ DOMAIN slots \subseteq Square /\ DOMAIN slots' \subseteq Square
  BY <1>2 DEF IInv, TypeOK, AllocatorAhead
<1>5. /\ Pending \in Seq(Effect) /\ \A i \in DOMAIN Pending : Pending[i].kind # "created"
      /\ DOMAIN Pending \subseteq DOMAIN effects' /\ \A i \in DOMAIN Pending : effects'[i] = Pending[i]
      /\ Honest(Pending, effects', items, items', slots, slots', named, named')
      /\ NothingNew'
  <2>1. CASE task = Idle
    <3>1. Pending = <<>>
      BY <2>1 DEF Pending
    <3> QED BY <1>1, <2>1, <3>1, IdleTold DEF Told
  <2>2. CASE task # Idle
    <3>1. Pending = effects
      BY <2>2 DEF Pending
    <3> QED BY <1>1, <1>3, <1>4, <2>2, <3>1, TaskTold DEF NothingNew
  <2> QED BY <2>1, <2>2
<1>6. Owed(outbox, effects', items', slots', named')
  BY <1>3, <1>4, <1>5, HonestIsOwed
<1>7. ClientNeverDangles'
  BY <1>1, <1>3 DEF ClientNeverDangles
<1>8. CASE task' = Idle
  <2> DEFINE p == Packets'
  <2>1. \A i \in DOMAIN effects' : i \in DOMAIN p /\ Says(p[i], effects'[i], items', slots')
    BY <1>2, PacketsSay DEF IInv
  <2>2. p = [j \in 1 .. Len(effects') |-> p[j]] /\ DOMAIN effects' = 1 .. Len(effects')
    BY <1>4 DEF Packets
  <2> HIDE DEF p
  <2>3. p \in Seq(Packet) /\ Len(p) = Len(effects')
    <3>1. \A j \in 1 .. Len(effects') : p[j] \in Packet
      BY <2>1, <2>2 DEF Says
    <3>2. p \in [1 .. Len(effects') -> Packet] /\ Len(effects') \in Nat
      BY <1>4, <2>2, <3>1
    <3> QED BY <3>2
  <2>4. \A sq \in DOMAIN slots' : slots'[sq] \in DOMAIN items' \cup {0}
    BY <1>2 DEF IInv, NoDanglingSlot
  <2>5. Owed(outbox \o p, <<>>, items', slots', named')
    BY <1>3, <1>4, <1>6, <2>1, <2>3, <2>4, SendingSettles
  <2>6. outbox' = outbox \o p
    BY <1>1, <1>8 DEF p
  <2>7. Owed(outbox', <<>>, items', slots', named')
    BY <2>5, <2>6
  <2>8. Pending' = <<>>
    BY <1>8 DEF Pending
  <2>9. Owed(outbox, Pending, items, slots, named)'
    BY <1>1, <2>7, <2>8, ScreenStays
  <2>10. SyncTyped'
    BY <1>1, <1>3, <2>3, <2>6, ConcatProperties DEF SyncTyped
  <2> QED BY <1>5, <1>7, <2>9, <2>10 DEF SyncInv
<1>9. CASE task' # Idle
  <2>1. outbox' = outbox /\ Pending' = effects'
    BY <1>1, <1>9 DEF Pending
  <2>2. Owed(outbox, Pending, items, slots, named)'
    BY <1>1, <1>6, <2>1, ScreenStays
  <2> QED BY <1>1, <1>3, <1>5, <1>7, <2>1, <2>2 DEF SyncInv, SyncTyped
<1> QED BY <1>8, <1>9

LEMMA DeliverKeepsInv ==
  ASSUME IInv, SyncInv, Deliver
  PROVE  SyncInv'
<1>1. /\ outbox # <<>> /\ Receive(Head(outbox)) /\ outbox' = Tail(outbox)
      /\ UNCHANGED <<slots, items, effects, task, named>>
  BY DEF Deliver, vars
<1>2. /\ outbox \in Seq(Packet) /\ DOMAIN view \subseteq Square /\ DOMAIN slots \subseteq Square
      /\ Owed(outbox, Pending, items, slots, named) /\ ClientNeverDangles /\ NothingNew
  BY DEF SyncInv, SyncTyped, IInv, TypeOK
<1>3. Pending' = Pending /\ NothingNew'
  BY <1>1, <1>2 DEF Pending, NothingNew
<1>4. Owed(outbox, Pending, items, slots, named)' /\ ClientNeverDangles'
  BY <1>1, <1>2, <1>3, ReadingKeepsOwed
<1>5. Head(outbox) \in Packet /\ Tail(outbox) \in Seq(Packet)
  BY <1>1, <1>2, TailOfPackets
<1>6. SyncTyped'
  BY <1>1, <1>2, <1>5, ReadingSays DEF SyncTyped
<1> QED BY <1>3, <1>4, <1>6 DEF SyncInv

-----------------------------------------------------------------------------
(* The theorems.                                                           *)

ClientInv == IInv /\ CursorOnSquare /\ SyncInv

LEMMA ClientStep == ClientInv /\ [SyncNext]_syncVars => ClientInv'
<1> SUFFICES ASSUME ClientInv, [SyncNext]_syncVars
             PROVE  ClientInv'
  OBVIOUS
<1>1. IInv /\ CursorOnSquare /\ SyncInv
  BY DEF ClientInv
<1>2. CASE Operate
  <2>1. Next
    BY <1>2 DEF Operate
  <2> QED BY <1>1, <1>2, <2>1, StepInvariant, OperateKeepsInv DEF ClientInv
<1>3. CASE Deliver
  <2>1. UNCHANGED vars
    BY <1>3 DEF Deliver
  <2> QED BY <1>1, <1>3, <2>1, StepInvariant, DeliverKeepsInv DEF ClientInv
<1>4. CASE UNCHANGED syncVars
  <2>1. UNCHANGED vars /\ UNCHANGED <<outbox, known, view>>
    BY <1>4 DEF syncVars, vars
  <2>2. UNCHANGED <<slots, items, effects, task, named>>
    BY <2>1 DEF vars
  <2>3. Pending' = Pending /\ NothingNew' /\ SyncTyped' /\ ClientNeverDangles'
    BY <1>1, <2>1, <2>2 DEF Pending, NothingNew, SyncTyped, ClientNeverDangles, SyncInv
  <2>4. Owed(outbox, Pending, items, slots, named)
    BY <1>1 DEF SyncInv
  <2>5. Owed(outbox, Pending, items, slots, named)'
    BY <2>1, <2>2, <2>3, <2>4, ScreenStays
  <2> QED BY <1>1, <2>1, <2>3, <2>5, StepInvariant DEF ClientInv, SyncInv
<1> QED BY <1>2, <1>3, <1>4 DEF SyncNext

(* What the session and its client start from: nobody was told anything.   *)
LEMMA ClientInit == SyncInit => ClientInv
<1> SUFFICES ASSUME SyncInit
             PROVE  ClientInv
  OBVIOUS
<1>1. /\ Init /\ outbox = <<>> /\ DOMAIN view = {} /\ task = Idle
      /\ DOMAIN items = {} /\ DOMAIN slots = {}
  BY DEF SyncInit, Init
<1>2. IInv /\ CursorOnSquare /\ NothingNew
  BY <1>1, InitInvariant DEF CursorOnSquare, NothingNew
<1>3. Pending = <<>> /\ outbox \in Seq(Packet) /\ DOMAIN outbox = {}
  BY <1>1 DEF Pending
<1>4. SyncTyped /\ ClientNeverDangles
  BY <1>1, <1>3 DEF SyncTyped, ClientNeverDangles
<1>5. Owed(outbox, <<>>, items, slots, named)
  BY <1>1, <1>3 DEF Owed, HeldIsTold, HeldIsNotDropped, StacksSettle, SquaresSettle,
                    SeenIsHeld, GoneIsHidden, ShownIsKnown, ShownIsNamed
<1> QED BY <1>2, <1>3, <1>4, <1>5 DEF ClientInv, SyncInv

(* At every moment what is on its way settles every stack and square the   *)
(* session has changed, in an order that shows nothing the client was not  *)
(* told of (Session::apply and packet_for, over every operation of         *)
(* inventory.rs).                                                          *)
THEOREM PacketsSettle == SyncSpec => []ClientInv
BY ClientInit, ClientStep, PTL DEF SyncSpec

(* The client is never shown a square whose stack it does not know.        *)
THEOREM TheClientNeverDangles == SyncSpec => []ClientNeverDangles
<1>1. ClientInv => ClientNeverDangles
  BY DEF ClientInv, SyncInv
<1> QED BY <1>1, PacketsSettle, PTL

(* Once everything sent has arrived the client's picture is the model: no  *)
(* operation changes a stack or a square it does not report.               *)
THEOREM TheClientCatchesUp == SyncSpec => []ClientCatchesUp
<1>1. ASSUME ClientInv
      PROVE  ClientCatchesUp
  <2>1. SUFFICES ASSUME outbox = <<>>, task = Idle
                 PROVE  /\ \A sq \in DOMAIN slots : sq \in DOMAIN view /\ view[sq] = slots[sq]
                        /\ \A e \in DOMAIN items : e \in DOMAIN known /\ known[e] = items[e]
    BY DEF ClientCatchesUp
  <2>2. DOMAIN outbox = {} /\ Pending = <<>> /\ DOMAIN Pending = {}
    BY <2>1 DEF Pending
  <2>3. /\ StacksSettle(outbox, Pending, items) /\ SquaresSettle(outbox, Pending, slots)
        /\ HeldIsTold(outbox, Pending, items, slots)
    BY <1>1 DEF ClientInv, SyncInv, Owed
  <2>4. \A sq \in DOMAIN slots : sq \in DOMAIN view /\ view[sq] = slots[sq]
    BY <2>2, <2>3 DEF SquaresSettle, Reports
  <2>5. \A e \in DOMAIN items : e \in DOMAIN known /\ known[e] = items[e]
    BY <2>2, <2>3 DEF StacksSettle, HeldIsTold
  <2> QED BY <2>4, <2>5
<1> QED BY <1>1, PacketsSettle, PTL
=============================================================================
