--------------------------- MODULE RuntimeProofs ---------------------------
(***************************************************************************)
(* What is proved of what the server does by itself.                       *)
(*                                                                         *)
(* Persistence: its types; that documents settle when one thread writes    *)
(* them, however many HTTP handlers there are, and whatever writes fail    *)
(* and whenever the process starts again; and that every step is one       *)
(* WriteBehind allows when one thread makes all changes.                   *)
(*                                                                         *)
(* Chat: its types, and that everybody hears what is said in one order and *)
(* once; for any number of connections, channels and lines, whoever leaves *)
(* or hangs up in between.  The order of the lines is fixed when they are  *)
(* handed to the writers, so the argument is about what a client has been  *)
(* sent and will be sent together (Hearing).                               *)
(*                                                                         *)
(* Crafting: its types, and that the books balance, for any recipes,       *)
(* stations and rucksack.  A payment is a fold of folds: what one item     *)
(* taken does to the sum over the squares, then a quantity of one          *)
(* material, then the materials of a recipe, one after the other.          *)
(***************************************************************************)
EXTENDS Persistence, Chat, Workbench, Facts

-----------------------------------------------------------------------------
(* Types.                                                                  *)

Step == {Idle} \cup [step : {"creating"}, account : Accounts]
               \cup [step : {"recording"}, change : Change]

Typed ==
  /\ memory \in Store
  /\ db \in Store
  /\ at \in [Threads -> Step]
  /\ queue \in Seq(Change)

LEMMA AfterIsAStore ==
  ASSUME NEW store \in Store, NEW change \in Change
  PROVE  After(store, change) \in Store
<1>1. CASE change.kind = "account"
  BY <1>1 DEF After, Change, Store
<1>2. CASE change.kind = "document"
  <2>1. change.key \in Documents /\ change.value \in Values
    BY <1>2 DEF Change
  <2> QED BY <1>2, <2>1 DEF After, Store
<1>3. CASE change.kind \in {"character", "delete"}
  <2>1. change.key \in Accounts /\ change.value \in Characters \cup {None}
    BY <1>3 DEF Change
  <2> QED BY <1>3, <2>1 DEF After, Store
<1> QED BY <1>1, <1>2, <1>3 DEF Change

(* What a handler does under the lock keeps the types.                     *)
LEMMA ApplyIsTyped ==
  ASSUME Typed, NEW t \in Threads, NEW change \in Change, Apply(t, change)
  PROVE  Typed'
<1>1. memory' \in Store
  BY AfterIsAStore DEF Typed, Apply
<1>2. at' \in [Threads -> Step]
  BY DEF Typed, Apply, Step, Recording
<1> QED BY <1>1, <1>2 DEF Typed, Apply

LEMMA ChangesAreChanges ==
  /\ \A a \in Accounts : AccountChange(a) \in Change /\ DeleteChange(a) \in Change
  /\ \A a \in Accounts, c \in Characters : CharacterChange(a, c) \in Change
  /\ \A d \in Documents, v \in Values : DocumentChange(d, v) \in Change
BY DEF AccountChange, DeleteChange, CharacterChange, DocumentChange, Change

LEMMA RecordIsTyped ==
  ASSUME Typed, NEW t \in Threads, Record(t)
  PROVE  Typed'
<1>1. at[t].change \in Change
  BY DEF Typed, Record, Step, Idle
<1>2. queue' \in Seq(Change)
  BY <1>1 DEF Typed, Record
<1>3. at' \in [Threads -> Step]
  BY DEF Typed, Record, Step
<1> QED BY <1>2, <1>3 DEF Typed, Record

LEMMA WriteIsTyped ==
  ASSUME Typed, Write
  PROVE  Typed'
<1>1. queue # <<>> /\ queue \in Seq(Change)
  BY DEF Typed, Write
<1>2. Head(queue) \in Change /\ Tail(queue) \in Seq(Change)
  BY <1>1
<1>3. db' \in Store
  <2>1. CASE WriteSucceeds
    BY <2>1, <1>2, AfterIsAStore DEF Typed, WriteSucceeds
  <2>2. CASE WriteFails
    BY <2>2 DEF Typed, WriteFails
  <2> QED BY <2>1, <2>2 DEF Write
<1> QED BY <1>2, <1>3 DEF Typed, Write

(* What a step is, with the handlers that record a change taken together.  *)
LEMMA StepCases ==
  ASSUME Typed, [Next]_vars
  PROVE  \/ UNCHANGED vars
         \/ Write
         \/ Restart
         \/ \E t \in Threads : Record(t)
         \/ \E t \in Threads, a \in Accounts : EnsureCharacter(t, a)
         \/ \E t \in Threads, change \in Change :
              /\ change.kind # "document" /\ at[t].step # "recording"
              /\ Apply(t, change)
         \/ \E t \in WebThreads, d \in Photos, v \in Values :
              at[t] = Idle /\ Apply(t, DocumentChange(d, v))
         \/ \E t \in GameThreads, d \in Documents \ Photos, v \in Values :
              at[t] = Idle /\ Apply(t, DocumentChange(d, v))
<1>1. CASE \E t \in Threads : Handle(t)
  <2>1. PICK t \in Threads : Handle(t)
    BY <1>1
  <2>2. ASSUME NEW c \in Characters, CreateMissing(t, c)
        PROVE  \E change \in Change :
                 /\ change.kind # "document" /\ at[t].step # "recording"
                 /\ Apply(t, change)
    <3>1. at[t].account \in Accounts
      BY <2>2 DEF Typed, Step, Idle, CreateMissing
    <3>2. CharacterChange(at[t].account, c) \in Change
      BY <3>1, ChangesAreChanges
    <3>3. CharacterChange(at[t].account, c).kind # "document"
      BY DEF CharacterChange
    <3> QED BY <2>2, <3>2, <3>3 DEF CreateMissing
  <2> QED BY <2>1, <2>2 DEF Handle
<1>2. CASE \E t \in WebThreads : HandleWeb(t)
  <2>1. PICK t \in WebThreads : HandleWeb(t)
    BY <1>2
  <2>2. t \in Threads
    BY DEF Threads
  <2>3. ASSUME NEW a \in Accounts, Authenticate(t, a) \/ DeleteCharacter(t, a)
        PROVE  \E change \in Change :
                 /\ change.kind # "document" /\ at[t].step # "recording"
                 /\ Apply(t, change)
    <3>1. AccountChange(a).kind # "document" /\ DeleteChange(a).kind # "document"
      BY DEF AccountChange, DeleteChange
    <3> QED BY <2>3, <3>1, ChangesAreChanges DEF Authenticate, DeleteCharacter, Idle
  <2>4. ASSUME NEW a \in Accounts, NEW c \in Characters, CreateCharacter(t, a, c)
        PROVE  \E change \in Change :
                 /\ change.kind # "document" /\ at[t].step # "recording"
                 /\ Apply(t, change)
    <3>1. CharacterChange(a, c).kind # "document"
      BY DEF CharacterChange
    <3> QED BY <2>4, <3>1, ChangesAreChanges DEF CreateCharacter, Idle
  <2>5. ASSUME NEW d \in Photos, NEW v \in Values, SavePhoto(t, d, v)
        PROVE  at[t] = Idle /\ Apply(t, DocumentChange(d, v))
    BY <2>5 DEF SavePhoto
  <2> QED BY <2>1, <2>2, <2>3, <2>4, <2>5 DEF HandleWeb
<1>3. CASE \E t \in GameThreads : HandleGame(t)
  <2>1. PICK t \in GameThreads : HandleGame(t)
    BY <1>3
  <2>2. t \in Threads
    BY DEF Threads
  <2>3. ASSUME NEW a \in Accounts, NEW c \in Characters, UpdateCharacter(t, a, c)
        PROVE  \E change \in Change :
                 /\ change.kind # "document" /\ at[t].step # "recording"
                 /\ Apply(t, change)
    <3>1. CharacterChange(a, c).kind # "document"
      BY DEF CharacterChange
    <3> QED BY <2>3, <3>1, ChangesAreChanges DEF UpdateCharacter, Idle
  <2>4. ASSUME NEW d \in Documents \ Photos, NEW v \in Values, SetDocument(t, d, v)
        PROVE  at[t] = Idle /\ Apply(t, DocumentChange(d, v))
    BY <2>4 DEF SetDocument
  <2> QED BY <2>1, <2>2, <2>3, <2>4 DEF HandleGame
<1> QED BY <1>1, <1>2, <1>3 DEF Next

LEMMA StepIsTyped ==
  ASSUME Typed, [Next]_vars
  PROVE  Typed'
<1>1. CASE UNCHANGED vars
  BY <1>1 DEF vars, Typed
<1>2. CASE Write
  BY <1>2, WriteIsTyped
<1>3. CASE Restart
  <2>1. at' \in [Threads -> Step]
    BY <1>3 DEF Restart, Step
  <2> QED BY <1>3, <2>1 DEF Restart, Typed
<1>4. CASE \E t \in Threads : Record(t)
  BY <1>4, RecordIsTyped
<1>5. CASE \E t \in Threads, a \in Accounts : EnsureCharacter(t, a)
  BY <1>5 DEF EnsureCharacter, Typed, Step, Creating
<1>6. CASE \E t \in Threads, change \in Change : Apply(t, change)
  BY <1>6, ApplyIsTyped
<1>7. CASE \E t \in WebThreads, d \in Photos, v \in Values :
             at[t] = Idle /\ Apply(t, DocumentChange(d, v))
  BY <1>7, <1>6, ChangesAreChanges, PersistenceAssumption DEF Threads
<1>8. CASE \E t \in GameThreads, d \in Documents \ Photos, v \in Values :
             at[t] = Idle /\ Apply(t, DocumentChange(d, v))
  BY <1>8, <1>6, ChangesAreChanges DEF Threads
<1> QED BY StepCases, <1>1, <1>2, <1>3, <1>4, <1>5, <1>6, <1>7, <1>8

LEMMA InitIsTyped == Init => Typed
<1> SUFFICES ASSUME Init PROVE Typed
  OBVIOUS
<1>1. Empty \in Store
  BY DEF Empty, Store
<1> QED BY <1>1 DEF Init, Typed, Step
-----------------------------------------------------------------------------
(* Documents settle.  The last change of a document is with the thread     *)
(* that made it, or in the channel, or has been written or refused; and    *)
(* the last change says what memory says.                                  *)

Says(change, d) == change.kind = "document" /\ change.key = d

InHand(t, d) == at[t].step = "recording" /\ Says(at[t].change, d)

IsLast(i, d) ==
  /\ Says(queue[i], d)
  /\ \A j \in DOMAIN queue : j > i => ~Says(queue[j], d)

Underway(d) ==
  \/ \E t \in Threads : InHand(t, d)
  \/ \E i \in DOMAIN queue : Says(queue[i], d)

InHandIsLatest(d) ==
  \A t \in Threads : InHand(t, d) =>
    t \in GameThreads /\ at[t].change.value = memory.held[d]

QueuedIsLatest(d) ==
  (\A t \in Threads : ~InHand(t, d)) =>
    \A i \in DOMAIN queue : IsLast(i, d) => queue[i].value = memory.held[d]

WrittenIsLatest(d) ==
  ~Underway(d) => <<"document", d>> \in lost \/ db.held[d] = memory.held[d]

Settling ==
  \A d \in Documents \ Photos :
    InHandIsLatest(d) /\ QueuedIsLatest(d) /\ WrittenIsLatest(d)

(* A change of anything else leaves a document as it is.                   *)
LEMMA OthersAreLeft ==
  ASSUME NEW store \in Store, NEW change \in Change, NEW d \in Documents, ~Says(change, d)
  PROVE  After(store, change).held[d] = store.held[d]
<1>1. CASE change.kind = "account"
  BY <1>1 DEF After, Store
<1>2. CASE change.kind = "document"
  <2>1. change.key # d /\ change.key \in Documents
    BY <1>2 DEF Says, Change
  <2> QED BY <1>2, <2>1 DEF After, Store
<1>3. CASE change.kind \in {"character", "delete"}
  BY <1>3 DEF After, Store
<1> QED BY <1>1, <1>2, <1>3 DEF Change

LEMMA TheDocumentIsWritten ==
  ASSUME NEW store \in Store, NEW change \in Change, NEW d \in Documents, Says(change, d)
  PROVE  After(store, change).held[d] = change.value
BY DEF After, Store, Says

(* A change of something else, by whatever thread.                         *)
LEMMA OtherApplies ==
  ASSUME Typed, NEW t \in Threads, NEW change \in Change, Apply(t, change),
         NEW d \in Documents, ~Says(change, d),
         ~InHand(t, d),
         InHandIsLatest(d), QueuedIsLatest(d), WrittenIsLatest(d)
  PROVE  (InHandIsLatest(d) /\ QueuedIsLatest(d) /\ WrittenIsLatest(d))'
<1>1. memory'.held[d] = memory.held[d]
  BY OthersAreLeft DEF Typed, Apply
<1>2. \A u \in Threads : /\ InHand(u, d)' <=> InHand(u, d)
                         /\ InHand(u, d) => at'[u] = at[u]
  BY DEF Typed, Apply, Recording, InHand, Says
<1>3. UNCHANGED <<queue, db, lost>>
  BY DEF Apply
<1>4. \A i \in DOMAIN queue : IsLast(i, d)' <=> IsLast(i, d)
  BY <1>3 DEF IsLast, Says
<1>5. Underway(d)' <=> Underway(d)
  BY <1>2, <1>3 DEF Underway, Says
<1>6. InHandIsLatest(d)'
  BY <1>1, <1>2 DEF InHandIsLatest
<1>7. QueuedIsLatest(d)'
  BY <1>1, <1>2, <1>3, <1>4 DEF QueuedIsLatest
<1>8. WrittenIsLatest(d)'
  BY <1>1, <1>3, <1>5 DEF WrittenIsLatest
<1> QED BY <1>6, <1>7, <1>8

(* A change of the document, by the one thread that makes them.            *)
LEMMA DocumentApplies ==
  ASSUME Typed, NEW t \in Threads, GameThreads = {t},
         NEW d \in Documents, NEW v \in Values, Apply(t, DocumentChange(d, v)),
         InHandIsLatest(d)
  PROVE  (InHandIsLatest(d) /\ QueuedIsLatest(d) /\ WrittenIsLatest(d))'
<1> DEFINE change == DocumentChange(d, v)
<1>1. change \in Change /\ Says(change, d) /\ change.value = v
  BY ChangesAreChanges DEF DocumentChange, Says
<1>2. memory'.held[d] = v
  BY <1>1, TheDocumentIsWritten DEF Typed, Apply
<1>3. at'[t] = Recording(change)
  BY DEF Typed, Apply
<1>4. InHand(t, d)'
  BY <1>1, <1>3 DEF InHand, Recording, Says
<1>5. ASSUME NEW u \in Threads, InHand(u, d)'
      PROVE  u = t
  <2>1. CASE u # t
    <3>1. at'[u] = at[u]
      BY <2>1 DEF Typed, Apply
    <3> QED BY <1>5, <2>1, <3>1 DEF InHand, Says, InHandIsLatest
  <2> QED BY <2>1
<1>6. InHandIsLatest(d)'
  BY <1>1, <1>2, <1>3, <1>5 DEF InHandIsLatest, Recording
<1>7. QueuedIsLatest(d)'
  BY <1>4 DEF QueuedIsLatest
<1>8. WrittenIsLatest(d)'
  BY <1>4 DEF WrittenIsLatest, Underway
<1> QED BY <1>6, <1>7, <1>8

(* The change in hand goes to the end of the channel.                      *)
LEMMA RecordSettles ==
  ASSUME Typed, NEW g, GameThreads = {g}, NEW t \in Threads, Record(t),
         NEW d \in Documents,
         InHandIsLatest(d), QueuedIsLatest(d), WrittenIsLatest(d)
  PROVE  (InHandIsLatest(d) /\ QueuedIsLatest(d) /\ WrittenIsLatest(d))'
<1> DEFINE end == Len(queue) + 1
<1>1. /\ queue \in Seq(Change)
      /\ at[t].change \in Change
  BY DEF Typed, Record, Step, Idle
<1>2. /\ DOMAIN queue = 1 .. Len(queue) /\ DOMAIN queue' = 1 .. end
      /\ Len(queue) \in Nat
      /\ \A i \in DOMAIN queue : queue'[i] = queue[i]
      /\ queue'[end] = at[t].change
  BY <1>1 DEF Record
<1>3. ~InHand(t, d)' /\ \A u \in Threads \ {t} : at'[u] = at[u]
  BY DEF Typed, Record, Idle, InHand
<1>4. UNCHANGED <<memory, db, lost>>
  BY DEF Record
<1>5. InHandIsLatest(d)'
  BY <1>3, <1>4 DEF InHandIsLatest, InHand, Says
<1>6. CASE InHand(t, d)
  <2>1. Says(queue'[end], d) /\ queue'[end].value = memory.held[d]
    BY <1>2, <1>6 DEF InHand, InHandIsLatest
  <2>2. \A i \in DOMAIN queue' : IsLast(i, d)' => i = end
    <3> SUFFICES ASSUME NEW i \in DOMAIN queue', IsLast(i, d)', i # end
                 PROVE  FALSE
      OBVIOUS
    <3>1. end > i /\ end \in DOMAIN queue'
      BY <1>2
    <3> QED BY <2>1, <3>1 DEF IsLast, Says
  <2>3. QueuedIsLatest(d)'
    BY <1>4, <2>1, <2>2 DEF QueuedIsLatest
  <2>4. WrittenIsLatest(d)'
    <3>1. end \in DOMAIN queue'
      BY <1>2
    <3> QED BY <2>1, <3>1 DEF WrittenIsLatest, Underway, Says
  <2> QED BY <1>5, <2>3, <2>4
<1>7. CASE ~InHand(t, d)
  <2>1. ~Says(queue'[end], d)
    BY <1>2, <1>7 DEF InHand, Record
  <2>2. \A i \in DOMAIN queue' : IsLast(i, d)' => i \in DOMAIN queue /\ IsLast(i, d)
    <3> SUFFICES ASSUME NEW i \in DOMAIN queue', IsLast(i, d)'
                 PROVE  i \in DOMAIN queue /\ IsLast(i, d)
      OBVIOUS
    <3>1. i # end
      BY <2>1 DEF IsLast, Says
    <3>2. i \in DOMAIN queue
      BY <1>2, <3>1
    <3> QED BY <1>2, <3>2 DEF IsLast, Says
  <2>3. (\A u \in Threads : ~InHand(u, d)') => \A u \in Threads : ~InHand(u, d)
    BY <1>3, <1>7 DEF InHand, Says
  <2>4. QueuedIsLatest(d)'
    BY <1>2, <1>4, <2>2, <2>3 DEF QueuedIsLatest
  <2>5. Underway(d) => Underway(d)'
    <3>1. ASSUME NEW u \in Threads, InHand(u, d)
          PROVE  InHand(u, d)'
      BY <1>3, <1>7, <3>1 DEF InHand, Says
    <3>2. ASSUME NEW i \in DOMAIN queue, Says(queue[i], d)
          PROVE  i \in DOMAIN queue' /\ Says(queue'[i], d)
      BY <1>2, <3>2 DEF Says
    <3> QED BY <3>1, <3>2 DEF Underway, Says
  <2>6. WrittenIsLatest(d)'
    BY <1>4, <2>5 DEF WrittenIsLatest
  <2> QED BY <1>5, <2>4, <2>6
<1> QED BY <1>6, <1>7
(* The writer takes the change at the head of the channel; it is the last  *)
(* of its document or there is another behind it.                          *)
LEMMA WriteSettles ==
  ASSUME Typed, Write, NEW d \in Documents,
         InHandIsLatest(d), QueuedIsLatest(d), WrittenIsLatest(d)
  PROVE  (InHandIsLatest(d) /\ QueuedIsLatest(d) /\ WrittenIsLatest(d))'
<1> DEFINE head == Head(queue)
<1>1. /\ queue # <<>> /\ queue \in Seq(Change)
      /\ UNCHANGED <<memory, at>> /\ queue' = Tail(queue)
  BY DEF Typed, Write
<1>2. /\ head \in Change /\ head = queue[1]
      /\ DOMAIN queue = 1 .. Len(queue) /\ Len(queue) \in Nat \ {0}
      /\ DOMAIN queue' = 1 .. Len(queue) - 1
      /\ \A i \in DOMAIN queue' : queue'[i] = queue[i + 1]
  BY <1>1
<1>3. \A t \in Threads : InHand(t, d)' <=> InHand(t, d)
  BY <1>1 DEF InHand, Says
<1>4. InHandIsLatest(d)'
  BY <1>1, <1>3 DEF InHandIsLatest
<1>5. QueuedIsLatest(d)'
  <2>1. ASSUME NEW i \in DOMAIN queue', IsLast(i, d)'
        PROVE  i + 1 \in DOMAIN queue /\ IsLast(i + 1, d)
    <3>1. i + 1 \in DOMAIN queue
      BY <1>2
    <3>2. Says(queue[i + 1], d)
      BY <1>2, <2>1 DEF IsLast, Says
    <3>3. ASSUME NEW j \in DOMAIN queue, j > i + 1
          PROVE  ~Says(queue[j], d)
      <4>1. j - 1 \in DOMAIN queue' /\ j - 1 > i /\ (j - 1) + 1 = j
        BY <1>2, <3>3
      <4> QED BY <1>2, <2>1, <4>1 DEF IsLast, Says
    <3> QED BY <3>1, <3>2, <3>3 DEF IsLast
  <2> QED BY <1>1, <1>2, <1>3, <2>1 DEF QueuedIsLatest
<1>6. WrittenIsLatest(d)'
  <2> SUFFICES ASSUME ~Underway(d)'
               PROVE  (<<"document", d>> \in lost \/ db.held[d] = memory.held[d])'
    BY DEF WrittenIsLatest
  <2>1. \A t \in Threads : ~InHand(t, d)
    BY <1>3 DEF Underway
  <2>2. \A j \in DOMAIN queue : j > 1 => ~Says(queue[j], d)
    <3> SUFFICES ASSUME NEW j \in DOMAIN queue, j > 1
                 PROVE  ~Says(queue[j], d)
      OBVIOUS
    <3>1. j - 1 \in DOMAIN queue' /\ (j - 1) + 1 = j
      BY <1>2
    <3> QED BY <1>2, <3>1 DEF Underway, Says
  <2>3. CASE Says(head, d)
    <3>1. IsLast(1, d) /\ 1 \in DOMAIN queue
      BY <1>2, <2>2, <2>3 DEF IsLast
    <3>2. head.value = memory.held[d]
      BY <1>2, <2>1, <3>1 DEF QueuedIsLatest
    <3>3. CASE WriteSucceeds
      <4>1. db'.held[d] = head.value
        BY <1>2, <2>3, <3>3, TheDocumentIsWritten DEF Typed, WriteSucceeds
      <4> QED BY <1>1, <3>2, <4>1
    <3>4. CASE WriteFails
      BY <2>3, <3>4 DEF WriteFails, Subject, Says
    <3> QED BY <3>3, <3>4 DEF Write
  <2>4. CASE ~Says(head, d)
    <3>1. ~Underway(d)
      <4>1. \A j \in DOMAIN queue : ~Says(queue[j], d)
        BY <1>2, <2>2, <2>4
      <4> QED BY <2>1, <4>1 DEF Underway
    <3>2. <<"document", d>> \in lost \/ db.held[d] = memory.held[d]
      BY <3>1 DEF WrittenIsLatest
    <3>3. Subject(head) # <<"document", d>>
      BY <1>2, <2>4 DEF Subject, Says, Change
    <3>4. <<"document", d>> \in lost => <<"document", d>> \in lost'
      BY <3>3 DEF Write, WriteSucceeds, WriteFails
    <3>5. db'.held[d] = db.held[d]
      BY <1>2, <2>4, OthersAreLeft DEF Typed, Write, WriteSucceeds, WriteFails
    <3> QED BY <1>1, <3>2, <3>4, <3>5
  <2> QED BY <2>3, <2>4
<1> QED BY <1>4, <1>5, <1>6

LEMMA RestartSettles ==
  ASSUME Restart, NEW d \in Documents
  PROVE  (InHandIsLatest(d) /\ QueuedIsLatest(d) /\ WrittenIsLatest(d))'
<1>1. \A t \in Threads : ~InHand(t, d)'
  BY DEF Restart, InHand, Idle
<1>2. DOMAIN queue' = {} /\ memory' = db /\ db' = db
  BY DEF Restart
<1> QED BY <1>1, <1>2 DEF InHandIsLatest, QueuedIsLatest, WrittenIsLatest

LEMMA StepSettles ==
  ASSUME Typed, Settling, NEW g, GameThreads = {g}, [Next]_vars
  PROVE  Settling'
<1> SUFFICES ASSUME NEW d \in Documents \ Photos
             PROVE  (InHandIsLatest(d) /\ QueuedIsLatest(d) /\ WrittenIsLatest(d))'
  BY DEF Settling
<1>0. InHandIsLatest(d) /\ QueuedIsLatest(d) /\ WrittenIsLatest(d)
  BY DEF Settling
<1>1. CASE UNCHANGED vars
  BY <1>0, <1>1 DEF vars, InHandIsLatest, QueuedIsLatest, WrittenIsLatest, InHand, IsLast,
                    Underway, Says
<1>2. CASE Write
  BY <1>0, <1>2, WriteSettles
<1>3. CASE Restart
  BY <1>3, RestartSettles
<1>4. CASE \E t \in Threads : Record(t)
  BY <1>0, <1>4, RecordSettles
<1>5. CASE \E t \in Threads, a \in Accounts : EnsureCharacter(t, a)
  <2>1. PICK t \in Threads, a \in Accounts : EnsureCharacter(t, a)
    BY <1>5
  <2>2. \A u \in Threads : /\ InHand(u, d)' <=> InHand(u, d)
                           /\ InHand(u, d) => at'[u] = at[u]
    BY <2>1 DEF Typed, EnsureCharacter, InHand, Creating, Idle, Says
  <2>3. UNCHANGED <<memory, queue, db, lost>>
    BY <2>1 DEF EnsureCharacter
  <2> QED BY <1>0, <2>2, <2>3 DEF InHandIsLatest, QueuedIsLatest, WrittenIsLatest, IsLast,
                                  Underway, Says
<1>6. CASE \E t \in Threads, change \in Change :
             /\ change.kind # "document" /\ at[t].step # "recording"
             /\ Apply(t, change)
  <2>1. PICK t \in Threads, change \in Change :
               /\ change.kind # "document" /\ at[t].step # "recording"
               /\ Apply(t, change)
    BY <1>6
  <2>2. ~Says(change, d) /\ ~InHand(t, d)
    BY <2>1 DEF Says, InHand
  <2> QED BY <1>0, <2>1, <2>2, OtherApplies
<1>7. CASE \E t \in WebThreads, e \in Photos, v \in Values :
             at[t] = Idle /\ Apply(t, DocumentChange(e, v))
  <2>1. PICK t \in WebThreads, e \in Photos, v \in Values :
               at[t] = Idle /\ Apply(t, DocumentChange(e, v))
    BY <1>7
  <2>2. t \in Threads /\ DocumentChange(e, v) \in Change
    BY ChangesAreChanges, PersistenceAssumption DEF Threads
  <2>3. ~Says(DocumentChange(e, v), d) /\ ~InHand(t, d)
    BY <2>1 DEF Says, InHand, DocumentChange, Idle
  <2> QED BY <1>0, <2>1, <2>2, <2>3, OtherApplies
<1>8. CASE \E t \in GameThreads, e \in Documents \ Photos, v \in Values :
             at[t] = Idle /\ Apply(t, DocumentChange(e, v))
  <2>1. PICK t \in GameThreads, e \in Documents \ Photos, v \in Values :
               at[t] = Idle /\ Apply(t, DocumentChange(e, v))
    BY <1>8
  <2>2. t \in Threads /\ DocumentChange(e, v) \in Change
    BY ChangesAreChanges DEF Threads
  <2>3. CASE e = d
    BY <1>0, <2>1, <2>2, <2>3, DocumentApplies
  <2>4. CASE e # d
    <3>1. ~Says(DocumentChange(e, v), d) /\ ~InHand(t, d)
      BY <2>1, <2>4 DEF Says, InHand, DocumentChange, Idle
    <3> QED BY <1>0, <2>1, <2>2, <3>1, OtherApplies
  <2> QED BY <2>3, <2>4
<1> QED BY StepCases, <1>1, <1>2, <1>3, <1>4, <1>5, <1>6, <1>7, <1>8

LEMMA InitSettles == Init => Settling
<1> SUFFICES ASSUME Init PROVE Settling
  OBVIOUS
<1>1. \A t \in Threads, d \in Documents : ~InHand(t, d)
  BY DEF Init, InHand, Idle
<1>2. DOMAIN queue = {} /\ memory = db
  BY DEF Init
<1> QED BY <1>1, <1>2 DEF Settling, InHandIsLatest, QueuedIsLatest, WrittenIsLatest

-----------------------------------------------------------------------------
(* Memory, the database, the channel and the threads keep their types: the *)
(* setters of skysaga-state and the writer of skysaga-store never make a   *)
(* value out of nothing, whatever fails.                                   *)
THEOREM StoresAreTyped == Spec => []Typed
<1>1. Init => Typed
  BY InitIsTyped
<1>2. Typed /\ [Next]_vars => Typed'
  BY StepIsTyped
<1> QED BY <1>1, <1>2, PTL DEF Spec

(* Documents settle: for any number of HTTP handlers, accounts and         *)
(* documents, any failed writes and any restarts, once the writer of       *)
(* persistence.rs has caught up the store has what memory has, or the last *)
(* write was refused.  One game thread is all it takes.                    *)
THEOREM DocumentsAreSettled ==
  ASSUME NEW g, GameThreads = {g}
  PROVE  Spec => []DocumentsSettle
<1>1. Init => Typed /\ Settling
  BY InitIsTyped, InitSettles
<1>2. Typed /\ Settling /\ [Next]_vars => (Typed /\ Settling)'
  BY StepIsTyped, StepSettles
<1>3. Typed /\ Settling => DocumentsSettle
  <2> SUFFICES ASSUME Typed, Settling, Quiet, NEW d \in Documents \ Photos
               PROVE  <<"document", d>> \in lost \/ db.held[d] = memory.held[d]
    BY DEF DocumentsSettle
  <2>1. \A t \in Threads : ~InHand(t, d)
    BY DEF Quiet, InHand, Idle
  <2>2. DOMAIN queue = {}
    BY DEF Quiet
  <2> QED BY <2>1, <2>2 DEF Settling, WrittenIsLatest, Underway
<1> QED BY <1>1, <1>2, <1>3, PTL DEF Spec
-----------------------------------------------------------------------------
(* The refinement, when one thread makes all changes, there are no photos  *)
(* and no write fails by itself.  The states memory has been in since are  *)
(* what comes of applying to the database, one by one, what is in the      *)
(* channel and in hand; and SQLite accepts each of them where it stands.   *)

(* No character without its account: the foreign key lets the next one by. *)
Keyed(store) == \A a \in Accounts : store.character[a] # None => a \in store.accounts

Nth(store, states, i) == IF i = 0 THEN store ELSE states[i]

Chain(store, states, pending, newest) ==
  /\ store \in Store
  /\ states \in Seq(Store)
  /\ pending \in Seq(Change)
  /\ Len(states) = Len(pending)
  /\ \A i \in 1 .. Len(states) :
       /\ Accepts(Nth(store, states, i - 1), pending[i])
       /\ states[i] = After(Nth(store, states, i - 1), pending[i])
  /\ newest = Nth(store, states, Len(states))
  /\ Keyed(store) /\ Keyed(newest)

Pending(t) ==
  IF at[t].step = "recording" THEN Append(queue, at[t].change) ELSE queue

Following(t) ==
  /\ Chain(db, ahead, Pending(t), memory)
  /\ at[t].step = "creating" => at[t].account \in memory.accounts
  /\ failures = 0

LEMMA AcceptedIsKeyed ==
  ASSUME NEW store \in Store, NEW change \in Change, Keyed(store), Accepts(store, change)
  PROVE  Keyed(After(store, change))
<1>1. CASE change.kind = "account"
  BY <1>1 DEF Keyed, After, Store
<1>2. CASE change.kind = "document"
  BY <1>2 DEF Keyed, After, Store
<1>3. CASE change.kind = "character"
  <2>1. After(store, change) = [store EXCEPT !.character[change.key] = change.value]
    BY <1>3 DEF After
  <2>2. change.key \in store.accounts
    BY <1>3 DEF Accepts
  <2> QED BY <2>1, <2>2 DEF Keyed, Store
<1>4. CASE change.kind = "delete"
  <2>1. After(store, change) = [store EXCEPT !.character[change.key] = change.value]
    BY <1>4 DEF After
  <2>2. change.value = None
    BY <1>4 DEF Change
  <2> QED BY <2>1, <2>2 DEF Keyed, Store
<1> QED BY <1>1, <1>2, <1>3, <1>4 DEF Change

LEMMA ChainGrows ==
  ASSUME NEW store, NEW states, NEW pending, NEW newest, Chain(store, states, pending, newest),
         newest \in Store, NEW change \in Change, Accepts(newest, change)
  PROVE  Chain(store, Append(states, After(newest, change)), Append(pending, change),
               After(newest, change))
<1> DEFINE next    == After(newest, change)
           longer  == Append(states, next)
           pending2 == Append(pending, change)
           end     == Len(states) + 1
<1>1. next \in Store /\ Keyed(next)
  BY AfterIsAStore, AcceptedIsKeyed DEF Chain
<1>2. /\ longer \in Seq(Store) /\ Len(longer) = end /\ Len(states) \in Nat
      /\ \A i \in 1 .. Len(states) : longer[i] = states[i]
      /\ longer[end] = next
  BY <1>1 DEF Chain
<1>3. /\ pending2 \in Seq(Change) /\ Len(pending2) = end
      /\ \A i \in 1 .. Len(states) : pending2[i] = pending[i]
      /\ pending2[end] = change
  BY DEF Chain
<1>4. \A i \in 0 .. Len(states) : Nth(store, longer, i) = Nth(store, states, i)
  BY <1>2 DEF Nth
<1>5. ASSUME NEW i \in 1 .. end
      PROVE  /\ Accepts(Nth(store, longer, i - 1), pending2[i])
             /\ longer[i] = After(Nth(store, longer, i - 1), pending2[i])
  <2>1. CASE i = end
    <3>1. Nth(store, longer, i - 1) = newest
      BY <1>2, <1>4, <2>1 DEF Chain
    <3> QED BY <1>2, <1>3, <2>1, <3>1
  <2>2. CASE i # end
    <3>1. i \in 1 .. Len(states) /\ i - 1 \in 0 .. Len(states)
      BY <1>2, <2>2
    <3>2. /\ Accepts(Nth(store, states, i - 1), pending[i])
          /\ states[i] = After(Nth(store, states, i - 1), pending[i])
      BY <3>1 DEF Chain
    <3>3. /\ Nth(store, longer, i - 1) = Nth(store, states, i - 1)
          /\ longer[i] = states[i] /\ pending2[i] = pending[i]
      BY <1>2, <1>3, <1>4, <3>1
    <3> QED BY <3>2, <3>3
  <2> QED BY <2>1, <2>2
<1>6. next = Nth(store, longer, end)
  BY <1>2 DEF Nth
<1> HIDE DEF next, longer, pending2
<1>7. Chain(store, longer, pending2, next)
  BY <1>1, <1>2, <1>3, <1>5, <1>6 DEF Chain
<1> QED BY <1>7 DEF next, longer, pending2

LEMMA ChainShrinks ==
  ASSUME NEW store, NEW states, NEW pending, NEW newest, Chain(store, states, pending, newest),
         pending # <<>>
  PROVE  /\ states # <<>>
         /\ Accepts(store, Head(pending))
         /\ Head(states) = After(store, Head(pending))
         /\ Chain(Head(states), Tail(states), Tail(pending), newest)
<1> DEFINE first == Head(states)
           shorter == Tail(states)
           rest == Tail(pending)
           n == Len(states)
<1>1. /\ states \in Seq(Store) /\ pending \in Seq(Change)
      /\ Len(pending) = n /\ n \in Nat \ {0} /\ states # <<>>
  BY DEF Chain
<1>2. /\ first = states[1] /\ first \in Store /\ Head(pending) = pending[1]
      /\ shorter \in Seq(Store) /\ Len(shorter) = n - 1
      /\ rest \in Seq(Change) /\ Len(rest) = n - 1
      /\ \A i \in 1 .. n - 1 : shorter[i] = states[i + 1] /\ rest[i] = pending[i + 1]
  BY <1>1
<1>3. Accepts(store, Head(pending)) /\ first = After(store, Head(pending))
  <2>1. 1 \in 1 .. n /\ Nth(store, states, 1 - 1) = store
    BY <1>1 DEF Nth
  <2> QED BY <1>2, <2>1 DEF Chain
<1>4. \A i \in 0 .. n - 1 : Nth(first, shorter, i) = Nth(store, states, i + 1)
  BY <1>1, <1>2 DEF Nth
<1>5. ASSUME NEW i \in 1 .. n - 1
      PROVE  /\ Accepts(Nth(first, shorter, i - 1), rest[i])
             /\ shorter[i] = After(Nth(first, shorter, i - 1), rest[i])
  <2>1. i + 1 \in 1 .. n /\ i - 1 \in 0 .. n - 1 /\ (i - 1) + 1 = i /\ (i + 1) - 1 = i
    BY <1>1
  <2>2. /\ Accepts(Nth(store, states, i), pending[i + 1])
        /\ states[i + 1] = After(Nth(store, states, i), pending[i + 1])
    BY <2>1 DEF Chain
  <2>3. Nth(first, shorter, i - 1) = Nth(store, states, i)
    BY <1>4, <2>1
  <2> QED BY <1>2, <2>2, <2>3
<1>6. newest = Nth(first, shorter, n - 1) /\ Keyed(first) /\ Keyed(newest)
  BY <1>1, <1>2, <1>3, <1>4, AcceptedIsKeyed DEF Chain
<1> HIDE DEF first, shorter, rest
<1>7. Chain(first, shorter, rest, newest)
  BY <1>1, <1>2, <1>5, <1>6 DEF Chain
<1> QED BY <1>1, <1>3, <1>7 DEF first, shorter, rest

(* The thread changes memory: a state more to reach.                       *)
LEMMA ApplyFollows ==
  ASSUME Typed, NEW t, Threads = {t}, Following(t), at[t].step # "recording",
         NEW change \in Change, Accepts(memory, change), Apply(t, change)
  PROVE  Following(t)' /\ Promise!Change
<1>1. /\ at'[t] = Recording(change) /\ queue' = queue /\ db' = db
      /\ memory' = After(memory, change) /\ ahead' = Append(ahead, memory')
      /\ failures' = failures
  BY DEF Typed, Apply
<1>2. Pending(t) = queue /\ Pending(t)' = Append(queue, change)
  BY <1>1 DEF Pending, Recording
<1>3. Chain(db, Append(ahead, After(memory, change)), Append(queue, change),
            After(memory, change))
  BY <1>2, ChainGrows DEF Following, Typed
<1>4. Following(t)'
  BY <1>1, <1>2, <1>3 DEF Following, Recording
<1>5. memory' \in Store
  BY <1>1, AfterIsAStore DEF Typed
<1> QED BY <1>1, <1>4, <1>5 DEF Promise!Change

LEMMA RecordFollows ==
  ASSUME Typed, NEW t, Threads = {t}, Following(t), Record(t)
  PROVE  Following(t)' /\ UNCHANGED <<memory, ahead, db>>
<1>1. UNCHANGED <<memory, ahead, db, failures>> /\ at'[t] = Idle
  BY DEF Typed, Record
<1>2. Pending(t)' = Pending(t)
  BY <1>1 DEF Pending, Record, Idle
<1> QED BY <1>1, <1>2 DEF Following, Idle

LEMMA EnsureFollows ==
  ASSUME Typed, NEW t, Threads = {t}, Following(t), NEW a, EnsureCharacter(t, a)
  PROVE  Following(t)' /\ UNCHANGED <<memory, ahead, db>>
<1>1. /\ UNCHANGED <<memory, ahead, db, queue, failures>>
      /\ at[t] = Idle /\ at'[t] = Creating(a) /\ a \in memory.accounts
  BY DEF Typed, EnsureCharacter
<1>2. Pending(t)' = Pending(t)
  BY <1>1 DEF Pending, Idle, Creating
<1> QED BY <1>1, <1>2 DEF Following, Creating

(* The writer takes the head of the channel, which SQLite accepts: the     *)
(* database becomes the first of the states to come.                       *)
LEMMA WriteFollows ==
  ASSUME Typed, NEW t, Threads = {t}, Following(t), MaxFailures = 0, Write
  PROVE  Following(t)' /\ Promise!Persist
<1>1. /\ queue # <<>> /\ queue \in Seq(Change) /\ queue' = Tail(queue)
      /\ ahead' = Tail(ahead) /\ UNCHANGED <<memory, at>>
  BY DEF Typed, Write
<1>2. /\ Pending(t) # <<>> /\ Head(Pending(t)) = Head(queue)
      /\ Pending(t)' = Tail(Pending(t))
  <2>1. CASE at[t].step = "recording"
    <3>1. at[t].change \in Change
      BY <2>1 DEF Typed, Step, Idle
    <3>2. /\ Append(queue, at[t].change) # <<>>
          /\ Head(Append(queue, at[t].change)) = Head(queue)
          /\ Tail(Append(queue, at[t].change)) = Append(Tail(queue), at[t].change)
      BY <1>1, <3>1
    <3> QED BY <1>1, <2>1, <3>2 DEF Pending
  <2>2. CASE at[t].step # "recording"
    BY <1>1, <2>2 DEF Pending
  <2> QED BY <2>1, <2>2
<1>3. /\ ahead # <<>> /\ Accepts(db, Head(queue)) /\ Head(ahead) = After(db, Head(queue))
      /\ Chain(Head(ahead), Tail(ahead), Tail(Pending(t)), memory)
  BY <1>2, ChainShrinks DEF Following
<1>4. db' = Head(ahead) /\ failures' = failures
  BY <1>3 DEF Write, WriteSucceeds, WriteFails, Following
<1>5. Following(t)'
  BY <1>1, <1>2, <1>3, <1>4 DEF Following
<1> QED BY <1>1, <1>3, <1>4, <1>5 DEF Promise!Persist

(* Nothing is pending and memory is the database, which is keyed itself.   *)
LEMMA RestartFollows ==
  ASSUME Typed, NEW t, Threads = {t}, Following(t), Restart
  PROVE  Following(t)' /\ Promise!Crash
<1>1. /\ memory' = db /\ db' = db /\ queue' = <<>> /\ ahead' = <<>>
      /\ at'[t] = Idle /\ failures' = failures
  BY DEF Restart
<1>2. Pending(t)' = <<>>
  BY <1>1 DEF Pending, Idle
<1>3. Chain(db, <<>>, <<>>, db)
  BY DEF Following, Chain, Nth
<1> QED BY <1>1, <1>2, <1>3 DEF Following, Idle, Promise!Crash

(* What changes a thread makes SQLite accepts, in the order they are made. *)
LEMMA StepFollows ==
  ASSUME Typed, NEW t, Threads = {t}, Following(t), MaxFailures = 0, Photos = {},
         [Next]_vars
  PROVE  Following(t)' /\ [Promise!Next]_(Promise!vars)
<1> USE DEF Promise!vars, Promise!Next
<1>1. CASE UNCHANGED vars
  BY <1>1 DEF vars, Following, Pending
<1>2. CASE Write
  BY <1>2, WriteFollows
<1>3. CASE Restart
  BY <1>3, RestartFollows
<1>4. CASE Record(t)
  BY <1>4, RecordFollows
<1>5. CASE \E a \in Accounts : EnsureCharacter(t, a)
  BY <1>5, EnsureFollows
<1>6. ASSUME NEW change \in Change, Accepts(memory, change), at[t].step # "recording",
             Apply(t, change)
      PROVE  Following(t)' /\ Promise!Change
  BY <1>6, ApplyFollows
<1>7. ASSUME NEW a \in Accounts, NEW c \in Characters, a \in memory.accounts,
             at[t].step # "recording", Apply(t, CharacterChange(a, c))
      PROVE  Following(t)' /\ Promise!Change
  <2>1. Accepts(memory, CharacterChange(a, c))
    BY <1>7 DEF Accepts, CharacterChange
  <2> QED BY <1>6, <1>7, <2>1, ChangesAreChanges
<1>8. CASE \E c \in Characters : CreateMissing(t, c)
  <2>1. PICK c \in Characters : CreateMissing(t, c)
    BY <1>8
  <2>2. at[t].account \in memory.accounts /\ at[t].account \in Accounts
    BY <2>1 DEF CreateMissing, Following, Typed, Store
  <2> QED BY <1>7, <2>1, <2>2 DEF CreateMissing
<1>9. CASE HandleWeb(t)
  <2>1. ASSUME NEW a \in Accounts, Authenticate(t, a) \/ DeleteCharacter(t, a)
        PROVE  Following(t)' /\ Promise!Change
    <3>1. Accepts(memory, AccountChange(a)) /\ Accepts(memory, DeleteChange(a))
      BY DEF Accepts, AccountChange, DeleteChange
    <3> QED BY <1>6, <2>1, <3>1, ChangesAreChanges DEF Authenticate, DeleteCharacter, Idle
  <2>2. ASSUME NEW a \in Accounts, NEW c \in Characters, CreateCharacter(t, a, c)
        PROVE  Following(t)' /\ Promise!Change
    BY <1>7, <2>2 DEF CreateCharacter, Idle
  <2> QED BY <1>9, <2>1, <2>2 DEF HandleWeb
<1>10. CASE HandleGame(t)
  <2>1. ASSUME NEW a \in Accounts, NEW c \in Characters, UpdateCharacter(t, a, c)
        PROVE  Following(t)' /\ Promise!Change
    <3>1. a \in memory.accounts
      BY <2>1 DEF UpdateCharacter, Following, Chain, Keyed
    <3> QED BY <1>7, <2>1, <3>1 DEF UpdateCharacter, Idle
  <2>2. ASSUME NEW d \in Documents \ Photos, NEW v \in Values, SetDocument(t, d, v)
        PROVE  Following(t)' /\ Promise!Change
    <3>1. Accepts(memory, DocumentChange(d, v))
      BY <2>2 DEF SetDocument, Accepts, DocumentChange
    <3> QED BY <1>6, <2>2, <3>1, ChangesAreChanges DEF SetDocument, Idle
  <2> QED BY <1>10, <2>1, <2>2 DEF HandleGame
<1> QED BY <1>1, <1>2, <1>3, <1>4, <1>5, <1>8, <1>9, <1>10 DEF Next, Handle, Threads

LEMMA InitFollows ==
  ASSUME NEW t, Threads = {t}, Init
  PROVE  Following(t) /\ Promise!Init
<1>1. Empty \in Store /\ Keyed(Empty)
  BY DEF Empty, Store, Keyed
<1>2. Pending(t) = <<>>
  BY DEF Init, Pending, Idle
<1>3. Chain(Empty, <<>>, <<>>, Empty)
  BY <1>1 DEF Chain, Nth
<1> QED BY <1>1, <1>2, <1>3 DEF Init, Following, Idle, Promise!Init

-----------------------------------------------------------------------------
(* The store goes through the states memory went through, in their order   *)
(* and leaving none out, and a restart is into one of them: with one       *)
(* thread that makes changes, whatever they are, every step of AppState,   *)
(* the channel and the writer of persistence.rs is one WriteBehind allows. *)
THEOREM StoreFollowsMemory ==
  ASSUME NEW t, Threads = {t}, MaxFailures = 0, Photos = {}
  PROVE  Spec => Promise!Init /\ [][Promise!Next]_(Promise!vars)
<1>1. Init => Typed /\ Following(t) /\ Promise!Init
  BY InitIsTyped, InitFollows
<1>2. Typed /\ Following(t) /\ [Next]_vars =>
        (Typed /\ Following(t))' /\ [Promise!Next]_(Promise!vars)
  BY StepIsTyped, StepFollows
<1> QED BY <1>1, <1>2, PTL DEF Spec

-----------------------------------------------------------------------------
(* Types. *)

Args  == {"", "give", "no such item", "queued"} \cup Conns \cup Channels
Verbs == {"", "HELLO", "NICK", "USER", "JOIN", "PART", "QUIT", "431", "001", "NOTICE"}

Plain  == [verb : Verbs, arg : Args]
Spoken == [verb : {"PRIVMSG"}, arg : Channels, from : Conns, n : Nat]
Orders == [verb : {"SLASH"}, arg : {"give"}, item : Items \cup Typos, from : Conns, n : Nat]
Lines  == Plain \cup Spoken \cup Orders

Dialects == [nick : Args, registered : BOOLEAN, channels : SUBSET Args, quit : BOOLEAN]
Stages   == {"reading", "enrolling", "relaying", "sending", "leaving", "gone"}
Servings == [at : Stages, line : Lines, left : SUBSET Conns]

ChatTyped ==
  /\ open \in [Conns -> BOOLEAN]
  /\ inbound \in [Conns -> Seq(Lines)]
  /\ sessions \in [Conns -> Dialects]
  /\ serving \in [Conns -> Servings]
  /\ DOMAIN members \subseteq Conns
  /\ lock \in Conns \cup {Nobody}
  /\ writers \in [Conns -> Seq(Lines)]
  /\ screen \in [Conns -> Seq(Lines)]
  /\ sent \in [Conns -> Nat]
  /\ commands \in Seq(Lines)

-----------------------------------------------------------------------------
(* The invariant. *)

Hearing(d) == screen[d] \o writers[d]

(* Where something is said in a sequence of lines.                         *)
Talk(q) == {i \in 1 .. Len(q) : q[i].verb = "PRIVMSG"}

InOneOrder(p, q) ==
  \A i, j \in Talk(p), k, l \in Talk(q) : i < j /\ p[i] = q[l] /\ p[j] = q[k] => l < k

(* The lines a client has still to be read are numbered in their order.    *)
InboundNumbered(c) ==
  \A i \in Talk(inbound[c]) :
    /\ inbound[c][i].from = c /\ inbound[c][i].n < sent[c]
    /\ \A j \in Talk(inbound[c]) : j < i => inbound[c][j].n < inbound[c][i].n

(* The line in hand was sent before them.                                  *)
InHandNumbered(c) ==
  /\ serving[c].at \in {"relaying", "sending"} => serving[c].line.verb = "PRIVMSG"
  /\ serving[c].at \in {"enrolling", "relaying", "sending"} /\ serving[c].line.verb = "PRIVMSG" =>
       /\ serving[c].line.from = c /\ serving[c].line.n < sent[c]
       /\ \A i \in Talk(inbound[c]) : serving[c].line.n < inbound[c][i].n

(* What has been handed to a writer was sent before what is still to be    *)
(* handed over...                                                          *)
SentEarlier(x) ==
  LET s == x.from
  IN  /\ x.n < sent[s]
      /\ \A j \in Talk(inbound[s]) : x.n < inbound[s][j].n
      /\ serving[s].at \in {"enrolling", "relaying"} /\ serving[s].line.verb = "PRIVMSG" =>
           x.n < serving[s].line.n

(* ...or is the line that is being relayed: then it is the last there, and *)
(* will not be handed over again.                                          *)
BeingSaid(q, d, i) ==
  LET hand == serving[q[i].from]
  IN  hand.at = "sending" =>
        \/ q[i].n < hand.line.n
        \/ q[i] = hand.line /\ d \notin hand.left /\ \A j \in Talk(q) : j <= i

(* One relay at a time.                                                    *)
Locked ==
  /\ lock # Nobody => serving[lock].at = "sending"
  /\ \A c \in Conns : serving[c].at = "sending" => lock = c

ChatInv ==
  /\ ChatTyped /\ Locked
  /\ \A c \in Conns : InboundNumbered(c) /\ InHandNumbered(c)
  /\ \A d \in Conns : \A i \in Talk(Hearing(d)) :
       SentEarlier(Hearing(d)[i]) /\ BeingSaid(Hearing(d), d, i)
  /\ \A c, d \in Conns : InOneOrder(Hearing(c), Hearing(d))

-----------------------------------------------------------------------------
(* Lines. *)

LEMMA LinesSaid ==
  /\ \A x \in Lines : x.verb = "PRIVMSG" => x \in Spoken /\ x.from \in Conns /\ x.n \in Nat
  /\ \A ch \in Channels, c \in Conns, n \in Nat :
       /\ Said(ch, c, n) \in Lines /\ Said(ch, c, n).verb = "PRIVMSG"
       /\ Said(ch, c, n).from = c /\ Said(ch, c, n).n = n
BY DEF Lines, Plain, Spoken, Orders, Verbs, Said

LEMMA LinesNotSaid ==
  /\ \A verb \in Verbs, arg \in Args :
       Line(verb, arg) \in Lines /\ Line(verb, arg).verb = verb /\ verb # "PRIVMSG"
  /\ \A item \in Items \cup Typos, c \in Conns, n \in Nat :
       Slash("give", item, c, n) \in Lines /\ Slash("give", item, c, n).verb = "SLASH"
BY DEF Lines, Plain, Orders, Verbs, Line, Slash

LEMMA ArgsOfLines == \A x \in Lines : x.arg \in Args
BY DEF Lines, Plain, Spoken, Orders, Args

(* What a connection makes of a line of its own, and what it answers.      *)
LEMMA HandleIsTyped ==
  ASSUME NEW s \in Dialects, NEW line \in Lines
  PROVE  /\ handle(s, line) \in Dialects
         /\ replies(s, line) \in Seq(Lines) /\ Talk(replies(s, line)) = {}
<1>1. line.arg \in Args
  BY ArgsOfLines
<1>2. handle(s, line) \in Dialects
  BY <1>1 DEF handle, Dialects
<1>3. \A x \in Lines : x.verb # "PRIVMSG" => <<x>> \in Seq(Lines) /\ Talk(<<x>>) = {}
  BY DEF Talk
<1>4. <<>> \in Seq(Lines) /\ Talk(<<>>) = {}
  BY DEF Talk
<1>5. /\ Line("431", "") \in Lines /\ Line("431", "").verb # "PRIVMSG"
      /\ Line("001", s.nick) \in Lines /\ Line("001", s.nick).verb # "PRIVMSG"
  BY LinesNotSaid DEF Verbs, Args, Dialects
<1> QED BY <1>2, <1>3, <1>4, <1>5 DEF replies

-----------------------------------------------------------------------------
(* Sequences of lines. *)

LEMMA TalkOfAppend ==
  ASSUME NEW q \in Seq(Lines), NEW x \in Lines
  PROVE  /\ Append(q, x) \in Seq(Lines) /\ Len(q) \in Nat
         /\ Append(q, x)[Len(q) + 1] = x
         /\ \A i \in Talk(q) : i \in 1 .. Len(q) /\ i \in Talk(Append(q, x))
         /\ \A i \in Talk(Append(q, x)) :
              \/ i \in Talk(q) /\ Append(q, x)[i] = q[i]
              \/ i = Len(q) + 1 /\ x.verb = "PRIVMSG"
<1> USE DEF Talk
<1>1. /\ Append(q, x) \in Seq(Lines) /\ Len(Append(q, x)) = Len(q) + 1
      /\ \A i \in 1 .. Len(q) : Append(q, x)[i] = q[i]
      /\ Append(q, x)[Len(q) + 1] = x /\ Len(q) \in Nat
  BY AppendProperties, LenProperties
<1> QED BY <1>1

LEMMA TalkOfConcat ==
  ASSUME NEW q \in Seq(Lines), NEW more \in Seq(Lines), Talk(more) = {}
  PROVE  \A i \in Talk(q \o more) : i \in Talk(q) /\ (q \o more)[i] = q[i]
<1> SUFFICES ASSUME NEW i \in Talk(q \o more) PROVE i \in Talk(q) /\ (q \o more)[i] = q[i]
  OBVIOUS
<1>1. /\ Len(q) \in Nat /\ Len(more) \in Nat /\ Len(q \o more) = Len(q) + Len(more)
      /\ \A k \in 1 .. Len(q) + Len(more) :
           (q \o more)[k] = IF k <= Len(q) THEN q[k] ELSE more[k - Len(q)]
  BY ConcatProperties, LenProperties
<1>2. i \in 1 .. Len(q) + Len(more) /\ (q \o more)[i].verb = "PRIVMSG"
  BY <1>1 DEF Talk
<1>3. CASE i <= Len(q)
  BY <1>1, <1>2, <1>3 DEF Talk
<1>4. CASE ~(i <= Len(q))
  <2>1. i - Len(q) \in 1 .. Len(more) /\ more[i - Len(q)].verb = "PRIVMSG"
    BY <1>1, <1>2, <1>4
  <2>2. i - Len(q) \in Talk(more)
    BY <2>1 DEF Talk
  <2> QED BY <2>2
<1> QED BY <1>3, <1>4

LEMMA TalkOfTail ==
  ASSUME NEW q \in Seq(Lines), q # <<>>
  PROVE  /\ Head(q) \in Lines /\ Tail(q) \in Seq(Lines) /\ Head(q) = q[1] /\ 1 \in 1 .. Len(q)
         /\ \A i \in Talk(Tail(q)) :
              i \in Nat \ {0} /\ i + 1 \in Talk(q) /\ Tail(q)[i] = q[i + 1]
<1>1. /\ Head(q) \in Lines /\ Tail(q) \in Seq(Lines) /\ Len(Tail(q)) = Len(q) - 1
      /\ \A i \in 1 .. Len(Tail(q)) : Tail(q)[i] = q[i + 1]
  BY HeadTailProperties
<1>2. Len(q) \in Nat \ {0}
  BY EmptySeq
<1>3. Head(q) = q[1]
  OBVIOUS
<1> QED BY <1>1, <1>2, <1>3 DEF Talk

LEMMA AppendToConcat ==
  ASSUME NEW p \in Seq(Lines), NEW q \in Seq(Lines), NEW more \in Seq(Lines), NEW x \in Lines
  PROVE  /\ p \o (q \o more) = (p \o q) \o more
         /\ p \o Append(q, x) = Append(p \o q, x)
         /\ p \o q \in Seq(Lines)
<1>1. p \o (q \o more) = (p \o q) \o more
  BY ConcatAssociative
<1>2. Append(q, x) = q \o <<x>> /\ Append(p \o q, x) = (p \o q) \o <<x>>
  BY AppendIsConcat, ConcatProperties
<1>3. p \o (q \o <<x>>) = (p \o q) \o <<x>>
  BY ConcatAssociative
<1> QED BY <1>1, <1>2, <1>3, ConcatProperties

LEMMA AppendToEnd ==
  \A p, q \in Seq(Lines), x \in Lines : p \o Append(q, x) = Append(p \o q, x)
<1>1. <<>> \in Seq(Lines)
  OBVIOUS
<1> QED BY <1>1, AppendToConcat

LEMMA WritingKeepsHearing ==
  ASSUME NEW p \in Seq(Lines), NEW q \in Seq(Lines), q # <<>>
  PROVE  Append(p, Head(q)) \o Tail(q) = p \o q
<1>1. Head(q) \in Lines /\ Tail(q) \in Seq(Lines) /\ <<Head(q)>> \in Seq(Lines)
  BY HeadTailProperties
<1>2. q = <<Head(q)>> \o Tail(q)
  OBVIOUS
<1>3. Append(p, Head(q)) = p \o <<Head(q)>>
  BY <1>1, AppendIsConcat
<1>4. (p \o <<Head(q)>>) \o Tail(q) = p \o (<<Head(q)>> \o Tail(q))
  BY <1>1, ConcatAssociative
<1> QED BY <1>2, <1>3, <1>4

(* Two clients that hear no more than they did hear it in one order.       *)
NoTalk(p, q) == \A i \in Talk(q) : i \in Talk(p) /\ q[i] = p[i]

LEMMA QuietKeepsOrder ==
  ASSUME NEW p, NEW q, NEW more, NEW less, InOneOrder(p, q), NoTalk(p, more), NoTalk(q, less)
  PROVE  InOneOrder(more, less)
BY DEF InOneOrder, NoTalk

(* A line that is new to one client, and the last the other has heard if   *)
(* it has heard it at all.                                                 *)
LEMMA NewLineKeepsOrder ==
  ASSUME NEW p \in Seq(Lines), NEW q \in Seq(Lines), NEW x \in Lines, x.verb = "PRIVMSG",
         InOneOrder(p, q), InOneOrder(q, p), InOneOrder(q, q),
         \A i \in Talk(q) : q[i] # x,
         \A i \in Talk(p) : p[i] = x => \A j \in Talk(p) : j <= i
  PROVE  /\ InOneOrder(p, Append(q, x)) /\ InOneOrder(Append(q, x), p)
         /\ InOneOrder(Append(q, x), Append(q, x))
<1> DEFINE r == Append(q, x)
           n == Len(q) + 1
<1>1. /\ r[n] = x /\ n \in Nat
      /\ \A i \in Talk(r) : (i \in Talk(q) /\ r[i] = q[i]) \/ i = n
      /\ \A i \in Talk(q) : i \in Nat /\ i < n
  BY TalkOfAppend
<1>2. \A i \in Talk(p) : i \in Nat
  BY LenProperties DEF Talk
<1> HIDE DEF r, n
<1>3. \A i \in Talk(r) : i \in Nat
  BY <1>1
<1>4. ASSUME NEW i \in Talk(p), NEW j \in Talk(p), NEW k \in Talk(r), NEW l \in Talk(r),
             i < j, p[i] = r[l], p[j] = r[k]
      PROVE  l < k
  <2>1. CASE l = n
    <3>1. p[i] = x
      BY <1>1, <1>4, <2>1
    <3> QED BY <1>2, <1>4, <3>1
  <2>2. CASE l # n /\ k = n
    BY <1>1, <2>2
  <2>3. CASE l # n /\ k # n
    BY <1>1, <1>4, <2>3 DEF InOneOrder
  <2> QED BY <2>1, <2>2, <2>3
<1>5. ASSUME NEW i \in Talk(r), NEW j \in Talk(r), NEW k \in Talk(p), NEW l \in Talk(p),
             i < j, r[i] = p[l], r[j] = p[k]
      PROVE  l < k
  <2>1. i # n /\ i \in Talk(q) /\ r[i] = q[i]
    BY <1>1, <1>3, <1>5
  <2>2. CASE j = n
    <3>1. p[k] = x /\ p[l] # x
      BY <1>1, <1>5, <2>1, <2>2
    <3>2. l <= k /\ l # k
      BY <3>1
    <3> QED BY <1>2, <3>2
  <2>3. CASE j # n
    BY <1>1, <1>5, <2>1, <2>3 DEF InOneOrder
  <2> QED BY <2>2, <2>3
<1>6. ASSUME NEW i \in Talk(r), NEW j \in Talk(r), NEW k \in Talk(r), NEW l \in Talk(r),
             i < j, r[i] = r[l], r[j] = r[k]
      PROVE  l < k
  <2>1. i # n /\ i \in Talk(q) /\ r[i] = q[i]
    BY <1>1, <1>3, <1>6
  <2>2. l # n /\ l \in Talk(q) /\ r[l] = q[l]
    BY <1>1, <1>6, <2>1
  <2>3. CASE k = n
    BY <1>1, <2>2, <2>3
  <2>4. CASE k # n
    <3>1. k \in Talk(q) /\ r[k] = q[k]
      BY <1>1, <2>4
    <3>2. j # n
      BY <1>1, <1>6, <3>1
    <3> QED BY <1>1, <1>6, <2>1, <2>2, <3>1, <3>2 DEF InOneOrder
  <2> QED BY <2>3, <2>4
<1> QED BY <1>4, <1>5, <1>6 DEF InOneOrder, r

-----------------------------------------------------------------------------
(* Types. *)

LEMMA ServingsAre ==
  /\ \A s \in Servings : s.at \in Stages /\ s.line \in Lines /\ s.left \in SUBSET Conns
  /\ \A stage \in Stages, line \in Lines, left \in SUBSET Conns :
       [at |-> stage, line |-> line, left |-> left] \in Servings
BY DEF Servings

(* What becomes of the task of the connection that acts.                   *)
Becomes(c, stage, line, left) ==
  /\ serving' \in [Conns -> Servings]
  /\ serving'[c].at = stage /\ serving'[c].line = line /\ serving'[c].left = left
  /\ \A d \in Conns \ {c} : serving'[d] = serving[d]

LEMMA ServingBecomes ==
  ASSUME ChatTyped, NEW c \in Conns, NEW stage \in Stages, NEW line \in Lines,
         NEW left \in SUBSET Conns
  PROVE  /\ serving' = [serving EXCEPT ![c].at = stage] =>
              Becomes(c, stage, serving[c].line, serving[c].left)
         /\ serving' = [serving EXCEPT ![c].line = line, ![c].at = stage] =>
              Becomes(c, stage, line, serving[c].left)
         /\ serving' = [serving EXCEPT ![c].left = left, ![c].at = stage] =>
              Becomes(c, stage, serving[c].line, left)
<1>1. serving \in [Conns -> Servings] /\ serving[c] \in Servings
  BY DEF ChatTyped
<1> HIDE DEF ChatTyped
<1>2. ASSUME serving' = [serving EXCEPT ![c].at = stage]
      PROVE  Becomes(c, stage, serving[c].line, serving[c].left)
  BY <1>1, <1>2 DEF Becomes, Servings
<1>3. ASSUME serving' = [serving EXCEPT ![c].line = line, ![c].at = stage]
      PROVE  Becomes(c, stage, line, serving[c].left)
  BY <1>1, <1>3 DEF Becomes, Servings
<1>4. ASSUME serving' = [serving EXCEPT ![c].left = left, ![c].at = stage]
      PROVE  Becomes(c, stage, serving[c].line, left)
  BY <1>1, <1>4 DEF Becomes, Servings
<1> QED BY <1>2, <1>3, <1>4

(* One entry of a function replaced.                                       *)
LEMMA ExceptOne ==
  ASSUME NEW S, NEW f \in [Conns -> S], NEW c \in Conns, NEW v \in S
  PROVE  /\ [f EXCEPT ![c] = v] \in [Conns -> S] /\ [f EXCEPT ![c] = v][c] = v
         /\ \A d \in Conns \ {c} : [f EXCEPT ![c] = v][d] = f[d]
OBVIOUS

LEMMA ChatInitIsTyped ==
  ASSUME ChatInit
  PROVE  ChatTyped /\ \A c \in Conns : Talk(screen[c]) = {} /\ Talk(inbound[c]) = {}
<1>1. \A verb \in Verbs, arg \in Args : Line(verb, arg) \in Lines
  BY LinesNotSaid
<1>2. ASSUME NEW c \in Conns
      PROVE  /\ Opening(c) \in Seq(Lines) /\ Talk(Opening(c)) = {}
  <2>1. /\ Line("HELLO", "") \in Lines /\ Line("HELLO", "").verb # "PRIVMSG"
        /\ Line("NICK", c) \in Lines /\ Line("NICK", c).verb # "PRIVMSG"
        /\ Line("USER", c) \in Lines /\ Line("USER", c).verb # "PRIVMSG"
    BY LinesNotSaid DEF Verbs, Args
  <2>2. ASSUME NEW x \in Lines, NEW y \in Lines, NEW z \in Lines, x.verb # "PRIVMSG",
               y.verb # "PRIVMSG", z.verb # "PRIVMSG"
        PROVE  <<x, y, z>> \in Seq(Lines) /\ Talk(<<x, y, z>>) = {}
    BY <2>2 DEF Talk
  <2> QED BY <2>1, <2>2 DEF Opening
<1>3. <<>> \in Seq(Lines) /\ Talk(<<>>) = {}
  BY DEF Talk
<1>4. inbound \in [Conns -> Seq(Lines)] /\ \A c \in Conns : Talk(inbound[c]) = {}
  BY <1>2, <1>3 DEF ChatInit
<1>5. Blank \in Dialects
       /\ \A c \in Conns :
            [nick |-> c, registered |-> TRUE, channels |-> Channels, quit |-> FALSE] \in Dialects
  BY DEF Blank, Dialects, Args
<1>6. sessions \in [Conns -> Dialects]
  BY <1>5 DEF ChatInit
<1>7. Reading \in Servings
  <2>1. Line("", "") \in Lines
    BY <1>1 DEF Verbs, Args
  <2> QED BY <2>1 DEF Reading, Servings, Stages
<1>8. serving \in [Conns -> Servings]
  BY <1>7 DEF ChatInit
<1>9. DOMAIN members \subseteq Conns /\ lock \in Conns \cup {Nobody}
  BY ChatAssumption DEF ChatInit
<1>10. ASSUME NEW c \in Conns
       PROVE  screen[c] \in Seq(Lines) /\ Talk(screen[c]) = {}
  <2>1. CASE c \notin Settled
    BY <1>3, <2>1 DEF ChatInit
  <2>2. CASE c \in Settled
    <3> DEFINE joins == {Line("JOIN", ch) : ch \in Channels}
               answers == SetToSeq(joins)
    <3>1. screen[c] = <<Line("001", c)>> \o answers
      BY <2>2 DEF ChatInit
    <3>2. /\ joins \subseteq Lines /\ \A x \in joins : x.verb # "PRIVMSG"
          /\ Line("001", c) \in Lines /\ Line("001", c).verb # "PRIVMSG"
      <4>1. \A verb \in {"JOIN", "001"}, arg \in Conns \cup Channels :
               Line(verb, arg) \in Lines /\ Line(verb, arg).verb # "PRIVMSG"
        <5>1. {"JOIN", "001"} \subseteq Verbs /\ Conns \cup Channels \subseteq Args
          BY DEF Verbs, Args
        <5> QED BY <5>1, LinesNotSaid
      <4> QED BY <4>1
    <3>3. answers \in Seq(joins)
      <4>1. [ch \in Channels |-> Line("JOIN", ch)] \in Surjection(Channels, joins)
        BY DEF Surjection
      <4>2. IsFiniteSet(joins)
        BY <4>1, ChatAssumption, FS_Surjection
      <4>3. Cardinality(joins) \in Nat /\ ExistsBijection(1 .. Cardinality(joins), joins)
        BY <4>2, FS_CardinalityType
      <4>4. \E f \in [1 .. Cardinality(joins) -> joins] : IsInjective(f)
        BY <4>3 DEF ExistsBijection, Bijection, Injection
      <4>5. answers \in [1 .. Cardinality(joins) -> joins]
        BY <4>4 DEF SetToSeq
      <4> HIDE DEF joins, answers
      <4> QED BY <4>3, <4>5, SeqDef
    <3> HIDE DEF joins, answers
    <3>4. answers \in Seq(Lines)
      BY <3>2, <3>3, SeqMonotonic
    <3>5. \A i \in 1 .. Len(answers) : answers[i] \in joins
      BY <3>3, ElementOfSeq
    <3>6. Talk(answers) = {}
      BY <3>2, <3>5 DEF Talk
    <3>7. <<Line("001", c)>> \in Seq(Lines) /\ Talk(<<Line("001", c)>>) = {}
      BY <3>2 DEF Talk
    <3>8. screen[c] \in Seq(Lines)
      BY <3>1, <3>4, <3>7, ConcatProperties
    <3>9. \A i \in Talk(screen[c]) : i \in Talk(<<Line("001", c)>>)
      BY <3>1, <3>4, <3>6, <3>7, TalkOfConcat
    <3> QED BY <3>7, <3>8, <3>9
  <2> QED BY <2>1, <2>2
<1>11. screen \in [Conns -> Seq(Lines)]
  BY <1>10 DEF ChatInit
<1>12. /\ open \in [Conns -> BOOLEAN] /\ writers \in [Conns -> Seq(Lines)]
       /\ sent \in [Conns -> Nat] /\ commands \in Seq(Lines)
  BY <1>3 DEF ChatInit
<1> QED BY <1>4, <1>6, <1>8, <1>9, <1>10, <1>11, <1>12 DEF ChatTyped

LEMMA InitHasOneOrder == ChatInit => ChatInv
<1> SUFFICES ASSUME ChatInit PROVE ChatInv
  OBVIOUS
<1>1. ChatTyped /\ \A c \in Conns : Talk(screen[c]) = {} /\ Talk(inbound[c]) = {}
  BY ChatInitIsTyped
<1>2. \A c \in Conns : serving[c].at = "reading"
  BY DEF ChatInit, Reading
<1>3. \A d \in Conns : Talk(Hearing(d)) = {}
  <2> SUFFICES ASSUME NEW d \in Conns PROVE Talk(Hearing(d)) = {}
    OBVIOUS
  <2>1. Hearing(d) = screen[d] \o <<>>
    BY DEF Hearing, ChatInit
  <2>2. screen[d] \o <<>> = screen[d]
    BY <1>1, ConcatEmptySeq DEF ChatTyped
  <2> QED BY <1>1, <2>1, <2>2
<1>4. Locked
  BY <1>2 DEF Locked, ChatInit
<1>5. \A c \in Conns : InboundNumbered(c) /\ InHandNumbered(c)
  BY <1>1, <1>2 DEF InboundNumbered, InHandNumbered
<1>6. \A c, d \in Conns : InOneOrder(Hearing(c), Hearing(d))
  BY <1>3 DEF InOneOrder
<1> QED BY <1>1, <1>3, <1>4, <1>5, <1>6 DEF ChatInv

-----------------------------------------------------------------------------
(* Steps in which nothing is said. *)

(* A line that somebody hears was said by a connection.                    *)
LEMMA HeardIsSpoken ==
  ASSUME ChatTyped, NEW d \in Conns
  PROVE  /\ Hearing(d) \in Seq(Lines)
         /\ \A i \in Talk(Hearing(d)) :
              /\ Hearing(d)[i] \in Spoken /\ Hearing(d)[i].from \in Conns
              /\ Hearing(d)[i].n \in Nat
<1>1. screen[d] \in Seq(Lines) /\ writers[d] \in Seq(Lines)
  BY DEF ChatTyped
<1>2. Hearing(d) \in Seq(Lines)
  BY <1>1, ConcatProperties DEF Hearing
<1>3. \A i \in Talk(Hearing(d)) : Hearing(d)[i] \in Lines /\ Hearing(d)[i].verb = "PRIVMSG"
  BY <1>2, ElementOfSeq DEF Talk
<1> QED BY <1>2, <1>3, LinesSaid

LEMMA QuietStep ==
  ASSUME ChatInv, ChatTyped', Locked', NEW c \in Conns,
         \A d \in Conns \ {c} : /\ inbound'[d] = inbound[d] /\ serving'[d] = serving[d]
                                /\ sent'[d] = sent[d],
         \A d \in Conns : NoTalk(Hearing(d), Hearing(d)'),
         InboundNumbered(c)', InHandNumbered(c)',
         \A x \in Spoken : x.from = c /\ SentEarlier(x) => SentEarlier(x)',
         serving'[c].at = "sending" =>
           \/ /\ serving[c].at = "sending" /\ serving'[c].line = serving[c].line
              /\ serving'[c].left \subseteq serving[c].left
           \/ \A x \in Spoken : x.from = c /\ SentEarlier(x) => x.n < serving'[c].line.n
  PROVE  ChatInv'
<1>1. ChatTyped
  BY DEF ChatInv
<1>2. ASSUME NEW d \in Conns PROVE (InboundNumbered(d) /\ InHandNumbered(d))'
  <2>1. CASE d = c
    BY <2>1
  <2>2. CASE d # c
    BY <2>2 DEF ChatInv, InboundNumbered, InHandNumbered
  <2> QED BY <2>1, <2>2
<1>3. ASSUME NEW d \in Conns, NEW i \in Talk(Hearing(d)')
      PROVE  (SentEarlier(Hearing(d)[i]) /\ BeingSaid(Hearing(d), d, i))'
  <2> DEFINE p == Hearing(d)
             q == Hearing(d)'
  <2> PICK x : x = p[i]
    OBVIOUS
  <2>1. NoTalk(p, q)
    OBVIOUS
  <2>2. i \in Talk(p) /\ q[i] = x /\ \A j \in Talk(q) : j \in Talk(p)
    BY <2>1 DEF NoTalk
  <2>3. x \in Spoken /\ x.from \in Conns
    BY <1>1, <2>2, HeardIsSpoken
  <2>4. SentEarlier(x) /\ BeingSaid(p, d, i)
    BY <2>2 DEF ChatInv
  <2>5. SentEarlier(x)'
    <3>1. CASE x.from = c
      BY <2>3, <2>4, <3>1
    <3>2. CASE x.from # c
      BY <2>3, <2>4, <3>2 DEF SentEarlier
    <3> QED BY <3>1, <3>2
  <2> HIDE DEF p, q
  <2>6. \/ x.n < serving[x.from].line.n
        \/ x = serving[x.from].line /\ d \notin serving[x.from].left /\ \A j \in Talk(p) : j <= i
        \/ serving[x.from].at # "sending"
    BY <2>2, <2>4 DEF BeingSaid
  <2>7. \/ x.n < serving'[x.from].line.n
        \/ x = serving'[x.from].line /\ d \notin serving'[x.from].left
             /\ \A j \in Talk(q) : j <= i
        \/ serving'[x.from].at # "sending"
    <3>1. CASE x.from # c
      BY <2>2, <2>3, <2>6, <3>1
    <3>2. CASE x.from = c
      BY <2>2, <2>3, <2>4, <2>6, <3>2
    <3> QED BY <3>1, <3>2
  <2>8. (Hearing(d)[i])' = x
    BY <2>2 DEF q
  <2> QED BY <2>5, <2>7, <2>8 DEF SentEarlier, BeingSaid, q
<1>4. ASSUME NEW d \in Conns, NEW e \in Conns PROVE InOneOrder(Hearing(d), Hearing(e))'
  <2>1. InOneOrder(Hearing(d), Hearing(e))
    BY DEF ChatInv
  <2>2. InOneOrder(Hearing(d)', Hearing(e)')
    BY <2>1, QuietKeepsOrder
  <2> QED BY <2>2
<1> QED BY <1>2, <1>3, <1>4 DEF ChatInv

LEMMA QuietConcat ==
  ASSUME NEW p \in Seq(Lines), NEW q \in Seq(Lines), NEW more \in Seq(Lines), Talk(more) = {}
  PROVE  NoTalk(p \o q, p \o (q \o more))
<1>1. PICK pq : pq = p \o q
  OBVIOUS
<1>2. pq \in Seq(Lines) /\ p \o (q \o more) = pq \o more
  BY <1>1, ConcatProperties, ConcatAssociative
<1>3. NoTalk(pq, pq \o more)
  BY <1>2, TalkOfConcat DEF NoTalk
<1> QED BY <1>1, <1>2, <1>3

LEMMA AnswersAreQuiet ==
  ASSUME ChatTyped, UNCHANGED screen, NEW c \in Conns, NEW more \in Seq(Lines),
         Talk(more) = {}, writers' = [writers EXCEPT ![c] = writers[c] \o more]
  PROVE  /\ writers' \in [Conns -> Seq(Lines)]
         /\ \A d \in Conns : NoTalk(Hearing(d), Hearing(d)')
<1>1. writers \in [Conns -> Seq(Lines)] /\ screen \in [Conns -> Seq(Lines)]
  BY DEF ChatTyped
<1>2. writers[c] \o more \in Seq(Lines)
  BY <1>1, ConcatProperties
<1>3. /\ writers' \in [Conns -> Seq(Lines)] /\ writers'[c] = writers[c] \o more
      /\ \A d \in Conns \ {c} : writers'[d] = writers[d]
  BY <1>1, <1>2
<1>4. ASSUME NEW d \in Conns PROVE NoTalk(Hearing(d), Hearing(d)')
  <2>1. Hearing(d)' = screen[d] \o writers'[d]
    BY DEF Hearing
  <2>2. CASE d # c
    BY <1>3, <2>1, <2>2 DEF NoTalk, Hearing
  <2>3. CASE d = c
    <3>1. screen[c] \in Seq(Lines) /\ writers[c] \in Seq(Lines)
      BY <1>1
    <3>2. NoTalk(screen[c] \o writers[c], screen[c] \o (writers[c] \o more))
      BY <3>1, QuietConcat
    <3>3. /\ Hearing(d)' = screen[c] \o (writers[c] \o more)
          /\ Hearing(d) = screen[c] \o writers[c]
      BY <1>3, <2>1, <2>3 DEF Hearing
    <3> QED BY <3>2, <3>3
  <2> QED BY <2>2, <2>3
<1> QED BY <1>3, <1>4

LEMMA SilenceIsQuiet ==
  ASSUME UNCHANGED <<screen, writers>>
  PROVE  \A d \in Conns : NoTalk(Hearing(d), Hearing(d)')
BY DEF Hearing, NoTalk

LEMMA LockStays ==
  ASSUME Locked, NEW c \in Conns, serving[c].at # "sending", serving'[c].at # "sending",
         \A d \in Conns \ {c} : serving'[d] = serving[d], lock \in Conns \cup {Nobody},
         lock' = lock
  PROVE  Locked'
BY DEF Locked

(* The line that is read next was sent before those that follow it.        *)
LEMMA HeadIsNumbered ==
  ASSUME ChatInv, NEW c \in Conns, inbound[c] # <<>>
  PROVE  LET line == Head(inbound[c])
             rest == Tail(inbound[c])
         IN  /\ line \in Lines /\ rest \in Seq(Lines)
             /\ line.verb = "PRIVMSG" =>
                  /\ line.from = c /\ line.n < sent[c]
                  /\ \A i \in Talk(rest) : line.n < rest[i].n
             /\ \A i \in Talk(rest) :
                  /\ rest[i].from = c /\ rest[i].n < sent[c]
                  /\ \A j \in Talk(rest) : j < i => rest[j].n < rest[i].n
             /\ \A m \in Nat : (\A i \in Talk(inbound[c]) : m < inbound[c][i].n) =>
                  /\ line.verb = "PRIVMSG" => m < line.n
                  /\ \A i \in Talk(rest) : m < rest[i].n
<1> DEFINE q == inbound[c]
           line == Head(q)
           rest == Tail(q)
<1>1. q \in Seq(Lines) /\ q # <<>> /\ InboundNumbered(c)
  BY DEF ChatInv, ChatTyped
<1> HIDE DEF q
<1>2. /\ line \in Lines /\ rest \in Seq(Lines) /\ line = q[1] /\ 1 \in 1 .. Len(q)
      /\ \A i \in Talk(rest) : i \in Nat \ {0} /\ i + 1 \in Talk(q) /\ rest[i] = q[i + 1]
  BY <1>1, TalkOfTail
<1>3. line.verb = "PRIVMSG" => 1 \in Talk(q)
  BY <1>2 DEF Talk
<1>4. \A i \in Talk(q) : /\ q[i].from = c /\ q[i].n < sent[c]
                         /\ \A j \in Talk(q) : j < i => q[j].n < q[i].n
  BY <1>1 DEF InboundNumbered, q
<1> HIDE DEF line, rest
<1>5. ASSUME line.verb = "PRIVMSG"
      PROVE  /\ line.from = c /\ line.n < sent[c]
             /\ \A i \in Talk(rest) : line.n < rest[i].n
  <2>1. \A i \in Talk(rest) : 1 < i + 1
    BY <1>2
  <2> QED BY <1>2, <1>3, <1>4, <1>5, <2>1
<1>6. \A i, j \in Talk(rest) : j < i => j + 1 < i + 1
  BY <1>2
<1>7. \A i \in Talk(rest) :
         /\ rest[i].from = c /\ rest[i].n < sent[c]
         /\ \A j \in Talk(rest) : j < i => rest[j].n < rest[i].n
  BY <1>2, <1>4, <1>6
<1>8. \A m \in Nat : (\A i \in Talk(q) : m < q[i].n) =>
         /\ line.verb = "PRIVMSG" => m < line.n
         /\ \A i \in Talk(rest) : m < rest[i].n
  BY <1>2, <1>3
<1> QED BY <1>2, <1>5, <1>7, <1>8 DEF q, line, rest

LEMMA ReadQuiet ==
  ASSUME ChatInv, NEW c \in Conns, Read(c)
  PROVE  ChatInv'
<1> DEFINE line == Head(inbound[c])
           rest == Tail(inbound[c])
           answer == replies(sessions[c], line)
           stage == IF sessions'[c].registered THEN "enrolling" ELSE Onward(c)
<1>1. /\ serving[c].at = "reading" /\ inbound[c] # <<>>
      /\ inbound' = [inbound EXCEPT ![c] = rest]
      /\ sessions' = [sessions EXCEPT ![c] = handle(sessions[c], line)]
      /\ writers' = [writers EXCEPT ![c] = writers[c] \o answer]
      /\ serving' = [serving EXCEPT ![c].line = line, ![c].at = stage]
      /\ UNCHANGED <<open, members, lock, screen, sent, commands>>
  BY DEF Read
<1>2. /\ ChatTyped /\ Locked /\ inbound \in [Conns -> Seq(Lines)]
      /\ sessions \in [Conns -> Dialects] /\ serving[c].left \in SUBSET Conns
  BY ServingsAre DEF ChatInv, ChatTyped
<1>3. /\ line \in Lines /\ rest \in Seq(Lines)
      /\ line.verb = "PRIVMSG" =>
           /\ line.from = c /\ line.n < sent[c]
           /\ \A i \in Talk(rest) : line.n < rest[i].n
      /\ \A i \in Talk(rest) :
           /\ rest[i].from = c /\ rest[i].n < sent[c]
           /\ \A j \in Talk(rest) : j < i => rest[j].n < rest[i].n
      /\ \A m \in Nat : (\A i \in Talk(inbound[c]) : m < inbound[c][i].n) =>
           /\ line.verb = "PRIVMSG" => m < line.n
           /\ \A i \in Talk(rest) : m < rest[i].n
  BY <1>1, HeadIsNumbered
<1>4. handle(sessions[c], line) \in Dialects /\ answer \in Seq(Lines) /\ Talk(answer) = {}
  BY <1>2, <1>3, HandleIsTyped
<1>5. stage \in {"enrolling", "leaving", "reading"}
  BY DEF Onward
<1> HIDE DEF line, rest, answer, stage
<1>6. Becomes(c, stage, line, serving[c].left)
  <2>1. stage \in Stages
    BY <1>5 DEF Stages
  <2> QED BY <1>1, <1>2, <1>3, <2>1, ServingBecomes
<1>7. /\ inbound' \in [Conns -> Seq(Lines)] /\ inbound'[c] = rest
      /\ \A d \in Conns \ {c} : inbound'[d] = inbound[d]
  BY <1>1, <1>2, <1>3
<1>8. writers' \in [Conns -> Seq(Lines)] /\ \A d \in Conns : NoTalk(Hearing(d), Hearing(d)')
  BY <1>1, <1>2, <1>4, AnswersAreQuiet
<1>9. ChatTyped'
  BY <1>1, <1>2, <1>4, <1>6, <1>7, <1>8 DEF ChatTyped, Becomes
<1>10. Locked'
  BY <1>1, <1>2, <1>5, <1>6, LockStays DEF Becomes, ChatTyped
<1>11. InboundNumbered(c)' /\ InHandNumbered(c)'
  BY <1>1, <1>3, <1>5, <1>6, <1>7 DEF Becomes, InboundNumbered, InHandNumbered
<1>12. \A x \in Spoken : x.from = c /\ SentEarlier(x) => SentEarlier(x)'
  <2> SUFFICES ASSUME NEW x \in Spoken, x.from = c, SentEarlier(x) PROVE SentEarlier(x)'
    OBVIOUS
  <2>1. x.n \in Nat
    BY DEF Spoken
  <2>2. /\ x.n < sent[c] /\ \A i \in Talk(rest) : x.n < rest[i].n
        /\ line.verb = "PRIVMSG" => x.n < line.n
    BY <1>3, <2>1 DEF SentEarlier
  <2> QED BY <1>1, <1>6, <1>7, <2>2 DEF Becomes, SentEarlier
<1> QED BY <1>1, <1>5, <1>6, <1>7, <1>8, <1>9, <1>10, <1>11, <1>12, QuietStep DEF Becomes

(* Steps of a connection that read and send nothing.                       *)
LEMMA NumbersStay ==
  ASSUME ChatInv, NEW c \in Conns, UNCHANGED <<inbound, sent>>,
         serving'[c].line = serving[c].line,
         \/ serving'[c].at \in {"reading", "leaving", "gone"}
         \/ /\ serving'[c].at = serving[c].at
         \/ /\ serving[c].at \in {"enrolling", "relaying"}
            /\ serving'[c].at \in {"relaying", "sending"} /\ serving[c].line.verb = "PRIVMSG"
  PROVE  /\ InboundNumbered(c)' /\ InHandNumbered(c)'
         /\ \A x \in Spoken : x.from = c /\ SentEarlier(x) => SentEarlier(x)'
<1>1. InboundNumbered(c) /\ InHandNumbered(c)
  BY DEF ChatInv
<1>2. InboundNumbered(c)' /\ InHandNumbered(c)'
  BY <1>1 DEF InboundNumbered, InHandNumbered
<1>3. \A x \in Spoken : x.from = c /\ SentEarlier(x) => SentEarlier(x)'
  <2> SUFFICES ASSUME NEW x \in Spoken, x.from = c, SentEarlier(x) PROVE SentEarlier(x)'
    OBVIOUS
  <2> QED BY DEF SentEarlier
<1> QED BY <1>2, <1>3

LEMMA EnrolQuiet ==
  ASSUME ChatInv, NEW c \in Conns, Enrol(c)
  PROVE  ChatInv'
<1> DEFINE line == serving[c].line
           stage == IF line.verb = "PRIVMSG" THEN "relaying"
                 ELSE IF sessions[c].quit THEN "leaving" ELSE "reading"
<1>1. /\ serving[c].at = "enrolling"
      /\ DOMAIN members' = DOMAIN members \cup {c}
      /\ serving' = [serving EXCEPT ![c].at = stage]
      /\ UNCHANGED <<open, inbound, sessions, lock, screen, sent>>
      /\ \/ /\ line.verb = "SLASH" /\ commands' = commands \o run_command(line)
            /\ writers' = [writers EXCEPT ![c] = Append(@, Notice(line))]
         \/ UNCHANGED <<commands, writers>>
  BY DEF Enrol
<1>2. /\ ChatTyped /\ Locked /\ line \in Lines /\ serving[c].left \in SUBSET Conns
      /\ commands \in Seq(Lines) /\ writers \in [Conns -> Seq(Lines)]
  BY ServingsAre DEF ChatInv, ChatTyped
<1>3. Notice(line) \in Lines /\ Notice(line).verb = "NOTICE"
  <2>1. "NOTICE" \in Verbs /\ "no such item" \in Args /\ "queued" \in Args
    BY DEF Verbs, Args
  <2>2. (IF line.item \in Typos THEN "no such item" ELSE "queued") \in Args
    BY <2>1
  <2> QED BY <2>1, <2>2, LinesNotSaid DEF Notice
<1>4. commands \o run_command(line) \in Seq(Lines)
  BY <1>2 DEF run_command
<1>5. stage \in {"relaying", "leaving", "reading"} /\ (stage = "relaying" => line.verb = "PRIVMSG")
  OBVIOUS
<1> HIDE DEF stage
<1>6. Becomes(c, stage, line, serving[c].left)
  <2>1. stage \in Stages
    BY <1>5 DEF Stages
  <2> QED BY <1>1, <1>2, <2>1, ServingBecomes
<1> HIDE DEF line
<1>7. writers' \in [Conns -> Seq(Lines)] /\ \A d \in Conns : NoTalk(Hearing(d), Hearing(d)')
  <2>1. CASE writers' = [writers EXCEPT ![c] = Append(@, Notice(line))]
    <3>1. <<Notice(line)>> \in Seq(Lines) /\ Talk(<<Notice(line)>>) = {}
      BY <1>3 DEF Talk
    <3>2. writers[c] \in Seq(Lines)
      BY <1>2
    <3>3. writers' = [writers EXCEPT ![c] = writers[c] \o <<Notice(line)>>]
      BY <1>3, <2>1, <3>2, AppendIsConcat
    <3> QED BY <1>1, <1>2, <3>1, <3>3, AnswersAreQuiet
  <2>2. CASE UNCHANGED writers
    BY <1>1, <1>2, <2>2, SilenceIsQuiet
  <2> QED BY <1>1, <2>1, <2>2
<1>8. ChatTyped'
  BY <1>1, <1>2, <1>4, <1>6, <1>7 DEF ChatTyped, Becomes
<1>9. Locked'
  BY <1>1, <1>2, <1>5, <1>6, LockStays DEF Becomes, ChatTyped
<1>10. /\ InboundNumbered(c)' /\ InHandNumbered(c)'
       /\ \A x \in Spoken : x.from = c /\ SentEarlier(x) => SentEarlier(x)'
  BY <1>1, <1>5, <1>6, NumbersStay DEF Becomes, line
<1> QED BY <1>1, <1>5, <1>6, <1>7, <1>8, <1>9, <1>10, QuietStep DEF Becomes

LEMMA BeginRelayQuiet ==
  ASSUME ChatInv, NEW c \in Conns, BeginRelay(c)
  PROVE  ChatInv'
<1> DEFINE left == Recipients(c)
           stage == IF left = {} THEN "reading" ELSE "sending"
<1>1. /\ serving[c].at = "relaying" /\ lock = Nobody /\ lock' = Holding(c, left)
      /\ serving' = [serving EXCEPT ![c].left = left, ![c].at = stage]
      /\ UNCHANGED <<open, inbound, sessions, members, writers, screen, sent, commands>>
  BY DEF BeginRelay
<1>2. ChatTyped /\ Locked /\ serving[c].line \in Lines /\ Nobody \notin Conns
  BY ServingsAre, ChatAssumption DEF ChatInv, ChatTyped
<1>3. left \in SUBSET Conns
  BY <1>2 DEF Recipients, ChatTyped
<1> HIDE DEF left
<1>4. Becomes(c, stage, serving[c].line, left)
  <2>1. stage \in Stages
    BY DEF Stages
  <2> HIDE DEF stage
  <2> QED BY <1>1, <1>2, <1>3, <2>1, ServingBecomes
<1>5. ChatTyped'
  BY <1>1, <1>2, <1>4 DEF ChatTyped, Becomes, Holding
<1>6. Locked'
  BY <1>1, <1>2, <1>4 DEF Locked, Becomes, Holding
<1>7. serving[c].line.verb = "PRIVMSG"
  BY <1>1 DEF ChatInv, InHandNumbered
<1>8. /\ InboundNumbered(c)' /\ InHandNumbered(c)'
      /\ \A x \in Spoken : x.from = c /\ SentEarlier(x) => SentEarlier(x)'
  BY <1>1, <1>4, <1>7, NumbersStay DEF Becomes
<1>9. \A x \in Spoken : x.from = c /\ SentEarlier(x) => x.n < serving'[c].line.n
  BY <1>1, <1>4, <1>7 DEF SentEarlier, Becomes
<1> QED BY <1>1, <1>4, <1>5, <1>6, <1>8, <1>9, SilenceIsQuiet, QuietStep DEF Becomes

LEMMA EndOfLinesQuiet ==
  ASSUME ChatInv, NEW c \in Conns, EndOfLines(c)
  PROVE  ChatInv'
<1>1. /\ serving[c].at = "reading" /\ inbound' = [inbound EXCEPT ![c] = <<>>]
      /\ serving' = [serving EXCEPT ![c].at = "leaving"]
      /\ UNCHANGED <<open, sessions, members, lock, writers, screen, sent, commands>>
  BY DEF EndOfLines
<1>2. /\ ChatTyped /\ Locked /\ serving[c].line \in Lines /\ serving[c].left \in SUBSET Conns
      /\ inbound \in [Conns -> Seq(Lines)]
  BY ServingsAre DEF ChatInv, ChatTyped
<1>3. Becomes(c, "leaving", serving[c].line, serving[c].left)
  BY <1>1, <1>2, ServingBecomes DEF Stages
<1>4. /\ inbound' \in [Conns -> Seq(Lines)] /\ Talk(inbound'[c]) = {}
      /\ \A d \in Conns \ {c} : inbound'[d] = inbound[d]
  BY <1>1, <1>2 DEF Talk
<1>5. ChatTyped'
  BY <1>1, <1>2, <1>3, <1>4 DEF ChatTyped, Becomes
<1>6. Locked'
  BY <1>1, <1>2, <1>3, LockStays DEF Becomes, ChatTyped
<1>7. InboundNumbered(c)' /\ InHandNumbered(c)'
  BY <1>3, <1>4 DEF InboundNumbered, InHandNumbered, Becomes
<1>8. \A x \in Spoken : x.from = c /\ SentEarlier(x) => SentEarlier(x)'
  BY <1>1, <1>3, <1>4 DEF SentEarlier, Becomes
<1> QED BY <1>1, <1>3, <1>4, <1>5, <1>6, <1>7, <1>8, SilenceIsQuiet, QuietStep DEF Becomes

LEMMA GoneQuiet ==
  ASSUME ChatInv, NEW c \in Conns, Gone(c)
  PROVE  ChatInv'
<1>1. /\ serving[c].at = "leaving" /\ DOMAIN members' \subseteq DOMAIN members
      /\ writers' = [writers EXCEPT ![c] = <<>>] /\ open' = [open EXCEPT ![c] = FALSE]
      /\ serving' = [serving EXCEPT ![c].at = "gone"]
      /\ UNCHANGED <<inbound, sessions, lock, screen, sent, commands>>
  BY DEF Gone
<1>2. /\ ChatTyped /\ Locked /\ serving[c].line \in Lines /\ serving[c].left \in SUBSET Conns
      /\ writers \in [Conns -> Seq(Lines)] /\ screen \in [Conns -> Seq(Lines)]
      /\ open \in [Conns -> BOOLEAN]
  BY ServingsAre DEF ChatInv, ChatTyped
<1>3. Becomes(c, "gone", serving[c].line, serving[c].left)
  BY <1>1, <1>2, ServingBecomes DEF Stages
<1>4. /\ writers' \in [Conns -> Seq(Lines)] /\ writers'[c] = <<>>
      /\ \A d \in Conns \ {c} : writers'[d] = writers[d]
      /\ open' \in [Conns -> BOOLEAN]
  BY <1>1, <1>2
<1>5. ASSUME NEW d \in Conns PROVE NoTalk(Hearing(d), Hearing(d)')
  <2>1. Hearing(d)' = screen[d] \o writers'[d]
    BY <1>1 DEF Hearing
  <2>2. CASE d # c
    BY <1>4, <2>1, <2>2 DEF NoTalk, Hearing
  <2>3. CASE d = c
    <3>1. ASSUME NEW p \in Seq(Lines), NEW q \in Seq(Lines) PROVE NoTalk(p \o q, p \o <<>>)
      <4>1. p \o <<>> = p
        BY ConcatEmptySeq
      <4>2. /\ Len(p \o q) = Len(p) + Len(q) /\ Len(p) \in Nat /\ Len(q) \in Nat
            /\ \A i \in 1 .. Len(p) + Len(q) :
                 (p \o q)[i] = IF i <= Len(p) THEN p[i] ELSE q[i - Len(p)]
        BY ConcatProperties, LenProperties
      <4> QED BY <4>1, <4>2 DEF NoTalk, Talk
    <3>2. screen[c] \in Seq(Lines) /\ writers[c] \in Seq(Lines)
      BY <1>2
    <3>3. NoTalk(screen[c] \o writers[c], screen[c] \o <<>>)
      BY <3>1, <3>2
    <3> QED BY <1>4, <2>1, <2>3, <3>3 DEF Hearing
  <2> QED BY <2>2, <2>3
<1>6. ChatTyped'
  BY <1>1, <1>2, <1>3, <1>4 DEF ChatTyped, Becomes
<1>7. Locked'
  BY <1>1, <1>2, <1>3, LockStays DEF Becomes, ChatTyped
<1>8. /\ InboundNumbered(c)' /\ InHandNumbered(c)'
      /\ \A x \in Spoken : x.from = c /\ SentEarlier(x) => SentEarlier(x)'
  BY <1>1, <1>3, NumbersStay DEF Becomes
<1> QED BY <1>1, <1>3, <1>5, <1>6, <1>7, <1>8, QuietStep DEF Becomes

LEMMA WriteLineQuiet ==
  ASSUME ChatInv, NEW c \in Conns, WriteLine(c)
  PROVE  ChatInv'
<1>1. /\ writers[c] # <<>>
      /\ screen' = [screen EXCEPT ![c] = Append(screen[c], Head(writers[c]))]
      /\ writers' = [writers EXCEPT ![c] = Tail(writers[c])]
      /\ UNCHANGED <<open, inbound, sessions, serving, members, lock, sent, commands>>
  BY DEF WriteLine
<1>2. /\ ChatTyped /\ Locked
      /\ writers \in [Conns -> Seq(Lines)] /\ screen \in [Conns -> Seq(Lines)]
  BY DEF ChatInv, ChatTyped
<1>3. /\ screen[c] \in Seq(Lines) /\ writers[c] \in Seq(Lines)
      /\ Append(screen[c], Head(writers[c])) \in Seq(Lines) /\ Tail(writers[c]) \in Seq(Lines)
  BY <1>1, <1>2, HeadTailProperties, AppendProperties
<1>4. /\ screen' \in [Conns -> Seq(Lines)] /\ writers' \in [Conns -> Seq(Lines)]
      /\ screen'[c] = Append(screen[c], Head(writers[c])) /\ writers'[c] = Tail(writers[c])
      /\ \A d \in Conns \ {c} : screen'[d] = screen[d] /\ writers'[d] = writers[d]
  BY <1>1, <1>2, <1>3
<1>5. ASSUME NEW d \in Conns PROVE Hearing(d)' = Hearing(d)
  <2>1. CASE d = c
    BY <1>1, <1>3, <1>4, <2>1, WritingKeepsHearing DEF Hearing
  <2>2. CASE d # c
    BY <1>4, <2>2 DEF Hearing
  <2> QED BY <2>1, <2>2
<1>6. \A d \in Conns : NoTalk(Hearing(d), Hearing(d)')
  BY <1>5 DEF NoTalk
<1>7. ChatTyped' /\ Locked'
  BY <1>1, <1>2, <1>4 DEF ChatTyped, Locked
<1>8. /\ InboundNumbered(c)' /\ InHandNumbered(c)'
      /\ \A x \in Spoken : x.from = c /\ SentEarlier(x) => SentEarlier(x)'
  BY <1>1, NumbersStay
<1> QED BY <1>1, <1>6, <1>7, <1>8, QuietStep

(* The client numbers what it says.                                        *)
LEMMA SendLineQuiet ==
  ASSUME ChatInv, NEW c \in Conns, SendLine(c)
  PROVE  ChatInv'
<1>1. PICK line : /\ inbound' = [inbound EXCEPT ![c] = Append(inbound[c], line)]
                  /\ \/ \E ch \in Channels : line = Line("JOIN", ch) \/ line = Line("PART", ch)
                     \/ \E ch \in Channels : line = Said(ch, c, sent[c])
                     \/ \E item \in Items \cup Typos : line = Slash("give", item, c, sent[c])
                     \/ line = Line("NICK", "") \/ line = Line("QUIT", "")
  BY DEF SendLine
<1>2. /\ sent' = [sent EXCEPT ![c] = sent[c] + 1]
      /\ UNCHANGED <<open, screen, sessions, serving, members, lock, writers, commands>>
  BY DEF SendLine, task_vars
<1>3. /\ ChatTyped /\ Locked /\ sent[c] \in Nat /\ sent \in [Conns -> Nat]
      /\ inbound \in [Conns -> Seq(Lines)] /\ inbound[c] \in Seq(Lines)
      /\ InboundNumbered(c) /\ InHandNumbered(c) /\ serving[c].line \in Lines
  BY ServingsAre DEF ChatInv, ChatTyped
<1>4. /\ line \in Lines
      /\ line.verb = "PRIVMSG" => line.from = c /\ line.n = sent[c]
  <2>1. {"JOIN", "PART", "NICK", "QUIT"} \subseteq Verbs /\ Channels \cup {""} \subseteq Args
    BY DEF Verbs, Args
  <2>2. \A verb \in {"JOIN", "PART", "NICK", "QUIT"}, arg \in Channels \cup {""} :
           Line(verb, arg) \in Lines /\ Line(verb, arg).verb # "PRIVMSG"
    BY <2>1, LinesNotSaid
  <2>3. CASE \E ch \in Channels : line = Line("JOIN", ch) \/ line = Line("PART", ch)
    BY <2>2, <2>3
  <2>4. CASE \E ch \in Channels : line = Said(ch, c, sent[c])
    BY <1>3, <2>4, LinesSaid
  <2>5. CASE \E item \in Items \cup Typos : line = Slash("give", item, c, sent[c])
    BY <1>3, <2>5, LinesNotSaid
  <2>6. CASE line = Line("NICK", "") \/ line = Line("QUIT", "")
    BY <2>2, <2>6
  <2> QED BY <1>1, <2>3, <2>4, <2>5, <2>6
<1>5. /\ inbound' \in [Conns -> Seq(Lines)] /\ inbound'[c] = Append(inbound[c], line)
      /\ sent' \in [Conns -> Nat] /\ sent'[c] = sent[c] + 1
      /\ \A d \in Conns \ {c} : inbound'[d] = inbound[d] /\ sent'[d] = sent[d]
  <2>1. Append(inbound[c], line) \in Seq(Lines)
    BY <1>3, <1>4, AppendProperties
  <2>2. /\ inbound' \in [Conns -> Seq(Lines)] /\ inbound'[c] = Append(inbound[c], line)
        /\ \A d \in Conns \ {c} : inbound'[d] = inbound[d]
    BY <1>1, <1>3, <2>1, ExceptOne
  <2>3. /\ sent' \in [Conns -> Nat] /\ sent'[c] = sent[c] + 1
        /\ \A d \in Conns \ {c} : sent'[d] = sent[d]
    BY <1>2, <1>3
  <2> QED BY <2>2, <2>3
<1> DEFINE q == inbound[c]
           r == inbound'[c]
<1>6. /\ \A i \in Talk(r) : \/ i \in Talk(q) /\ r[i] = q[i]
                            \/ i = Len(q) + 1 /\ r[i] = line /\ line.verb = "PRIVMSG"
      /\ \A i \in Talk(q) : i \in Nat /\ i < Len(q) + 1
      /\ Len(q) \in Nat
  BY <1>3, <1>4, <1>5, TalkOfAppend
<1>7. \A i \in Talk(q) : /\ q[i].from = c /\ q[i].n < sent[c] /\ q[i].n \in Nat
                         /\ \A j \in Talk(q) : j < i => q[j].n < q[i].n
  <2>1. \A i \in Talk(q) : q[i] \in Lines /\ q[i].verb = "PRIVMSG"
    BY <1>3, ElementOfSeq DEF Talk
  <2> QED BY <1>3, <2>1, LinesSaid DEF InboundNumbered
<1> HIDE DEF q, r
<1>8. \A i \in Talk(r) : /\ r[i].from = c /\ r[i].n < sent[c] + 1
                         /\ \A j \in Talk(r) : j < i => r[j].n < r[i].n
  BY <1>3, <1>4, <1>6, <1>7
<1>9. ChatTyped' /\ Locked'
  BY <1>2, <1>3, <1>5 DEF ChatTyped, Locked
<1>10. InboundNumbered(c)'
  BY <1>5, <1>8 DEF InboundNumbered, r
<1>11. InHandNumbered(c)'
  <2>1. serving[c].line.verb = "PRIVMSG" => serving[c].line.n \in Nat
    BY <1>3, LinesSaid
  <2>2. ASSUME serving[c].at \in {"enrolling", "relaying", "sending"},
               serving[c].line.verb = "PRIVMSG"
        PROVE  /\ serving[c].line.from = c /\ serving[c].line.n < sent[c] + 1
               /\ \A i \in Talk(r) : serving[c].line.n < r[i].n
    <3>1. /\ serving[c].line.from = c /\ serving[c].line.n < sent[c]
          /\ \A i \in Talk(q) : serving[c].line.n < q[i].n
      BY <1>3, <2>2 DEF InHandNumbered, q
    <3>2. serving[c].line.n < sent[c] + 1
      BY <1>3, <2>1, <2>2, <3>1
    <3>3. \A i \in Talk(r) : serving[c].line.n < r[i].n
      BY <1>4, <1>6, <3>1
    <3> QED BY <3>1, <3>2, <3>3
  <2> QED BY <1>2, <1>3, <1>5, <2>2 DEF InHandNumbered, r
<1>12. \A x \in Spoken : x.from = c /\ SentEarlier(x) => SentEarlier(x)'
  <2> SUFFICES ASSUME NEW x \in Spoken, x.from = c, SentEarlier(x) PROVE SentEarlier(x)'
    OBVIOUS
  <2>1. x.n \in Nat
    BY DEF Spoken
  <2>2. x.n < sent[c] + 1 /\ \A i \in Talk(r) : x.n < r[i].n
    BY <1>3, <1>4, <1>6, <2>1 DEF SentEarlier, q
  <2> QED BY <1>2, <1>5, <2>2 DEF SentEarlier, r
<1> QED BY <1>2, <1>5, <1>9, <1>10, <1>11, <1>12, SilenceIsQuiet, QuietStep

LEMMA StandingStep ==
  ASSUME ChatInv, ChatTyped', UNCHANGED <<inbound, serving, lock, writers, screen, sent>>
  PROVE  ChatInv'
<1>1. Locked'
  BY DEF ChatInv, Locked
<1>2. \A c \in Conns : InboundNumbered(c)' /\ InHandNumbered(c)'
  BY DEF ChatInv, InboundNumbered, InHandNumbered
<1>3. \A d \in Conns : Hearing(d)' = Hearing(d)
  BY DEF Hearing
<1>4. \A d \in Conns : \A i \in Talk(Hearing(d)') :
         (SentEarlier(Hearing(d)[i]) /\ BeingSaid(Hearing(d), d, i))'
  BY <1>3 DEF ChatInv, SentEarlier, BeingSaid
<1>5. \A c, d \in Conns : InOneOrder(Hearing(c), Hearing(d))'
  BY <1>3 DEF ChatInv, InOneOrder
<1> QED BY <1>1, <1>2, <1>4, <1>5 DEF ChatInv

LEMMA HangUpQuiet ==
  ASSUME ChatInv, NEW c \in Conns, HangUp(c)
  PROVE  ChatInv'
<1>1. ChatTyped'
  BY DEF HangUp, task_vars, ChatInv, ChatTyped
<1> QED BY <1>1, StandingStep DEF HangUp, task_vars

LEMMA TakeCommandsQuiet ==
  ASSUME ChatInv, take_commands
  PROVE  ChatInv'
<1>1. ChatTyped'
  BY DEF take_commands, ChatInv, ChatTyped
<1> QED BY <1>1, StandingStep DEF take_commands

-----------------------------------------------------------------------------
(* The step in which something is said. *)

LEMMA RelayKeepsOrder ==
  ASSUME ChatInv, NEW c \in Conns, relay(c)
  PROVE  ChatInv'
<1> PICK x : x = serving[c].line
  OBVIOUS
<1>1. PICK d \in serving[c].left :
        LET left == HandedOver(serving[c].left, d)
        IN  /\ writers' = [writers EXCEPT ![d] =
                            IF serving[d].at = "gone" THEN @ ELSE Append(@, x)]
            /\ lock' = Holding(c, left)
            /\ serving' = [serving EXCEPT ![c].left = left,
                                    ![c].at = IF left = {} THEN "reading" ELSE "sending"]
  BY DEF relay
<1> PICK left : left = serving[c].left \ {d}
  OBVIOUS
<1> PICK stage : stage = IF left = {} THEN "reading" ELSE "sending"
  OBVIOUS
<1>2. /\ serving[c].at = "sending" /\ lock' = Holding(c, left)
      /\ serving' = [serving EXCEPT ![c].left = left, ![c].at = stage]
      /\ UNCHANGED <<open, inbound, sessions, members, screen, sent, commands>>
  BY <1>1 DEF relay, HandedOver
<1>3. writers' = [writers EXCEPT ![d] = IF serving[d].at = "gone" THEN writers[d]
                                        ELSE Append(writers[d], x)]
  BY <1>1
<1>4. /\ ChatTyped /\ Locked /\ x \in Lines /\ d \in Conns /\ left \in SUBSET Conns
      /\ Nobody \notin Conns
      /\ writers \in [Conns -> Seq(Lines)] /\ screen \in [Conns -> Seq(Lines)]
  BY <1>1, ServingsAre, ChatAssumption DEF ChatInv, ChatTyped
<1>5. /\ x \in Spoken /\ x.verb = "PRIVMSG" /\ x.from = c /\ x.n \in Nat /\ x.n < sent[c]
      /\ \A i \in Talk(inbound[c]) : x.n < inbound[c][i].n
  BY <1>2, <1>4, LinesSaid DEF ChatInv, InHandNumbered
<1>6. Becomes(c, stage, x, left)
  <2>1. stage \in Stages
    BY DEF Stages
  <2> QED BY <1>2, <1>4, <2>1, ServingBecomes
<1>7. lock = c /\ \A e \in Conns \ {c} : serving[e].at # "sending"
  BY <1>2, <1>4 DEF Locked
<1>8. Locked'
  BY <1>2, <1>4, <1>6, <1>7 DEF Locked, Becomes, Holding
<1>9. /\ writers' \in [Conns -> Seq(Lines)] /\ \A e \in Conns \ {d} : writers'[e] = writers[e]
      /\ writers'[d] = IF serving[d].at = "gone" THEN writers[d] ELSE Append(writers[d], x)
  BY <1>3, <1>4, AppendProperties
<1>10. ChatTyped'
  BY <1>2, <1>4, <1>6, <1>9 DEF ChatTyped, Becomes, Holding
<1>11. /\ InboundNumbered(c)' /\ InHandNumbered(c)'
       /\ \A y \in Spoken : y.from = c /\ SentEarlier(y) => SentEarlier(y)'
  BY <1>2, <1>6, NumbersStay DEF Becomes
<1>12. CASE serving[d].at = "gone"
  <2>1. \A e \in Conns : NoTalk(Hearing(e), Hearing(e)')
    BY <1>2, <1>9, <1>12 DEF Hearing, NoTalk
  <2> QED BY <1>2, <1>6, <1>8, <1>10, <1>11, <2>1, QuietStep DEF Becomes
<1>13. CASE serving[d].at # "gone"
  <2>1. Hearing(d)' = Append(Hearing(d), x) /\ \A e \in Conns \ {d} : Hearing(e)' = Hearing(e)
    <3>1. screen[d] \in Seq(Lines) /\ writers[d] \in Seq(Lines)
      BY <1>4
    <3>2. screen[d] \o Append(writers[d], x) = Append(screen[d] \o writers[d], x)
      <4>1. x \in Lines
        BY <1>4
      <4> QED BY <3>1, <4>1, AppendToEnd
    <3>3. Hearing(d)' = Append(Hearing(d), x)
      BY <1>2, <1>9, <1>13, <3>2 DEF Hearing
    <3>4. \A e \in Conns \ {d} : Hearing(e)' = Hearing(e)
      BY <1>2, <1>9 DEF Hearing
    <3> QED BY <3>3, <3>4
  <2>2. \A e \in Conns : Hearing(e) \in Seq(Lines)
    BY <1>4, HeardIsSpoken
  <2>3. ASSUME NEW e \in Conns, NEW i \in Talk(Hearing(e)), Hearing(e)[i].from = c
        PROVE  \/ Hearing(e)[i].n < x.n
               \/ Hearing(e)[i] = x /\ e \notin serving[c].left /\ \A j \in Talk(Hearing(e)) : j <= i
    BY <1>2, <2>3 DEF ChatInv, BeingSaid
  <2>4. \A i \in Talk(Hearing(d)) : Hearing(d)[i] # x
    BY <1>1, <1>4, <1>5, <2>3
  <2>5. \A e \in Conns : \A i \in Talk(Hearing(e)) :
           Hearing(e)[i] = x => \A j \in Talk(Hearing(e)) : j <= i
    BY <1>5, <2>3
  <2>6. ASSUME NEW e \in Conns, NEW f \in Conns PROVE InOneOrder(Hearing(e), Hearing(f))'
    <3>1. \A p, q \in Conns : InOneOrder(Hearing(p), Hearing(q))
      BY DEF ChatInv
    <3>2. \A p \in Conns : /\ InOneOrder(Hearing(p), Append(Hearing(d), x))
                           /\ InOneOrder(Append(Hearing(d), x), Hearing(p))
                           /\ InOneOrder(Append(Hearing(d), x), Append(Hearing(d), x))
      BY <1>4, <1>5, <2>2, <2>4, <2>5, <3>1, NewLineKeepsOrder
    <3>3. InOneOrder(Hearing(e)', Hearing(f)')
      BY <1>4, <2>1, <3>1, <3>2
    <3> QED BY <3>3
  <2>7. ASSUME NEW e \in Conns, NEW i \in Talk(Hearing(e)')
        PROVE  (SentEarlier(Hearing(e)[i]) /\ BeingSaid(Hearing(e), e, i))'
    <3> PICK y : y = Hearing(e)'[i]
      OBVIOUS
    <3>1. \/ i \in Talk(Hearing(e)) /\ y = Hearing(e)[i]
          \/ e = d /\ i = Len(Hearing(d)) + 1 /\ y = x
      <4>1. CASE e # d
        BY <2>1, <4>1
      <4>2. CASE e = d
        <5>1. PICK q : q = Hearing(d)
          OBVIOUS
        <5>2. /\ Append(q, x)[Len(q) + 1] = x
              /\ \A j \in Talk(Append(q, x)) :
                   \/ j \in Talk(q) /\ Append(q, x)[j] = q[j]
                   \/ j = Len(q) + 1
          BY <1>4, <2>2, <5>1, TalkOfAppend
        <5>3. Hearing(e)' = Append(q, x)
          BY <2>1, <4>2, <5>1
        <5>4. i \in Talk(Append(q, x)) /\ y = Append(q, x)[i]
          BY <5>3
        <5>5. (i \in Talk(q) /\ y = q[i]) \/ (i = Len(q) + 1 /\ y = x)
          BY <5>2, <5>4
        <5> QED BY <4>2, <5>1, <5>5
      <4> QED BY <4>1, <4>2
    <3>2. y \in Spoken /\ y.from \in Conns
      BY <1>4, <1>5, <3>1, HeardIsSpoken
    <3>3. SentEarlier(y)'
      <4>1. CASE i \in Talk(Hearing(e)) /\ y = Hearing(e)[i]
        <5>1. SentEarlier(y)
          BY <4>1 DEF ChatInv
        <5>2. CASE y.from = c
          BY <1>11, <3>2, <5>1, <5>2
        <5>3. CASE y.from # c
          BY <1>2, <1>6, <3>2, <5>1, <5>3 DEF SentEarlier, Becomes
        <5> QED BY <5>2, <5>3
      <4>2. CASE y = x
        BY <1>2, <1>5, <1>6, <4>2 DEF SentEarlier, Becomes
      <4> QED BY <3>1, <4>1, <4>2
    <3>4. serving'[y.from].at = "sending" =>
            \/ y.n < serving'[y.from].line.n
            \/ /\ y = serving'[y.from].line /\ e \notin serving'[y.from].left
               /\ \A j \in Talk(Hearing(e)') : j <= i
      <4>1. CASE y.from # c
        BY <1>6, <1>7, <3>2, <4>1 DEF Becomes
      <4>2. CASE y.from = c /\ i \in Talk(Hearing(e)) /\ y = Hearing(e)[i]
        <5>1. \/ y.n < x.n
              \/ y = x /\ e \notin serving[c].left /\ \A j \in Talk(Hearing(e)) : j <= i
          BY <2>3, <4>2
        <5>2. y = x => e # d
          BY <2>4, <4>2
        <5> QED BY <1>6, <2>1, <4>2, <5>1, <5>2 DEF Becomes
      <4>3. CASE e = d /\ i = Len(Hearing(d)) + 1 /\ y = x
        <5>1. \A j \in Talk(Hearing(d)') : j <= i
          <6>1. /\ Len(Hearing(d)) \in Nat
                /\ \A j \in Talk(Hearing(d)) : j \in 1 .. Len(Hearing(d))
                /\ \A j \in Talk(Hearing(d)') : j \in Talk(Hearing(d)) \/ j = i
            BY <1>4, <2>1, <2>2, <4>3, TalkOfAppend
          <6> QED BY <4>3, <6>1
        <5> QED BY <1>5, <1>6, <4>3, <5>1 DEF Becomes
      <4> QED BY <3>1, <4>1, <4>2, <4>3
    <3>5. (Hearing(e)[i])' = y
      OBVIOUS
    <3> QED BY <3>3, <3>4, <3>5 DEF SentEarlier, BeingSaid
  <2>8. ASSUME NEW e \in Conns PROVE (InboundNumbered(e) /\ InHandNumbered(e))'
    <3>1. CASE e = c
      BY <1>11, <3>1
    <3>2. CASE e # c
      BY <1>2, <1>6, <3>2 DEF ChatInv, InboundNumbered, InHandNumbered, Becomes
    <3> QED BY <3>1, <3>2
  <2> QED BY <1>8, <1>10, <2>6, <2>7, <2>8 DEF ChatInv
<1> QED BY <1>12, <1>13

-----------------------------------------------------------------------------
(* The theorems. *)

LEMMA ChatStep == ChatInv /\ [ChatNext]_chat_vars => ChatInv'
<1> SUFFICES ASSUME ChatInv, [ChatNext]_chat_vars PROVE ChatInv'
  OBVIOUS
<1>1. CASE UNCHANGED chat_vars
  <2>1. UNCHANGED <<open, inbound, sessions, serving, members, lock, writers, screen, sent,
                    commands>>
    BY <1>1 DEF chat_vars, task_vars
  <2>2. ChatTyped'
    BY <2>1 DEF ChatInv, ChatTyped
  <2> QED BY <2>1, <2>2, StandingStep
<1>2. ASSUME NEW c \in Conns, Serve(c) PROVE ChatInv'
  BY <1>2, ReadQuiet, EnrolQuiet, BeginRelayQuiet, RelayKeepsOrder, EndOfLinesQuiet, GoneQuiet
     DEF Serve
<1>3. ASSUME NEW c \in Conns, WriteLine(c) \/ SendLine(c) \/ HangUp(c) PROVE ChatInv'
  BY <1>3, WriteLineQuiet, SendLineQuiet, HangUpQuiet
<1>4. CASE take_commands
  BY <1>4, TakeCommandsQuiet
<1> QED BY <1>1, <1>2, <1>3, <1>4 DEF ChatNext

(* Whatever connections say, read and do to the register, what is handed   *)
(* to each writer is numbered and in one order, and one task at a time     *)
(* relays (server.rs, connection and relay).                               *)
THEOREM RelaysAreInOrder == ChatSpec => []ChatInv
BY InitHasOneOrder, ChatStep, PTL DEF ChatSpec

(* Any two players hear the lines they both hear in one order, and nobody  *)
(* hears a line twice (relay).                                             *)
THEOREM EveryoneHearsOneOrder == ChatSpec => []OneOrderForAll
<1>1. ChatInv => OneOrderForAll
  <2> SUFFICES ASSUME ChatInv, NEW c \in Conns, NEW d \in Conns,
                      NEW i \in Heard(c), NEW j \in Heard(c),
                      NEW k \in Heard(d), NEW l \in Heard(d),
                      i < j, screen[c][i] = screen[d][l], screen[c][j] = screen[d][k]
               PROVE  l < k
    BY DEF OneOrderForAll
  <2>1. ASSUME NEW e \in Conns, NEW h \in Heard(e)
        PROVE  h \in Talk(Hearing(e)) /\ Hearing(e)[h] = screen[e][h]
    <3>1. ASSUME NEW p \in Seq(Lines), NEW q \in Seq(Lines), NEW m \in DOMAIN p,
                 p[m].verb = "PRIVMSG"
          PROVE  m \in Talk(p \o q) /\ (p \o q)[m] = p[m]
      <4>1. /\ Len(p \o q) = Len(p) + Len(q) /\ Len(p) \in Nat /\ Len(q) \in Nat
            /\ m \in 1 .. Len(p)
            /\ \A n \in 1 .. Len(p) + Len(q) :
                 (p \o q)[n] = IF n <= Len(p) THEN p[n] ELSE q[n - Len(p)]
        BY ConcatProperties, LenProperties
      <4> QED BY <3>1, <4>1 DEF Talk
    <3>2. screen[e] \in Seq(Lines) /\ writers[e] \in Seq(Lines)
      BY DEF ChatInv, ChatTyped
    <3> QED BY <3>1, <3>2 DEF Heard, Hearing
  <2>2. InOneOrder(Hearing(c), Hearing(d))
    BY DEF ChatInv
  <2> QED BY <2>1, <2>2 DEF InOneOrder
<1> QED BY <1>1, RelaysAreInOrder, PTL
-----------------------------------------------------------------------------
(* Crafting: types. *)

Stacks    == [name : Goods, count : Nat \ {0}]
Rucksacks == [1 .. Pockets -> Stacks \cup {Vacant}]
Crafts    == [recipe : Recipes, timer : Nat, ready : Nat, announced : BOOLEAN]

BenchTyped ==
  /\ pockets \in Rucksacks
  /\ crafting \in [Stations -> Seq(Crafts)]
  /\ now \in Nat
  /\ finds \in [Goods -> Nat]
  /\ accepted \in [Recipes -> Nat]
  /\ delivered \in [Recipes -> Nat] /\ spoiled \in [Recipes -> Nat]

(* How much of a material a rucksack holds.                                *)
Load(squares, name) == SumFunction([i \in 1 .. Pockets |-> Amount(squares[i], name)])

LEMMA PocketsAre ==
  /\ Pockets \in Nat /\ IsFiniteSet(1 .. Pockets) /\ "nothing" \notin Goods
  /\ \A square \in Stacks \cup {Vacant}, name \in Goods : Amount(square, name) \in Nat
  /\ \A name \in Goods : Amount(Vacant, name) = 0
<1>1. Pockets \in Nat /\ "nothing" \notin Goods
  BY WorkbenchAssumption
<1>2. IsFiniteSet(1 .. Pockets)
  BY <1>1, FS_Interval
<1>3. ASSUME NEW square \in Stacks \cup {Vacant}, NEW name \in Goods
      PROVE  Amount(square, name) \in Nat
  BY DEF Amount, Vacant, Stacks
<1>4. \A name \in Goods : Amount(Vacant, name) = 0
  BY <1>1 DEF Amount, Vacant
<1> QED BY <1>1, <1>2, <1>3, <1>4

LEMMA LoadIsNat ==
  ASSUME NEW squares \in Rucksacks, NEW name \in Goods
  PROVE  /\ Load(squares, name) \in Nat
         /\ \A i \in 1 .. Pockets : Amount(squares[i], name) <= Load(squares, name)
         /\ (\A i \in 1 .. Pockets : squares[i].name # name) => Load(squares, name) = 0
<1> DEFINE f == [i \in 1 .. Pockets |-> Amount(squares[i], name)]
<1>1. f \in [1 .. Pockets -> Nat] /\ IsFiniteSet(1 .. Pockets)
  BY PocketsAre DEF Rucksacks
<1>2. Load(squares, name) = SumFunction(f)
  BY DEF Load
<1>3. \A i \in 1 .. Pockets : f[i] = Amount(squares[i], name)
  OBVIOUS
<1>4. ASSUME \A i \in 1 .. Pockets : squares[i].name # name
      PROVE  \A i \in 1 .. Pockets : f[i] = 0
  BY <1>4 DEF Amount
<1> HIDE DEF f
<1>5. SumFunction(f) \in Nat /\ \A i \in 1 .. Pockets : f[i] <= SumFunction(f)
  BY <1>1, SumIsNat, SumIsAtLeast
<1>6. (\A i \in 1 .. Pockets : f[i] = 0) => SumFunction(f) = 0
  BY <1>1, SumOfNothing
<1> QED BY <1>2, <1>3, <1>4, <1>5, <1>6

(* One square is changed.                                                  *)
LEMMA LoadChanges ==
  ASSUME NEW squares \in Rucksacks, NEW i \in 1 .. Pockets, NEW square \in Stacks \cup {Vacant},
         NEW name \in Goods
  PROVE  /\ [squares EXCEPT ![i] = square] \in Rucksacks
         /\ Load([squares EXCEPT ![i] = square], name) + Amount(squares[i], name)
              = Load(squares, name) + Amount(square, name)
<1> DEFINE more == [squares EXCEPT ![i] = square]
           f    == [j \in 1 .. Pockets |-> Amount(squares[j], name)]
           g    == [j \in 1 .. Pockets |-> Amount(more[j], name)]
<1>1. more \in Rucksacks
  BY DEF Rucksacks
<1>2. /\ f \in [1 .. Pockets -> Nat] /\ IsFiniteSet(1 .. Pockets)
      /\ g \in [1 .. Pockets -> Nat]
  <2> HIDE DEF more
  <2> QED BY <1>1, PocketsAre DEF Rucksacks
<1>3. \A j \in (1 .. Pockets) \ {i} : g[j] = f[j]
  BY DEF Rucksacks
<1>4. f[i] = Amount(squares[i], name) /\ g[i] = Amount(square, name)
  BY DEF Rucksacks
<1>5. Load(squares, name) = SumFunction(f) /\ Load(more, name) = SumFunction(g)
  BY DEF Load
<1> HIDE DEF f, g, more
<1>6. SumFunction(g) + f[i] = SumFunction(f) + g[i]
  BY <1>2, <1>3, SumChanges
<1> QED BY <1>1, <1>4, <1>5, <1>6 DEF more

-----------------------------------------------------------------------------
(* What is taken. *)

LEMMA TakeOneIs ==
  ASSUME NEW squares \in Rucksacks, NEW name \in Goods
  PROVE  /\ take_one(squares, name) \in Rucksacks
         /\ \A other \in Goods :
              Load(take_one(squares, name), other)
                = IF other = name /\ Load(squares, name) > 0 THEN Load(squares, name) - 1
                  ELSE Load(squares, other)
<1> DEFINE having == {i \in 1 .. Pockets : squares[i].name = name}
           i      == Min(having)
           square == OneLess(squares[i])
           fewer  == [squares EXCEPT ![i] = square]
<1>1. CASE having = {}
  <2>1. take_one(squares, name) = squares
    BY <1>1 DEF take_one
  <2>2. Load(squares, name) = 0
    BY <1>1, LoadIsNat
  <2> QED BY <2>1, <2>2
<1>2. CASE having # {}
  <2>1. i \in having
    <3>1. having \in SUBSET Nat
      OBVIOUS
    <3> HIDE DEF having
    <3> QED BY <1>2, <3>1, MinIsThere
  <2>2. take_one(squares, name) = fewer
    BY <1>2 DEF take_one
  <2> HIDE DEF i
  <2>3. i \in 1 .. Pockets /\ squares[i].name = name
    BY <2>1
  <2> HIDE DEF having
  <2>4. squares[i] \in Stacks
    BY <2>3, PocketsAre DEF Rucksacks, Vacant
  <2>5. square \in Stacks \cup {Vacant}
    BY <2>4 DEF Stacks, OneLess
  <2>6. \A other \in Goods :
          /\ Amount(squares[i], other) = IF other = name THEN squares[i].count ELSE 0
          /\ Amount(square, other) = IF other = name THEN squares[i].count - 1 ELSE 0
    BY <2>3, <2>4, PocketsAre DEF Stacks, Amount, Vacant, OneLess
  <2>7. Load(squares, name) > 0
    BY <2>3, <2>4, <2>6, LoadIsNat DEF Stacks
  <2> HIDE DEF square
  <2>8. ASSUME NEW other \in Goods
        PROVE  /\ fewer \in Rucksacks
               /\ Load(fewer, other) + Amount(squares[i], other)
                    = Load(squares, other) + Amount(square, other)
    BY <2>3, <2>5, LoadChanges
  <2> HIDE DEF fewer
  <2>9. ASSUME NEW other \in Goods
        PROVE  Load(fewer, other) = IF other = name THEN Load(squares, name) - 1
                                    ELSE Load(squares, other)
    <3>1. Load(fewer, other) \in Nat /\ Load(squares, other) \in Nat /\ squares[i].count \in Nat
      BY <2>4, <2>8, LoadIsNat DEF Stacks
    <3> QED BY <2>6, <2>8, <3>1
  <2> QED BY <2>2, <2>7, <2>8, <2>9
<1> QED BY <1>1, <1>2

(* A quantity is taken item by item: when there is as much, all of it.     *)
LEMMA TakeIs ==
  ASSUME NEW squares \in Rucksacks, NEW name \in Goods, NEW quantity \in Nat
  PROVE  /\ take(squares, name, quantity) \in Rucksacks
         /\ Load(squares, name) >= quantity =>
              Load(take(squares, name, quantity), name) = Load(squares, name) - quantity
         /\ \A other \in Goods \ {name} :
              Load(take(squares, name, quantity), other) = Load(squares, other)
<1> DEFINE names == [i \in 1 .. quantity |-> name]
           step  == [i \in 1 .. quantity |-> [l \in Rucksacks |-> take_one(l, name)]]
           Is(h) == h = [s \in SUBSET DOMAIN names |->
                           IF s = {} THEN squares
                           ELSE take_one(h[s \ {Max(s)}], names[Max(s)])]
           h     == CHOOSE h : Is(h)
<1>1. DOMAIN names = 1 .. quantity /\ \A i \in 1 .. quantity : names[i] = name
  OBVIOUS
<1>2. take(squares, name, quantity) = h[DOMAIN names]
  BY Zenon DEF take, FoldLeft, MapThenFoldSet
<1> HIDE DEF names
<1>3. \E g : Is(g)
  <2>1. step \in [1 .. quantity -> [Rucksacks -> Rucksacks]]
    BY TakeOneIs
  <2>2. PICK g \in [SUBSET (1 .. quantity) -> Rucksacks] : FoldsUpTo(g, quantity, squares, step)
    <3> HIDE DEF step
    <3> QED BY <2>1, FoldHasValue
  <2>3. ASSUME NEW s \in SUBSET DOMAIN names
        PROVE  g[s] = IF s = {} THEN squares ELSE take_one(g[s \ {Max(s)}], names[Max(s)])
    <3>1. s \in SUBSET (1 .. quantity) /\ s \ {Max(s)} \in SUBSET (1 .. quantity)
      BY <1>1
    <3>2. g[s] = IF s = {} THEN squares ELSE step[Max(s)][g[s \ {Max(s)}]]
      <4> HIDE DEF step
      <4> QED BY <2>2, <3>1 DEF FoldsUpTo
    <3>3. CASE s = {}
      BY <3>2, <3>3
    <3>4. CASE s # {}
      <4>1. Max(s) \in 1 .. quantity
        <5>1. Max(s) \in s
          BY <3>1, <3>4, MaxIsThere
        <5> QED BY <3>1, <5>1
      <4>2. g[s \ {Max(s)}] \in Rucksacks
        BY <2>2, <3>1
      <4> QED BY <1>1, <3>2, <3>4, <4>1, <4>2
    <3> QED BY <3>3, <3>4
  <2>4. DOMAIN g = SUBSET DOMAIN names
    BY <1>1, <2>2
  <2>5. Is(g)
    BY <2>3, <2>4
  <2> QED BY <2>5
<1>4. Is(h)
  BY <1>3, Zenon
<1>5. \A s \in SUBSET (1 .. quantity) :
        h[s] = IF s = {} THEN squares ELSE take_one(h[s \ {Max(s)}], names[Max(s)])
  <2> HIDE DEF h
  <2> QED BY <1>1, <1>4
<1> HIDE DEF h, Is
<1>6. h[1 .. 0] = squares
  <2>1. 1 .. 0 = {} /\ {} \in SUBSET (1 .. quantity)
    OBVIOUS
  <2> QED BY <1>5, <2>1
<1>7. \A k \in 1 .. quantity : h[1 .. k] = take_one(h[1 .. k - 1], name)
  <2> TAKE k \in 1 .. quantity
  <2>1. 1 .. k \in SUBSET (1 .. quantity) /\ k \in Nat \ {0}
    OBVIOUS
  <2>2. 1 .. k # {} /\ Max(1 .. k) = k /\ (1 .. k) \ {Max(1 .. k)} = 1 .. k - 1
    BY <2>1, UpTo
  <2>3. h[1 .. k] = IF 1 .. k = {} THEN squares
                    ELSE take_one(h[(1 .. k) \ {Max(1 .. k)}], names[Max(1 .. k)])
    BY <1>5, <2>1
  <2> QED BY <1>1, <2>2, <2>3
<1> DEFINE Had  == Load(squares, name)
           Good == {k \in 0 .. quantity :
                      /\ h[1 .. k] \in Rucksacks
                      /\ Had >= k => Load(h[1 .. k], name) = Had - k
                      /\ \A other \in Goods \ {name} : Load(h[1 .. k], other) = Load(squares, other)}
<1>8. 0 \in Good
  <2>1. Had \in Nat
    BY LoadIsNat
  <2> QED BY <1>6, <2>1
<1>9. ASSUME NEW k \in 1 .. quantity, k - 1 \in Good
      PROVE  k \in Good
  <2> DEFINE l == h[1 .. k - 1]
  <2>1. /\ l \in Rucksacks /\ k - 1 \in Nat /\ k \in 0 .. quantity
        /\ Had >= k - 1 => Load(l, name) = Had - (k - 1)
        /\ \A other \in Goods \ {name} : Load(l, other) = Load(squares, other)
    BY <1>9
  <2>2. h[1 .. k] = take_one(l, name)
    BY <1>7
  <2> HIDE DEF l
  <2>3. /\ take_one(l, name) \in Rucksacks
        /\ \A other \in Goods :
             Load(take_one(l, name), other)
               = IF other = name /\ Load(l, name) > 0 THEN Load(l, name) - 1 ELSE Load(l, other)
    BY <2>1, TakeOneIs
  <2>4. Had \in Nat
    BY LoadIsNat
  <2>5. Had >= k => Load(h[1 .. k], name) = Had - k
    <3> HIDE DEF Had
    <3> QED BY <2>1, <2>2, <2>3, <2>4
  <2>6. \A other \in Goods \ {name} : Load(h[1 .. k], other) = Load(squares, other)
    BY <2>1, <2>2, <2>3
  <2> HIDE DEF Had
  <2> QED BY <2>1, <2>2, <2>3, <2>5, <2>6
<1>10. quantity \in Good
  <2>1. \A k \in 0 .. quantity : k \in Good
    <3> HIDE DEF Good
    <3> QED BY <1>8, <1>9, CountingUp
  <2> QED BY <2>1
<1> QED BY <1>1, <1>2, <1>10

-----------------------------------------------------------------------------
(* What a recipe costs.                                                    *)

LEMMA NeedsAre ==
  ASSUME NEW recipe \in Recipes
  PROVE  /\ IsQueue(Needs[recipe]) /\ Len(Needs[recipe]) \in Nat
         /\ DOMAIN Needs[recipe] = 1 .. Len(Needs[recipe])
         /\ \A i \in 1 .. Len(Needs[recipe]) :
              /\ Needs[recipe][i].name \in Goods /\ Needs[recipe][i].count \in Nat
              /\ \A j \in 1 .. Len(Needs[recipe]) :
                   Needs[recipe][i].name = Needs[recipe][j].name => i = j
<1> DEFINE Need == [name : Goods, count : Nat]
<1>1. Needs[recipe] \in Seq(Need)
  BY WorkbenchAssumption
<1>2. \A i \in 1 .. Len(Needs[recipe]) : Needs[recipe][i] \in Need
  <2> HIDE DEF Need
  <2> QED BY <1>1
<1>3. \A need \in Need : need.name \in Goods /\ need.count \in Nat
  OBVIOUS
<1> HIDE DEF Need
<1>4. IsQueue(Needs[recipe]) /\ Len(Needs[recipe]) \in Nat
      /\ DOMAIN Needs[recipe] = 1 .. Len(Needs[recipe])
  BY <1>1 DEF IsQueue
<1>5. \A i, j \in 1 .. Len(Needs[recipe]) :
        Needs[recipe][i].name = Needs[recipe][j].name => i = j
  BY <1>4, EachMaterialOnce
<1> QED BY <1>2, <1>3, <1>4, <1>5

LEMMA NeededIs ==
  ASSUME NEW recipe \in Recipes, NEW name \in Goods
  PROVE  /\ Needed(recipe, name) \in Nat
         /\ (\A i \in DOMAIN Needs[recipe] : Needs[recipe][i].name # name)
              => Needed(recipe, name) = 0
         /\ \A i \in DOMAIN Needs[recipe] :
              Needs[recipe][i].name = name => Needed(recipe, name) = Needs[recipe][i].count
<1> DEFINE n == Len(Needs[recipe])
           f == [i \in 1 .. n |-> Amount(Needs[recipe][i], name)]
<1>1. /\ n \in Nat /\ DOMAIN Needs[recipe] = 1 .. n /\ IsFiniteSet(1 .. n)
      /\ \A i \in 1 .. n : Needs[recipe][i].count \in Nat
      /\ \A i, j \in 1 .. n : Needs[recipe][i].name = Needs[recipe][j].name => i = j
  <2>1. /\ n \in Nat /\ DOMAIN Needs[recipe] = 1 .. n
        /\ \A i \in 1 .. n : Needs[recipe][i].count \in Nat
        /\ \A i, j \in 1 .. n : Needs[recipe][i].name = Needs[recipe][j].name => i = j
    BY NeedsAre
  <2> QED BY <2>1, FS_Interval
<1>2. f \in [1 .. n -> Nat]
  <2> HIDE DEF n
  <2> QED BY <1>1 DEF Amount
<1>3. Needed(recipe, name) = SumFunction(f)
  BY <1>1 DEF Needed
<1>4. ASSUME NEW i \in 1 .. n
      PROVE  f[i] = IF Needs[recipe][i].name = name THEN Needs[recipe][i].count ELSE 0
  BY DEF Amount
<1> HIDE DEF f, n
<1>5. SumFunction(f) \in Nat
  BY <1>1, <1>2, SumIsNat
<1>6. ASSUME \A i \in 1 .. n : Needs[recipe][i].name # name
      PROVE  SumFunction(f) = 0
  BY <1>1, <1>2, <1>4, <1>6, SumOfNothing
<1>7. ASSUME NEW i \in 1 .. n, Needs[recipe][i].name = name
      PROVE  SumFunction(f) = Needs[recipe][i].count
  <2>1. \A j \in (1 .. n) \ {i} : f[j] = 0
    BY <1>1, <1>4, <1>7
  <2>2. SumFunction(f) = f[i]
    BY <1>1, <1>2, <2>1, SumOfOne
  <2> QED BY <1>4, <1>7, <2>2
<1> QED BY <1>1, <1>3, <1>5, <1>6, <1>7

(* A recipe is paid for in full when there is enough of each material.     *)
LEMMA PaidIs ==
  ASSUME NEW squares \in Rucksacks, NEW recipe \in Recipes,
         \A i \in DOMAIN Needs[recipe] :
           Load(squares, Needs[recipe][i].name) >= Needs[recipe][i].count
  PROVE  /\ FoldLeft(Paid, squares, Needs[recipe]) \in Rucksacks
         /\ \A name \in Goods :
              Load(FoldLeft(Paid, squares, Needs[recipe]), name) + Needed(recipe, name)
                = Load(squares, name)
<1> DEFINE needs == Needs[recipe]
           n     == Len(needs)
           step  == [i \in 1 .. n |-> [l \in Rucksacks |-> Paid(l, needs[i])]]
           Is(h) == h = [s \in SUBSET DOMAIN needs |->
                           IF s = {} THEN squares ELSE Paid(h[s \ {Max(s)}], needs[Max(s)])]
           h     == CHOOSE h : Is(h)
<1>1. /\ n \in Nat /\ DOMAIN needs = 1 .. n
      /\ \A i \in 1 .. n : /\ needs[i].name \in Goods /\ needs[i].count \in Nat
                           /\ \A j \in 1 .. n : needs[i].name = needs[j].name => i = j
  BY NeedsAre
<1>2. FoldLeft(Paid, squares, needs) = h[DOMAIN needs]
  BY Zenon DEF FoldLeft, MapThenFoldSet
<1>3. \A i \in 1 .. n : Load(squares, needs[i].name) >= needs[i].count
  BY <1>1
<1>4. ASSUME NEW l \in Rucksacks, NEW i \in 1 .. n
      PROVE  /\ Paid(l, needs[i]) \in Rucksacks
             /\ Load(l, needs[i].name) >= needs[i].count =>
                  Load(Paid(l, needs[i]), needs[i].name) = Load(l, needs[i].name) - needs[i].count
             /\ \A other \in Goods \ {needs[i].name} :
                  Load(Paid(l, needs[i]), other) = Load(l, other)
  BY <1>1, TakeIs DEF Paid
<1> HIDE DEF needs
<1>5. \E g : Is(g)
  <2>1. step \in [1 .. n -> [Rucksacks -> Rucksacks]]
    BY <1>4
  <2>2. PICK g \in [SUBSET (1 .. n) -> Rucksacks] : FoldsUpTo(g, n, squares, step)
    <3> HIDE DEF step, n
    <3> QED BY <1>1, <2>1, FoldHasValue
  <2>3. ASSUME NEW s \in SUBSET DOMAIN needs
        PROVE  g[s] = IF s = {} THEN squares ELSE Paid(g[s \ {Max(s)}], needs[Max(s)])
    <3>1. s \in SUBSET (1 .. n) /\ s \ {Max(s)} \in SUBSET (1 .. n)
      BY <1>1
    <3>2. g[s] = IF s = {} THEN squares ELSE step[Max(s)][g[s \ {Max(s)}]]
      <4> HIDE DEF step, n
      <4> QED BY <2>2, <3>1 DEF FoldsUpTo
    <3>3. CASE s = {}
      BY <3>2, <3>3
    <3>4. CASE s # {}
      <4>1. Max(s) \in 1 .. n
        <5> HIDE DEF n
        <5>1. Max(s) \in s
          BY <1>1, <3>1, <3>4, MaxIsThere
        <5> QED BY <3>1, <5>1
      <4>2. g[s \ {Max(s)}] \in Rucksacks
        BY <2>2, <3>1
      <4> QED BY <3>2, <3>4, <4>1, <4>2
    <3> QED BY <3>3, <3>4
  <2>4. DOMAIN g = SUBSET DOMAIN needs
    BY <1>1, <2>2
  <2>5. Is(g)
    BY <2>3, <2>4
  <2> QED BY <2>5
<1>6. Is(h)
  BY <1>5, Zenon
<1>7. \A s \in SUBSET (1 .. n) :
        h[s] = IF s = {} THEN squares ELSE Paid(h[s \ {Max(s)}], needs[Max(s)])
  <2> HIDE DEF h
  <2> QED BY <1>1, <1>6
<1> HIDE DEF h, Is
<1>8. h[1 .. 0] = squares
  <2>1. 1 .. 0 = {} /\ {} \in SUBSET (1 .. n)
    OBVIOUS
  <2> QED BY <1>7, <2>1
<1>9. \A k \in 1 .. n : h[1 .. k] = Paid(h[1 .. k - 1], needs[k])
  <2> TAKE k \in 1 .. n
  <2>1. 1 .. k \in SUBSET (1 .. n) /\ k \in Nat \ {0}
    BY <1>1
  <2>2. 1 .. k # {} /\ Max(1 .. k) = k /\ (1 .. k) \ {Max(1 .. k)} = 1 .. k - 1
    BY <2>1, UpTo
  <2>3. h[1 .. k] = IF 1 .. k = {} THEN squares
                    ELSE Paid(h[(1 .. k) \ {Max(1 .. k)}], needs[Max(1 .. k)])
    BY <1>7, <2>1
  <2> QED BY <2>2, <2>3
<1> DEFINE Had(name) == Load(squares, name)
           PaidFor(k) == \A i \in 1 .. k :
                           Load(h[1 .. k], needs[i].name) = Had(needs[i].name) - needs[i].count
           Unpaid(k)  == \A name \in Goods :
                           (\A i \in 1 .. k : needs[i].name # name) =>
                              Load(h[1 .. k], name) = Had(name)
           Good == {k \in 0 .. n : h[1 .. k] \in Rucksacks /\ PaidFor(k) /\ Unpaid(k)}
<1>10. 0 \in Good
  BY <1>1, <1>8
<1>11. ASSUME NEW k \in 1 .. n, k - 1 \in Good
       PROVE  k \in Good
  <2> DEFINE l == h[1 .. k - 1]
             m == h[1 .. k]
  <2>1. l \in Rucksacks /\ PaidFor(k - 1) /\ Unpaid(k - 1) /\ k \in 0 .. n
    BY <1>1, <1>11
  <2>2. m = Paid(l, needs[k])
    BY <1>9
  <2>3. /\ needs[k].name \in Goods /\ needs[k].count \in Nat /\ n \in Nat
        /\ \A i \in 1 .. k - 1 : i \in 1 .. n /\ needs[i].name # needs[k].name
        /\ \A i \in 1 .. k - 1 : needs[i].name \in Goods
    <3>1. \A i \in 1 .. k - 1 : i \in 1 .. n /\ i # k
      BY <1>1
    <3> HIDE DEF n
    <3> QED BY <1>1, <3>1
  <2>4. Load(l, needs[k].name) = Had(needs[k].name)
    BY <2>1, <2>3
  <2>5. /\ m \in Rucksacks
        /\ Load(m, needs[k].name) = Had(needs[k].name) - needs[k].count
        /\ \A other \in Goods \ {needs[k].name} : Load(m, other) = Load(l, other)
    BY <1>3, <1>4, <2>1, <2>2, <2>4
  <2> HIDE DEF n
  <2>6. PaidFor(k)
    <3> SUFFICES ASSUME NEW i \in 1 .. k
                 PROVE  Load(m, needs[i].name) = Had(needs[i].name) - needs[i].count
      OBVIOUS
    <3>1. CASE i = k
      BY <2>5, <3>1
    <3>2. CASE i # k
      <4>1. i \in 1 .. k - 1
        BY <2>3, <3>2
      <4>2. needs[i].name \in Goods \ {needs[k].name}
        BY <2>3, <4>1
      <4>3. Load(l, needs[i].name) = Had(needs[i].name) - needs[i].count
        BY <2>1, <4>1
      <4> HIDE DEF l, m, Had
      <4> QED BY <2>5, <4>2, <4>3
    <3> QED BY <3>1, <3>2
  <2>7. Unpaid(k)
    <3> SUFFICES ASSUME NEW name \in Goods, \A i \in 1 .. k : needs[i].name # name
                 PROVE  Load(m, name) = Had(name)
      OBVIOUS
    <3>1. k \in 1 .. k /\ \A i \in 1 .. k - 1 : i \in 1 .. k
      BY <2>3
    <3>2. Load(l, name) = Had(name)
      BY <2>1, <3>1
    <3> HIDE DEF l, m, Had
    <3> QED BY <2>5, <3>1, <3>2
  <2> QED BY <2>1, <2>5, <2>6, <2>7
<1>12. n \in Good
  <2>1. \A k \in 0 .. n : k \in Good
    <3> HIDE DEF Good, n
    <3> QED BY <1>1, <1>10, <1>11, CountingUp
  <2> QED BY <1>1, <2>1
<1> DEFINE end == h[1 .. n]
<1>13. end \in Rucksacks /\ PaidFor(n) /\ Unpaid(n)
  BY <1>12
<1>14. ASSUME NEW name \in Goods
       PROVE  Load(end, name) + Needed(recipe, name) = Load(squares, name)
  <2>1. /\ Load(squares, name) \in Nat /\ Needed(recipe, name) \in Nat
        /\ (\A i \in 1 .. n : needs[i].name # name) => Needed(recipe, name) = 0
        /\ \A i \in 1 .. n : needs[i].name = name => Needed(recipe, name) = needs[i].count
    BY <1>1, LoadIsNat, NeededIs DEF needs
  <2> HIDE DEF n, end
  <2>2. CASE \E i \in 1 .. n : needs[i].name = name
    <3>1. PICK i \in 1 .. n : needs[i].name = name
      BY <2>2
    <3>2. Load(end, name) = Load(squares, name) - needs[i].count
      BY <1>13, <3>1 DEF end
    <3> QED BY <1>1, <2>1, <3>1, <3>2
  <2>3. CASE \A i \in 1 .. n : needs[i].name # name
    <3>1. Load(end, name) = Load(squares, name)
      BY <1>13, <2>3 DEF end
    <3> QED BY <2>1, <2>3, <3>1
  <2> QED BY <2>2, <2>3
<1>15. FoldLeft(Paid, squares, Needs[recipe]) = end
  BY <1>1, <1>2 DEF needs
<1> HIDE DEF end
<1> QED BY <1>13, <1>14, <1>15

-----------------------------------------------------------------------------
(* How many crafts of a recipe are queued.                                 *)

One(craft, recipe) == IF craft.recipe = recipe THEN 1 ELSE 0

LEMMA InQueueIsNat ==
  ASSUME NEW q, IsQueue(q), NEW recipe
  PROVE  /\ IsFiniteSet({i \in DOMAIN q : q[i].recipe = recipe})
         /\ InQueue(q, recipe) \in Nat
<1> DEFINE S == {i \in DOMAIN q : q[i].recipe = recipe}
<1>1. IsFiniteSet(1 .. Len(q)) /\ S \subseteq 1 .. Len(q)
  BY QueueIs, FS_Interval
<1>2. IsFiniteSet(S)
  BY <1>1, FS_Subset
<1>3. Cardinality(S) \in Nat
  BY <1>2, FS_CardinalityType
<1> QED BY <1>2, <1>3 DEF InQueue

LEMMA OneMoreInQueue ==
  ASSUME NEW q, IsQueue(q), NEW craft, NEW recipe
  PROVE  InQueue(Append(q, craft), recipe) = InQueue(q, recipe) + One(craft, recipe)
<1> DEFINE more == Append(q, craft)
           n    == Len(q)
           S    == {i \in DOMAIN q : q[i].recipe = recipe}
           T    == {i \in DOMAIN more : more[i].recipe = recipe}
<1>1. /\ n \in Nat /\ DOMAIN q = 1 .. n /\ DOMAIN more = 1 .. n + 1
      /\ more[n + 1] = craft /\ \A i \in 1 .. n : more[i] = q[i]
  BY QueueIs, QueueAppend
<1>2. IsFiniteSet(S) /\ Cardinality(S) \in Nat
  BY InQueueIsNat, FS_CardinalityType
<1>7. InQueue(more, recipe) = Cardinality(T) /\ InQueue(q, recipe) = Cardinality(S)
  BY Zenon DEF InQueue
<1> HIDE DEF more, n
<1>3. \A i \in 1 .. n + 1 : i \in 1 .. n \/ i = n + 1
  BY <1>1
<1>4. 1 .. n \subseteq 1 .. n + 1 /\ n + 1 \in 1 .. n + 1 /\ n + 1 \notin 1 .. n
  BY <1>1
<1>5. CASE craft.recipe = recipe
  <2>1. T = S \cup {n + 1} /\ n + 1 \notin S
    BY <1>1, <1>3, <1>4, <1>5
  <2>2. Cardinality(T) = Cardinality(S) + 1
    <3> HIDE DEF S, T
    <3> QED BY <1>2, <2>1, FS_AddElement
  <2> QED BY <1>5, <2>2 DEF InQueue, One, more
<1>6. CASE craft.recipe # recipe
  <2>1. T = S
    BY <1>1, <1>3, <1>4, <1>6
  <2>2. Cardinality(T) = Cardinality(S)
    BY <2>1, Zenon
  <2> HIDE DEF S, T
  <2>3. One(craft, recipe) = 0
    BY <1>6 DEF One
  <2> QED BY <1>2, <1>7, <2>2, <2>3 DEF more
<1> QED BY <1>5, <1>6

LEMMA OneFewerInQueue ==
  ASSUME NEW q, IsQueue(q), NEW k \in DOMAIN q, NEW recipe
  PROVE  /\ IsQueue(RemoveAt(q, k))
         /\ InQueue(RemoveAt(q, k), recipe) + One(q[k], recipe) = InQueue(q, recipe)
<1> DEFINE rest == RemoveAt(q, k)
           n    == Len(q)
           S    == {i \in DOMAIN q : q[i].recipe = recipe}
           T    == {i \in DOMAIN rest : rest[i].recipe = recipe}
           R    == S \ {k}
           b    == [i \in T |-> IF i < k THEN i ELSE i + 1]
<1>1. n \in Nat /\ DOMAIN q = 1 .. n /\ k \in 1 .. n
  BY QueueIs
<1>2. /\ IsQueue(rest) /\ DOMAIN rest = 1 .. n - 1
      /\ \A i \in 1 .. n - 1 : rest[i] = q[IF i < k THEN i ELSE i + 1]
  <2>1. PICK U : q \in Seq(U)
    BY DEF IsQueue
  <2>2. rest \in Seq(U)
    BY <1>1, <2>1 DEF RemoveAt
  <2>3. Len(rest) = n - 1 /\ \A i \in 1 .. n - 1 : rest[i] = q[IF i < k THEN i ELSE i + 1]
    <3> DEFINE a == SubSeq(q, 1, k - 1)
               c == SubSeq(q, k + 1, n)
    <3>1. /\ a \in Seq(U) /\ Len(a) = k - 1 /\ \A i \in 1 .. k - 1 : a[i] = q[i]
          /\ c \in Seq(U) /\ Len(c) = n - k /\ \A i \in 1 .. n - k : c[i] = q[k + i]
      BY <1>1, <2>1
    <3>2. rest = a \o c
      BY Zenon DEF RemoveAt
    <3> HIDE DEF a, c, rest, n
    <3>3. /\ Len(rest) = Len(a) + Len(c)
          /\ \A i \in 1 .. Len(a) + Len(c) : rest[i] = IF i <= Len(a) THEN a[i] ELSE c[i - Len(a)]
      BY <3>1, <3>2, ConcatProperties
    <3>4. Len(rest) = n - 1
      BY <1>1, <3>1, <3>3
    <3>5. ASSUME NEW i \in 1 .. n - 1
          PROVE  rest[i] = q[IF i < k THEN i ELSE i + 1]
      <4>1. CASE i < k
        BY <1>1, <3>1, <3>3, <4>1
      <4>2. CASE ~(i < k)
        <5>1. i \in 1 .. Len(a) + Len(c) /\ ~(i <= Len(a)) /\ i - Len(a) = i - (k - 1)
          BY <1>1, <3>1, <4>2
        <5>2. i - (k - 1) \in 1 .. n - k /\ k + (i - (k - 1)) = i + 1
          BY <1>1, <4>2
        <5>3. rest[i] = c[i - (k - 1)]
          BY <3>3, <5>1
        <5>4. c[i - (k - 1)] = q[k + (i - (k - 1))]
          BY <3>1, <5>2
        <5> QED BY <4>2, <5>2, <5>3, <5>4
      <4> QED BY <4>1, <4>2
    <3> QED BY <3>4, <3>5
  <2> HIDE DEF rest
  <2> QED BY <2>2, <2>3 DEF IsQueue
<1>3. IsFiniteSet(S) /\ Cardinality(S) \in Nat
  BY InQueueIsNat, FS_CardinalityType
<1> HIDE DEF rest, n
<1>4. IsFiniteSet(R) /\ Cardinality(R) + One(q[k], recipe) = Cardinality(S)
  <2>1. k \in S <=> q[k].recipe = recipe
    OBVIOUS
  <2> HIDE DEF S
  <2>2. /\ IsFiniteSet(R)
        /\ Cardinality(R) = IF k \in S THEN Cardinality(S) - 1 ELSE Cardinality(S)
    BY <1>3, FS_RemoveElement
  <2> HIDE DEF R
  <2> QED BY <1>3, <2>1, <2>2 DEF One
<1>5. IsFiniteSet(T)
  <2>1. IsFiniteSet(1 .. n - 1) /\ T \subseteq 1 .. n - 1
    BY <1>1, <1>2, FS_Interval
  <2> QED BY <2>1, FS_Subset
<1>6. b \in Bijection(T, R)
  <2>1. ASSUME NEW i \in T PROVE b[i] \in R
    BY <1>1, <1>2
  <2>2. \A i, j \in T : b[i] = b[j] => i = j
    BY <1>1, <1>2
  <2>3. ASSUME NEW j \in R PROVE \E i \in T : b[i] = j
    <3> DEFINE i == IF j < k THEN j ELSE j - 1
    <3>1. i \in 1 .. n - 1 /\ (IF i < k THEN i ELSE i + 1) = j
      BY <1>1
    <3>2. i \in T
      BY <1>2, <3>1
    <3> HIDE DEF i
    <3> QED BY <3>1, <3>2
  <2>4. b \in [T -> R]
    <3> HIDE DEF T, R
    <3> QED BY <2>1
  <2> HIDE DEF b, T, R
  <2> QED BY <2>2, <2>3, <2>4 DEF Bijection, Injection, Surjection, IsInjective
<1>7. Cardinality(T) = Cardinality(R)
  <2> HIDE DEF b, T, R
  <2> QED BY <1>5, <1>6, FS_Bijection DEF ExistsBijection
<1> QED BY <1>2, <1>4, <1>7 DEF InQueue, rest

-----------------------------------------------------------------------------
(* The sums of the books.                                                  *)

Made(d, name)      == SumFunction([r \in Recipes |-> d[r] * Amount(Makes[r], name)])
Used(a, name)      == SumFunction([r \in Recipes |-> a[r] * Needed(r, name)])
InQueues(c, recipe) == SumFunction([s \in Stations |-> InQueue(c[s], recipe)])

GoodsBalance(f, d, l, a) == \A n \in Goods : f[n] + Made(d, n) = Load(l, n) + Used(a, n)
CraftsBalance(a, c, d, s) == \A r \in Recipes : a[r] = InQueues(c, r) + d[r] + s[r]

BenchInv ==
  /\ BenchTyped
  /\ GoodsBalance(finds, delivered, pockets, accepted)
  /\ CraftsBalance(accepted, crafting, delivered, spoiled)

LEMMA BooksAre ==
  CraftingBooksBalance <=> /\ GoodsBalance(finds, delivered, pockets, accepted)
                           /\ CraftsBalance(accepted, crafting, delivered, spoiled)
<1>1. \A n : SumFunction([r \in Recipes |-> Produced(r, n)]) = Made(delivered, n)
  BY DEF Made, Produced
<1>2. \A n : SumFunction([r \in Recipes |-> accepted[r] * Needed(r, n)]) = Used(accepted, n)
  BY DEF Used
<1>3. \A n : carried(n) = Load(pockets, n)
  BY DEF carried, Load
<1>4. \A r : Queued(r) = InQueues(crafting, r)
  BY DEF Queued, InQueues
<1> QED BY <1>1, <1>2, <1>3, <1>4 DEF CraftingBooksBalance, GoodsBalance, CraftsBalance

LEMMA MakesAre ==
  ASSUME NEW recipe \in Recipes
  PROVE  /\ Makes[recipe].name \in Goods /\ Makes[recipe].count \in Nat \ {0}
         /\ \A name \in Goods : /\ Amount(Makes[recipe], name) \in Nat
                                /\ Needed(recipe, name) \in Nat
<1>1. Makes[recipe].name \in Goods /\ Makes[recipe].count \in Nat \ {0}
  BY WorkbenchAssumption
<1> QED BY <1>1, NeededIs DEF Amount

LEMMA TimesIs ==
  ASSUME NEW k \in Nat, NEW m \in Nat
  PROVE  k * m \in Nat /\ (k + 1) * m = k * m + m /\ 0 * m = 0
OBVIOUS

LEMMA SumsAreNat ==
  ASSUME NEW d \in [Recipes -> Nat], NEW name \in Goods
  PROVE  Made(d, name) \in Nat /\ Used(d, name) \in Nat
<1> DEFINE f == [r \in Recipes |-> d[r] * Amount(Makes[r], name)]
           g == [r \in Recipes |-> d[r] * Needed(r, name)]
<1>1. f \in [Recipes -> Nat] /\ g \in [Recipes -> Nat] /\ IsFiniteSet(Recipes)
  BY MakesAre, TimesIs, WorkbenchAssumption
<1>2. Made(d, name) = SumFunction(f) /\ Used(d, name) = SumFunction(g)
  BY Zenon DEF Made, Used
<1> HIDE DEF f, g
<1> QED BY <1>1, <1>2, SumIsNat

LEMMA OneMoreMade ==
  ASSUME NEW d \in [Recipes -> Nat], NEW name \in Goods, NEW recipe \in Recipes
  PROVE  Made([d EXCEPT ![recipe] = @ + 1], name) = Made(d, name) + Amount(Makes[recipe], name)
<1> DEFINE more == [d EXCEPT ![recipe] = @ + 1]
           f    == [r \in Recipes |-> d[r] * Amount(Makes[r], name)]
           g    == [r \in Recipes |-> more[r] * Amount(Makes[r], name)]
<1>1. more \in [Recipes -> Nat] /\ IsFiniteSet(Recipes)
  BY WorkbenchAssumption
<1>2. more[recipe] = d[recipe] + 1 /\ \A r \in Recipes \ {recipe} : more[r] = d[r]
  OBVIOUS
<1> HIDE DEF more
<1>3. f \in [Recipes -> Nat] /\ g \in [Recipes -> Nat]
  BY <1>1, MakesAre, TimesIs
<1>4. g[recipe] = f[recipe] + Amount(Makes[recipe], name)
  <2>1. d[recipe] \in Nat /\ Amount(Makes[recipe], name) \in Nat
    BY MakesAre
  <2>2. (d[recipe] + 1) * Amount(Makes[recipe], name)
          = d[recipe] * Amount(Makes[recipe], name) + Amount(Makes[recipe], name)
    BY <2>1, TimesIs
  <2> QED BY <1>2, <2>2, Zenon
<1>5. \A r \in Recipes \ {recipe} : g[r] = f[r]
  BY <1>2
<1>6. Made(d, name) = SumFunction(f) /\ Made(more, name) = SumFunction(g)
  BY Zenon DEF Made
<1> HIDE DEF f, g
<1>7. SumFunction(g) + f[recipe] = SumFunction(f) + g[recipe]
  BY <1>1, <1>3, <1>5, SumChanges
<1>8. SumFunction(f) \in Nat /\ SumFunction(g) \in Nat
  BY <1>1, <1>3, SumIsNat
<1>9. f[recipe] \in Nat /\ Amount(Makes[recipe], name) \in Nat
  BY <1>3, MakesAre
<1> QED BY <1>4, <1>6, <1>7, <1>8, <1>9 DEF more

LEMMA OneMoreUsed ==
  ASSUME NEW a \in [Recipes -> Nat], NEW name \in Goods, NEW recipe \in Recipes
  PROVE  Used([a EXCEPT ![recipe] = @ + 1], name) = Used(a, name) + Needed(recipe, name)
<1> DEFINE more == [a EXCEPT ![recipe] = @ + 1]
           f    == [r \in Recipes |-> a[r] * Needed(r, name)]
           g    == [r \in Recipes |-> more[r] * Needed(r, name)]
<1>1. more \in [Recipes -> Nat] /\ IsFiniteSet(Recipes)
  BY WorkbenchAssumption
<1>2. more[recipe] = a[recipe] + 1 /\ \A r \in Recipes \ {recipe} : more[r] = a[r]
  OBVIOUS
<1> HIDE DEF more
<1>3. f \in [Recipes -> Nat] /\ g \in [Recipes -> Nat]
  BY <1>1, MakesAre, TimesIs
<1>4. g[recipe] = f[recipe] + Needed(recipe, name)
  <2>1. a[recipe] \in Nat /\ Needed(recipe, name) \in Nat
    BY MakesAre
  <2>2. (a[recipe] + 1) * Needed(recipe, name)
          = a[recipe] * Needed(recipe, name) + Needed(recipe, name)
    BY <2>1, TimesIs
  <2> QED BY <1>2, <2>2, Zenon
<1>5. \A r \in Recipes \ {recipe} : g[r] = f[r]
  BY <1>2
<1>6. Used(a, name) = SumFunction(f) /\ Used(more, name) = SumFunction(g)
  BY Zenon DEF Used
<1> HIDE DEF f, g
<1>7. SumFunction(g) + f[recipe] = SumFunction(f) + g[recipe]
  BY <1>1, <1>3, <1>5, SumChanges
<1>8. SumFunction(f) \in Nat /\ SumFunction(g) \in Nat
  BY <1>1, <1>3, SumIsNat
<1>9. f[recipe] \in Nat /\ Needed(recipe, name) \in Nat
  BY <1>3, MakesAre
<1> QED BY <1>4, <1>6, <1>7, <1>8, <1>9 DEF more

LEMMA EmptyQueues ==
  ASSUME NEW recipe
  PROVE  InQueues([s \in Stations |-> <<>>], recipe) = 0
<1> DEFINE c == [s \in Stations |-> <<>>]
           f == [s \in Stations |-> InQueue(c[s], recipe)]
<1>1. InQueue(<<>>, recipe) = 0
  <2>1. {i \in DOMAIN <<>> : <<>>[i].recipe = recipe} = {}
    OBVIOUS
  <2> QED BY <2>1, FS_EmptySet DEF InQueue
<1>2. f \in [Stations -> Nat] /\ \A s \in Stations : f[s] = 0
  BY <1>1
<1>3. InQueues(c, recipe) = SumFunction(f)
  BY Zenon DEF InQueues
<1> HIDE DEF f, c
<1>4. SumFunction(f) = 0
  BY <1>2, SumOfNothing, WorkbenchAssumption
<1> QED BY <1>3, <1>4 DEF c

LEMMA StationSumChanges ==
  ASSUME NEW f \in [Stations -> Nat], NEW g \in [Stations -> Nat], NEW station \in Stations,
         \A s \in Stations \ {station} : g[s] = f[s]
  PROVE  SumFunction(g) + f[station] = SumFunction(f) + g[station]
<1>1. IsFiniteSet(Stations)
  BY WorkbenchAssumption
<1> QED BY <1>1, SumChanges

LEMMA QueuesAreNat ==
  ASSUME NEW c \in [Stations -> Seq(Crafts)], NEW recipe
  PROVE  InQueues(c, recipe) \in Nat
<1> DEFINE f == [s \in Stations |-> InQueue(c[s], recipe)]
<1>1. \A s \in Stations : IsQueue(c[s])
  BY DEF IsQueue
<1>2. f \in [Stations -> Nat]
  BY <1>1, InQueueIsNat
<1>3. InQueues(c, recipe) = SumFunction(f)
  BY Zenon DEF InQueues
<1> HIDE DEF f
<1> QED BY <1>2, <1>3, SumIsNat, WorkbenchAssumption

(* The queue of one station changes.                                       *)
LEMMA InQueuesChange ==
  ASSUME NEW c \in [Stations -> Seq(Crafts)], NEW d \in [Stations -> Seq(Crafts)],
         NEW station \in Stations, NEW recipe,
         \A s \in Stations \ {station} : d[s] = c[s]
  PROVE  /\ InQueues(c, recipe) \in Nat /\ InQueues(d, recipe) \in Nat
         /\ InQueue(c[station], recipe) \in Nat /\ InQueue(d[station], recipe) \in Nat
         /\ InQueues(d, recipe) + InQueue(c[station], recipe)
              = InQueues(c, recipe) + InQueue(d[station], recipe)
<1> DEFINE f == [s \in Stations |-> InQueue(c[s], recipe)]
           g == [s \in Stations |-> InQueue(d[s], recipe)]
<1>1. ASSUME NEW s \in Stations
      PROVE  IsQueue(c[s]) /\ IsQueue(d[s])
  BY DEF IsQueue
<1>2. \A s \in Stations : InQueue(c[s], recipe) \in Nat /\ InQueue(d[s], recipe) \in Nat
  BY <1>1, InQueueIsNat
<1>3. f \in [Stations -> Nat] /\ g \in [Stations -> Nat] /\ IsFiniteSet(Stations)
  BY <1>2, WorkbenchAssumption
<1>4. f[station] = InQueue(c[station], recipe) /\ g[station] = InQueue(d[station], recipe)
  OBVIOUS
<1>8. \A s \in Stations \ {station} : g[s] = f[s]
  OBVIOUS
<1>5. InQueues(c, recipe) = SumFunction(f) /\ InQueues(d, recipe) = SumFunction(g)
  BY Zenon DEF InQueues
<1> HIDE DEF f, g
<1>6. SumFunction(f) \in Nat /\ SumFunction(g) \in Nat
  BY <1>3, SumIsNat
<1>7. SumFunction(g) + f[station] = SumFunction(f) + g[station]
  BY <1>3, <1>8, StationSumChanges
<1> QED BY <1>2, <1>4, <1>5, <1>6, <1>7

-----------------------------------------------------------------------------
(* The steps.                                                              *)

LEMMA BenchInitIsKept ==
  ASSUME BenchInit
  PROVE  BenchInv
<1>1. BenchTyped
  <2>1. pockets \in Rucksacks
    BY DEF BenchInit, Rucksacks
  <2>2. crafting \in [Stations -> Seq(Crafts)]
    BY DEF BenchInit
  <2> QED BY <2>1, <2>2 DEF BenchInit, BenchTyped
<1>2. ASSUME NEW n \in Goods
      PROVE  finds[n] = 0 /\ Made(delivered, n) = 0 /\ Load(pockets, n) = 0 /\ Used(accepted, n) = 0
  <2>1. Load(pockets, n) = 0
    <3>1. pockets \in Rucksacks /\ \A i \in 1 .. Pockets : pockets[i].name # n
      BY <1>1, PocketsAre DEF BenchTyped, BenchInit, Vacant
    <3> QED BY <3>1, LoadIsNat
  <2>2. Made(delivered, n) = 0
    <3> DEFINE f == [r \in Recipes |-> delivered[r] * Amount(Makes[r], n)]
    <3>1. \A r \in Recipes : delivered[r] * Amount(Makes[r], n) = 0
      BY MakesAre, TimesIs DEF BenchInit
    <3>2. f \in [Recipes -> Nat] /\ \A r \in Recipes : f[r] = 0
      BY <3>1
    <3> HIDE DEF f
    <3>3. SumFunction(f) = 0
      BY <3>2, SumOfNothing, WorkbenchAssumption
    <3> QED BY <3>3 DEF f, Made
  <2>3. Used(accepted, n) = 0
    <3> DEFINE f == [r \in Recipes |-> accepted[r] * Needed(r, n)]
    <3>1. \A r \in Recipes : accepted[r] * Needed(r, n) = 0
      BY MakesAre, TimesIs DEF BenchInit
    <3>2. f \in [Recipes -> Nat] /\ \A r \in Recipes : f[r] = 0
      BY <3>1
    <3> HIDE DEF f
    <3>3. SumFunction(f) = 0
      BY <3>2, SumOfNothing, WorkbenchAssumption
    <3> QED BY <3>3 DEF f, Used
  <2> QED BY <2>1, <2>2, <2>3 DEF BenchInit
<1>3. ASSUME NEW r \in Recipes PROVE InQueues(crafting, r) = 0
  BY EmptyQueues DEF BenchInit
<1>4. GoodsBalance(finds, delivered, pockets, accepted)
  BY <1>2 DEF GoodsBalance
<1>5. CraftsBalance(accepted, crafting, delivered, spoiled)
  BY <1>3 DEF CraftsBalance, BenchInit
<1> QED BY <1>1, <1>4, <1>5 DEF BenchInv

(* What is given is a stack in a free square.                              *)
LEMMA GiveIs ==
  ASSUME BenchTyped, NEW name \in Goods, NEW count \in Nat \ {0}, FreePockets # {},
         give(name, count)
  PROVE  /\ pockets' \in Rucksacks
         /\ \A other \in Goods :
              Load(pockets', other)
                = Load(pockets, other) + Amount([name |-> name, count |-> count], other)
<1> DEFINE i     == Min(FreePockets)
           stack == [name |-> name, count |-> count]
<1>1. i \in 1 .. Pockets /\ pockets[i] = Vacant
  <2>1. FreePockets \in SUBSET Nat
    BY DEF FreePockets
  <2>2. i \in FreePockets
    BY <2>1, MinIsThere
  <2> QED BY <2>2 DEF FreePockets
<1>2. pockets' = [pockets EXCEPT ![i] = stack]
  BY DEF give
<1> HIDE DEF i
<1>3. stack \in Stacks \cup {Vacant} /\ pockets \in Rucksacks
  BY DEF Stacks, BenchTyped
<1> HIDE DEF stack
<1>4. ASSUME NEW other \in Goods
      PROVE  /\ pockets' \in Rucksacks
             /\ Load(pockets', other) = Load(pockets, other) + Amount(stack, other)
  <2>1. /\ pockets' \in Rucksacks
        /\ Load(pockets', other) + Amount(pockets[i], other)
             = Load(pockets, other) + Amount(stack, other)
    BY <1>1, <1>2, <1>3, LoadChanges
  <2>2. Amount(pockets[i], other) = 0 /\ Load(pockets', other) \in Nat
    BY <1>1, <2>1, LoadIsNat, PocketsAre
  <2> QED BY <2>1, <2>2
<1> QED BY <1>4 DEF stack

LEMMA FindGoodsIsKept ==
  ASSUME BenchInv, NEW name \in Goods, NEW count \in Bundles, FindGoods(name, count)
  PROVE  BenchInv'
<1>1. BenchTyped /\ count \in Nat \ {0}
  BY WorkbenchAssumption DEF BenchInv
<1>2. /\ pockets' \in Rucksacks
      /\ \A other \in Goods :
           Load(pockets', other)
             = Load(pockets, other) + Amount([name |-> name, count |-> count], other)
  BY <1>1, GiveIs DEF FindGoods
<1>3. BenchTyped'
  BY <1>1, <1>2 DEF BenchTyped, FindGoods
<1>4. GoodsBalance(finds, delivered, pockets, accepted)'
  <2> SUFFICES ASSUME NEW n \in Goods
               PROVE  finds'[n] + Made(delivered, n) = Load(pockets', n) + Used(accepted, n)
    BY DEF GoodsBalance, FindGoods
  <2>1. finds[n] + Made(delivered, n) = Load(pockets, n) + Used(accepted, n)
    BY DEF BenchInv, GoodsBalance
  <2>2. Made(delivered, n) \in Nat /\ Used(accepted, n) \in Nat /\ Load(pockets, n) \in Nat
    BY <1>1, SumsAreNat, LoadIsNat DEF BenchTyped
  <2>3. finds'[n] = finds[n] + Amount([name |-> name, count |-> count], n)
    BY <1>1 DEF FindGoods, BenchTyped, Amount
  <2>4. Amount([name |-> name, count |-> count], n) \in Nat /\ finds[n] \in Nat
    BY <1>1 DEF BenchTyped, Amount
  <2> QED BY <1>2, <2>1, <2>2, <2>3, <2>4
<1>5. CraftsBalance(accepted, crafting, delivered, spoiled)'
  BY DEF BenchInv, CraftsBalance, FindGoods
<1> QED BY <1>3, <1>4, <1>5 DEF BenchInv
LEMMA QueueRecipeIsKept ==
  ASSUME BenchInv, NEW station \in Stations, NEW recipe \in Recipes, queue_recipe(station, recipe)
  PROVE  BenchInv'
<1> DEFINE craft == [recipe |-> recipe, timer |-> now, ready |-> now + Duration[recipe],
                     announced |-> FALSE]
<1>1. BenchTyped
  BY DEF BenchInv
<1>2. /\ pockets' \in Rucksacks
      /\ \A name \in Goods :
           Load(pockets', name) + Needed(recipe, name) = Load(pockets, name)
  <2>1. \A i \in DOMAIN Needs[recipe] :
          Load(pockets, Needs[recipe][i].name) >= Needs[recipe][i].count
    BY DEF queue_recipe, enough_materials, carried, Load
  <2>2. pockets' = FoldLeft(Paid, pockets, Needs[recipe])
    BY DEF queue_recipe
  <2>3. pockets \in Rucksacks
    BY <1>1 DEF BenchTyped
  <2> QED BY <2>1, <2>2, <2>3, PaidIs
<1>3. crafting' \in [Stations -> Seq(Crafts)] /\ crafting'[station] = Append(crafting[station], craft)
      /\ \A s \in Stations \ {station} : crafting'[s] = crafting[s]
  <2>1. craft \in Crafts
    BY <1>1, WorkbenchAssumption DEF BenchTyped, Crafts
  <2>2. crafting' = [crafting EXCEPT ![station] = Append(crafting[station], craft)]
    BY DEF queue_recipe
  <2>3. crafting \in [Stations -> Seq(Crafts)]
    BY <1>1 DEF BenchTyped
  <2> HIDE DEF craft
  <2> QED BY <2>1, <2>2, <2>3
<1>4. accepted' \in [Recipes -> Nat] /\ accepted' = [accepted EXCEPT ![recipe] = @ + 1]
  BY <1>1 DEF BenchTyped, queue_recipe
<1>5. BenchTyped'
  BY <1>1, <1>2, <1>3, <1>4 DEF BenchTyped, queue_recipe
<1>6. GoodsBalance(finds, delivered, pockets, accepted)'
  <2> SUFFICES ASSUME NEW n \in Goods
               PROVE  finds[n] + Made(delivered, n) = Load(pockets', n) + Used(accepted', n)
    BY DEF GoodsBalance, queue_recipe
  <2>1. finds[n] + Made(delivered, n) = Load(pockets, n) + Used(accepted, n)
    BY DEF BenchInv, GoodsBalance
  <2>2. accepted \in [Recipes -> Nat]
    BY <1>1 DEF BenchTyped
  <2>3. Used(accepted', n) = Used(accepted, n) + Needed(recipe, n)
    BY <1>4, <2>2, OneMoreUsed
  <2>4. /\ Used(accepted, n) \in Nat /\ Needed(recipe, n) \in Nat
        /\ Load(pockets', n) \in Nat
    BY <1>2, <2>2, SumsAreNat, LoadIsNat, MakesAre
  <2> QED BY <1>2, <2>1, <2>3, <2>4
<1>7. CraftsBalance(accepted, crafting, delivered, spoiled)'
  <2> SUFFICES ASSUME NEW r \in Recipes
               PROVE  accepted'[r] = InQueues(crafting', r) + delivered[r] + spoiled[r]
    BY DEF CraftsBalance, queue_recipe
  <2>1. accepted[r] = InQueues(crafting, r) + delivered[r] + spoiled[r]
    BY DEF BenchInv, CraftsBalance
  <2>2. crafting \in [Stations -> Seq(Crafts)] /\ IsQueue(crafting[station])
    BY <1>1 DEF BenchTyped, IsQueue
  <2>3. /\ InQueues(crafting, r) \in Nat /\ InQueues(crafting', r) \in Nat
        /\ InQueue(crafting[station], r) \in Nat /\ InQueue(crafting'[station], r) \in Nat
        /\ InQueues(crafting', r) + InQueue(crafting[station], r)
             = InQueues(crafting, r) + InQueue(crafting'[station], r)
    BY <1>3, <2>2, InQueuesChange
  <2>4. InQueue(crafting'[station], r) = InQueue(crafting[station], r) + One(craft, r)
    <3> HIDE DEF craft
    <3> QED BY <1>3, <2>2, OneMoreInQueue
  <2>5. One(craft, r) = IF r = recipe THEN 1 ELSE 0
    BY DEF One
  <2>6. accepted'[r] = accepted[r] + One(craft, r)
    BY <1>1, <1>4, <2>5 DEF BenchTyped
  <2>7. One(craft, r) \in Nat /\ delivered[r] \in Nat /\ spoiled[r] \in Nat /\ accepted[r] \in Nat
    BY <1>1, <2>5 DEF BenchTyped
  <2> HIDE DEF craft
  <2> QED BY <2>1, <2>3, <2>4, <2>6, <2>7
<1> QED BY <1>5, <1>6, <1>7 DEF BenchInv

LEMMA CollectIsKept ==
  ASSUME BenchInv, NEW station \in Stations, NEW k \in DOMAIN crafting[station],
         collect_craft(station, k)
  PROVE  BenchInv'
<1> DEFINE craft  == crafting[station][k]
           recipe == craft.recipe
           made   == [name |-> Makes[recipe].name, count |-> Makes[recipe].count]
<1>1. BenchTyped
  BY DEF BenchInv
<1>2. crafting \in [Stations -> Seq(Crafts)] /\ IsQueue(crafting[station]) /\ craft \in Crafts
  BY <1>1 DEF BenchTyped, IsQueue
<1>3. recipe \in Recipes
  BY <1>2 DEF Crafts
<1>4. /\ crafting' \in [Stations -> Seq(Crafts)]
      /\ crafting'[station] = RemoveAt(crafting[station], k)
      /\ \A s \in Stations \ {station} : crafting'[s] = crafting[s]
  <2>1. RemoveAt(crafting[station], k) \in Seq(Crafts)
    BY <1>2 DEF RemoveAt
  <2>2. crafting' = [crafting EXCEPT ![station] = RemoveAt(crafting[station], k)]
    BY DEF collect_craft, Collected
  <2> QED BY <1>2, <2>1, <2>2
<1>5. ASSUME NEW r \in Recipes
      PROVE  /\ InQueues(crafting, r) \in Nat /\ InQueues(crafting', r) \in Nat
             /\ InQueues(crafting', r) + One(craft, r) = InQueues(crafting, r)
             /\ One(craft, r) = IF r = recipe THEN 1 ELSE 0
  <2>1. InQueue(RemoveAt(crafting[station], k), r) + One(craft, r) = InQueue(crafting[station], r)
    BY <1>2, OneFewerInQueue
  <2>2. /\ InQueues(crafting, r) \in Nat /\ InQueues(crafting', r) \in Nat
        /\ InQueue(crafting[station], r) \in Nat /\ InQueue(crafting'[station], r) \in Nat
        /\ InQueues(crafting', r) + InQueue(crafting[station], r)
             = InQueues(crafting, r) + InQueue(crafting'[station], r)
    BY <1>2, <1>4, InQueuesChange
  <2>3. One(craft, r) = IF r = recipe THEN 1 ELSE 0
    BY DEF One
  <2> HIDE DEF craft
  <2> QED BY <1>4, <2>1, <2>2, <2>3
<1>6. \A r \in Recipes : /\ accepted[r] = InQueues(crafting, r) + delivered[r] + spoiled[r]
                         /\ accepted[r] \in Nat /\ delivered[r] \in Nat /\ spoiled[r] \in Nat
  BY <1>1 DEF BenchInv, CraftsBalance, BenchTyped
<1> HIDE DEF recipe
<1>7. CASE /\ FreePockets # {} /\ give(Makes[recipe].name, Makes[recipe].count)
           /\ delivered' = [delivered EXCEPT ![recipe] = @ + 1]
           /\ UNCHANGED <<spoiled, now, finds, accepted>>
  <2>1. /\ pockets' \in Rucksacks
        /\ \A n \in Goods : Load(pockets', n) = Load(pockets, n) + Amount(made, n)
    BY <1>1, <1>3, <1>7, GiveIs, MakesAre
  <2>2. BenchTyped'
    BY <1>1, <1>3, <1>4, <1>7, <2>1 DEF BenchTyped
  <2>3. GoodsBalance(finds, delivered, pockets, accepted)'
    <3> SUFFICES ASSUME NEW n \in Goods
                 PROVE  finds[n] + Made(delivered', n) = Load(pockets', n) + Used(accepted, n)
      BY <1>7 DEF GoodsBalance
    <3>1. finds[n] + Made(delivered, n) = Load(pockets, n) + Used(accepted, n)
      BY DEF BenchInv, GoodsBalance
    <3>2. delivered \in [Recipes -> Nat] /\ accepted \in [Recipes -> Nat] /\ finds[n] \in Nat
      BY <1>1 DEF BenchTyped
    <3>3. Made(delivered', n) = Made(delivered, n) + Amount(Makes[recipe], n)
      BY <1>3, <1>7, <3>2, OneMoreMade
    <3>4. Made(delivered, n) \in Nat /\ Used(accepted, n) \in Nat
      BY <3>2, SumsAreNat
    <3>5. Load(pockets, n) \in Nat
      BY <1>1, LoadIsNat DEF BenchTyped
    <3>6. Amount(made, n) = Amount(Makes[recipe], n) /\ Amount(Makes[recipe], n) \in Nat
      BY <1>3, MakesAre DEF Amount
    <3> HIDE DEF made
    <3> QED BY <2>1, <3>1, <3>2, <3>3, <3>4, <3>5, <3>6
  <2>4. CraftsBalance(accepted, crafting, delivered, spoiled)'
    <3> SUFFICES ASSUME NEW r \in Recipes
                 PROVE  accepted[r] = InQueues(crafting', r) + delivered'[r] + spoiled[r]
      BY <1>7 DEF CraftsBalance
    <3>1. delivered'[r] = delivered[r] + IF r = recipe THEN 1 ELSE 0
      BY <1>1, <1>7, <1>6 DEF BenchTyped
    <3> HIDE DEF craft
    <3> QED BY <1>5, <1>6, <3>1
  <2> QED BY <2>2, <2>3, <2>4 DEF BenchInv
<1>8. CASE /\ spoiled' = [spoiled EXCEPT ![recipe] = @ + 1]
           /\ UNCHANGED <<pockets, delivered, now, finds, accepted>>
  <2>1. BenchTyped'
    BY <1>1, <1>3, <1>4, <1>8 DEF BenchTyped
  <2>2. GoodsBalance(finds, delivered, pockets, accepted)'
    BY <1>8 DEF BenchInv, GoodsBalance
  <2>3. CraftsBalance(accepted, crafting, delivered, spoiled)'
    <3> SUFFICES ASSUME NEW r \in Recipes
                 PROVE  accepted[r] = InQueues(crafting', r) + delivered[r] + spoiled'[r]
      BY <1>8 DEF CraftsBalance
    <3>1. spoiled'[r] = spoiled[r] + IF r = recipe THEN 1 ELSE 0
      BY <1>1, <1>8, <1>6 DEF BenchTyped
    <3> HIDE DEF craft
    <3> QED BY <1>5, <1>6, <3>1
  <2> QED BY <2>1, <2>2, <2>3 DEF BenchInv
<1> QED BY <1>7, <1>8 DEF collect_craft, recipe

LEMMA AnnouncementsAreKept ==
  ASSUME BenchInv, crafting_announcements
  PROVE  BenchInv'
<1>1. BenchTyped
  BY DEF BenchInv
<1>2. crafting' \in [Stations -> Seq(Crafts)]
      /\ \A s \in Stations : /\ DOMAIN crafting'[s] = DOMAIN crafting[s]
                             /\ \A i \in DOMAIN crafting[s] :
                                  crafting'[s][i].recipe = crafting[s][i].recipe
  <2> DEFINE told(s) == [i \in DOMAIN crafting[s] |->
                           [crafting[s][i] EXCEPT !.announced = @ \/ <<s, i>> \in Due]]
  <2>1. crafting' = [s \in Stations |-> told(s)]
    BY DEF crafting_announcements
  <2>2. ASSUME NEW s \in Stations
        PROVE  /\ told(s) \in Seq(Crafts) /\ DOMAIN told(s) = DOMAIN crafting[s]
               /\ \A i \in DOMAIN crafting[s] : told(s)[i].recipe = crafting[s][i].recipe
    <3>1. crafting[s] \in Seq(Crafts)
      BY <1>1 DEF BenchTyped
    <3>2. ASSUME NEW craft \in Crafts, NEW b \in BOOLEAN
          PROVE  /\ [craft EXCEPT !.announced = b] \in Crafts
                 /\ [craft EXCEPT !.announced = b].recipe = craft.recipe
      BY DEF Crafts
    <3>3. ASSUME NEW i \in DOMAIN crafting[s]
          PROVE  told(s)[i] \in Crafts /\ told(s)[i].recipe = crafting[s][i].recipe
      <4> DEFINE b == crafting[s][i].announced \/ <<s, i>> \in Due
      <4>1. crafting[s][i] \in Crafts /\ b \in BOOLEAN
        BY <3>1
      <4>2. told(s)[i] = [crafting[s][i] EXCEPT !.announced = b]
        BY Zenon
      <4> HIDE DEF b
      <4> QED BY <3>2, <4>1, <4>2
    <3>4. told(s) \in [1 .. Len(crafting[s]) -> Crafts]
      <4>1. told(s) = [i \in DOMAIN crafting[s] |-> told(s)[i]]
        OBVIOUS
      <4>2. DOMAIN crafting[s] = 1 .. Len(crafting[s])
        BY <3>1
      <4> HIDE DEF told
      <4> QED BY <3>3, <4>1, <4>2
    <3>5. told(s) \in Seq(Crafts) /\ DOMAIN told(s) = DOMAIN crafting[s]
      <4> HIDE DEF told
      <4> QED BY <3>1, <3>4
    <3> QED BY <3>3, <3>5
  <2> HIDE DEF told
  <2> QED BY <2>1, <2>2
<1>3. BenchTyped'
  BY <1>1, <1>2 DEF BenchTyped, crafting_announcements
<1>4. GoodsBalance(finds, delivered, pockets, accepted)'
  BY DEF BenchInv, GoodsBalance, crafting_announcements
<1>5. ASSUME NEW r \in Recipes
      PROVE  InQueues(crafting', r) = InQueues(crafting, r)
  <2>1. ASSUME NEW s \in Stations
        PROVE  InQueue(crafting'[s], r) = InQueue(crafting[s], r)
    <3>1. {i \in DOMAIN crafting'[s] : crafting'[s][i].recipe = r}
            = {i \in DOMAIN crafting[s] : crafting[s][i].recipe = r}
      BY <1>2
    <3> QED BY <3>1, Zenon DEF InQueue
  <2>2. [s \in Stations |-> InQueue(crafting'[s], r)] = [s \in Stations |-> InQueue(crafting[s], r)]
    BY <2>1
  <2> QED BY <2>2, Zenon DEF InQueues
<1>6. CraftsBalance(accepted, crafting, delivered, spoiled)'
  BY <1>5 DEF BenchInv, CraftsBalance, crafting_announcements
<1> QED BY <1>3, <1>4, <1>6 DEF BenchInv

LEMMA LeaveBenchIsKept ==
  ASSUME BenchInv, LeaveBench
  PROVE  BenchInv'
<1>1. BenchTyped
  BY DEF BenchInv
<1>2. ASSUME NEW r \in Recipes
      PROVE  /\ InQueues(crafting', r) = 0 /\ InQueues(crafting, r) \in Nat
             /\ spoiled'[r] = spoiled[r] + InQueues(crafting, r)
  <2>1. InQueues(crafting', r) = 0
    BY EmptyQueues DEF LeaveBench
  <2>2. spoiled'[r] = spoiled[r] + InQueues(crafting, r)
    BY DEF LeaveBench, Queued, InQueues
  <2>3. accepted[r] = InQueues(crafting, r) + delivered[r] + spoiled[r]
    BY DEF BenchInv, CraftsBalance
  <2>4. InQueues(crafting, r) \in Nat
    BY <1>1, QueuesAreNat DEF BenchTyped
  <2> QED BY <2>1, <2>2, <2>4
<1>3. BenchTyped'
  <2>1. spoiled' \in [Recipes -> Nat]
    <3>1. \A r \in Recipes : spoiled'[r] \in Nat
      BY <1>1, <1>2 DEF BenchTyped
    <3>2. spoiled' = [r \in Recipes |-> spoiled'[r]]
      BY DEF LeaveBench
    <3> QED BY <3>1, <3>2
  <2>2. crafting' \in [Stations -> Seq(Crafts)]
    BY DEF LeaveBench
  <2> QED BY <1>1, <2>1, <2>2 DEF BenchTyped, LeaveBench
<1>4. GoodsBalance(finds, delivered, pockets, accepted)'
  BY DEF BenchInv, GoodsBalance, LeaveBench
<1>5. CraftsBalance(accepted, crafting, delivered, spoiled)'
  <2> SUFFICES ASSUME NEW r \in Recipes
               PROVE  accepted[r] = InQueues(crafting', r) + delivered[r] + spoiled'[r]
    BY DEF CraftsBalance, LeaveBench
  <2>1. accepted[r] = InQueues(crafting, r) + delivered[r] + spoiled[r]
    BY DEF BenchInv, CraftsBalance
  <2>2. delivered[r] \in Nat /\ spoiled[r] \in Nat
    BY <1>1 DEF BenchTyped
  <2> QED BY <1>2, <2>1, <2>2
<1> QED BY <1>3, <1>4, <1>5 DEF BenchInv

LEMMA BenchStutters ==
  ASSUME BenchInv, UNCHANGED <<pockets, crafting, finds, accepted, delivered, spoiled>>,
         now' \in Nat
  PROVE  BenchInv'
BY DEF BenchInv, BenchTyped, GoodsBalance, CraftsBalance

THEOREM BenchIsKept == BenchSpec => []BenchInv
<1>1. BenchInit => BenchInv
  BY BenchInitIsKept
<1>2. ASSUME BenchInv, [BenchNext]_bench_vars
      PROVE  BenchInv'
  <2>1. CASE UNCHANGED bench_vars
    BY <1>2, <2>1, BenchStutters DEF bench_vars, BenchInv, BenchTyped
  <2>2. ASSUME NEW n \in Goods, NEW c \in Bundles, FindGoods(n, c) PROVE BenchInv'
    BY <1>2, <2>2, FindGoodsIsKept
  <2>3. ASSUME NEW s \in Stations, NEW r \in Recipes, queue_recipe(s, r) PROVE BenchInv'
    BY <1>2, <2>3, QueueRecipeIsKept
  <2>4. ASSUME NEW s \in Stations, NEW k \in DOMAIN crafting[s], collect_craft(s, k)
        PROVE  BenchInv'
    BY <1>2, <2>4, CollectIsKept
  <2>5. CASE crafting_announcements
    BY <1>2, <2>5, AnnouncementsAreKept
  <2>6. CASE LeaveBench
    BY <1>2, <2>6, LeaveBenchIsKept
  <2>7. CASE Elapse
    BY <1>2, <2>7, BenchStutters DEF Elapse, BenchInv, BenchTyped
  <2> QED BY <1>2, <2>1, <2>2, <2>3, <2>4, <2>5, <2>6, <2>7 DEF BenchNext
<1> QED BY <1>1, <1>2, PTL DEF BenchSpec

(* The books of the workbench balance over any number of crafts, stations, *)
(* recipes and rucksack squares: what was found or made is in the rucksack *)
(* or paid for a craft, and each craft that was paid for is queued, handed *)
(* over or lost (queue_recipe, take, collect_craft).                       *)
THEOREM BooksBalance == BenchSpec => []CraftingBooksBalance
<1>1. BenchInv => CraftingBooksBalance
  BY BooksAre DEF BenchInv
<1> QED BY <1>1, BenchIsKept, PTL
=============================================================================
