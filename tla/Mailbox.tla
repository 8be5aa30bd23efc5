------------------------------- MODULE Mailbox -------------------------------
(***************************************************************************)
(* One player's inbox (crates/skysaga-game/src/lib.rs and server.rs):      *)
(* composing, reading, claiming, deleting, writing down and giving back,   *)
(* over sessions, restarts and crashes.                                    *)
(*                                                                         *)
(* A message's attachments are stacks in a container, an entity of its own *)
(* that is minted per session.  The rucksack only matters as the squares   *)
(* a claim moves a stack into.  A tick of the server gives back what was   *)
(* stored and writes down what has changed, the rucksack and then the      *)
(* inbox; the writer task hands those changes to the database one by one,  *)
(* which may refuse one and take the next, and a crash leaves the rest of  *)
(* them unwritten.                                                         *)
(***************************************************************************)
EXTENDS Integers, Sequences, FiniteSets, SequencesExt

CONSTANTS
  Attachments,      \* history: tells one attached stack from every other
  Tools,            \* the attachments that wear, and so carry a uuid
  BagSize,          \* rucksack squares
  MAIL_ATTACHMENT_SLOTS,
  FirstMailId,      \* the first entity id the process mints
  MaxMailId,        \* and the last one it comes to
  MailFlags,        \* what a player may do to a message: read it, choose a gift
  Hasty,            \* may a message come before the restore?
  MaxMessages,      \* no message comes to an inbox of that many
  MaxUnwritten      \* changes underway when a tick records more

ASSUME MailboxAssumption ==
  /\ Tools \subseteq Attachments
  /\ {BagSize, MAIL_ATTACHMENT_SLOTS, FirstMailId, MaxMailId, MaxMessages,
      MaxUnwritten} \subseteq Nat

VARIABLES
  mailbox,        \* the session's messages, oldest first
  bag,            \* rucksack square -> a stack, or NoStack
  stage,          \* "away", "joining" or "playing"
  player_id,      \* the entity id of the player's body
  mail_restored,  \* has this session been handed what was stored?
  mint,           \* the next entity id
  told,           \* the entities the client has been told of
  dangled,        \* history: its last packets named an entity before that
  state,          \* what AppState holds: a rucksack and an inbox
  unwritten,      \* changes on their way to the database
  disk,           \* what the database holds
  offered,        \* history: the last rucksack it was given, taken or not
  composed,       \* history: the attachments handed out so far
  deleted         \* history: the attachments that went with their message

mail_vars == <<mailbox, bag, stage, player_id, mail_restored, mint, told,
               dangled, state, unwritten, disk, offered, composed,
               deleted>>

session == <<mailbox, bag, stage, player_id, mail_restored>>
records == <<state, unwritten, disk, offered>>

NoStack == [entity |-> 0]
Stacked(list) == {s \in ToSet(list) : s # NoStack}
NothingHeld == [i \in 1 .. BagSize |-> NoStack]
Blank == [bag |-> NothingHeld, mail |-> <<>>]

-----------------------------------------------------------------------------
(* What the client is sent.                                                *)

AddStack(s)     == [kind |-> "stack", entity |-> s.entity, names |-> {}]
AddContainer(m) == [kind |-> "container", entity |-> m.container,
                    names |-> {s.entity : s \in Stacked(m.held)}]
MailList(list)  == [kind |-> "list", entity |-> 0,
                    names |-> {m.container : m \in ToSet(list)}]
BagList(b)      == [kind |-> "list", entity |-> 0,
                    names |-> {s.entity : s \in Stacked(b)}]
ContainerList(m) == [kind |-> "list", entity |-> m.container,
                     names |-> {s.entity : s \in Stacked(m.held)}]

(* One per place; an empty place stands for no packet, since what it tells *)
(* of is entity 0, which no list names.                                    *)
StackAdds(m) == [i \in DOMAIN m.held |-> AddStack(m.held[i])]

FirstOf(S) == CHOOSE i \in S : \A j \in S : i <= j

(* A uuid stands for the first message that has it.                        *)
Find(list, uuid) == {i \in DOMAIN list : list[i].uuid = uuid}
Named(list, uuid) == list[FirstOf(Find(list, uuid))]

(* Mutant: the container before what is in it.                             *)
ContainerFirst(list, uuid) ==
  <<AddContainer(Named(list, uuid))>> \o StackAdds(Named(list, uuid))

announce_attachments(list, uuid) ==
  Append(StackAdds(Named(list, uuid)), AddContainer(Named(list, uuid)))

Entities(packets) == {packets[i].entity : i \in DOMAIN packets}
EntitiesOf(groups) == UNION {Entities(groups[g]) : g \in DOMAIN groups}

(* Does a packet name an entity nothing has told of before it?             *)
Dangles(known, packets) ==
  \E i \in DOMAIN packets :
    ~(packets[i].names \subseteq known \cup {packets[j].entity : j \in 1 .. i - 1})

(* Groups of packets, one group after the other.                           *)
SendAll(groups) ==
  /\ told' = told \cup EntitiesOf(groups)
  /\ dangled' = \E g \in DOMAIN groups :
       Dangles(told \cup UNION {Entities(groups[h]) : h \in 1 .. g - 1}, groups[g])

Send(packets) == SendAll(<<packets>>)

-----------------------------------------------------------------------------
(* Composing, reading and claiming.                                        *)

(* Mutant: the uuid is the player's, whatever is in the inbox.             *)
PlayersOwn(list) == <<player_id, 0>>

next_uuid(list) == <<player_id, Len(list)>>

(* A container and its stacks, minted from id on.                          *)
Packed(uuid, id, flags, things) ==
  [uuid |-> uuid, container |-> id, flags |-> flags,
   held |-> [i \in DOMAIN things |->
               IF things[i] = "gone" THEN NoStack
               ELSE [entity |-> id + i, thing |-> things[i]]]]

(* An admin's message, at any time once the connection has an account: the *)
(* attachments past the fifth are left out.  It is announced by its uuid,  *)
(* and the doorbell makes the client ask for its inbox.                    *)
Compose(attachments) ==
  LET fits    == {i \in DOMAIN attachments : i <= MAIL_ATTACHMENT_SLOTS}
      things  == [i \in fits |-> attachments[i]]
      message == Packed(next_uuid(mailbox), mint, {}, things)
  IN  /\ stage # "away"
      /\ mail_restored \/ Hasty
      /\ mint + Len(things) <= MaxMailId /\ Len(mailbox) < MaxMessages
      /\ Cardinality(composed) + Len(attachments) <= Cardinality(Attachments)
      /\ mailbox' = Append(mailbox, message)
      /\ mint' = mint + Len(things) + 1
      /\ composed' = composed \cup ToSet(things)
      /\ Send(announce_attachments(mailbox', message.uuid))
      /\ UNCHANGED <<bag, stage, player_id, mail_restored, deleted>>
      /\ UNCHANGED records

sync_mailbox(list) == Send(<<MailList(list)>>)

MailCheck ==
  /\ stage = "playing"
  /\ sync_mailbox(mailbox)
  /\ UNCHANGED <<session, mint, records, composed, deleted>>

(* "read" and "gift chosen": no answer. *)
Flag(uuid, flag) ==
  /\ stage = "playing"
  /\ Find(mailbox, uuid) # {}
  /\ mailbox' = [mailbox EXCEPT ![FirstOf(Find(mailbox, uuid))].flags = @ \cup {flag}]
  /\ Send(<<>>)
  /\ UNCHANGED <<bag, stage, player_id, mail_restored, mint, records,
                 composed, deleted>>

uuid_on_the_wire(s) == IF s.thing \in Tools THEN s.entity ELSE 0

(* By what the client was told the stack's uuid is: a stack that does not  *)
(* wear has none, and the first such is the one that is meant.  A full     *)
(* rucksack leaves it where it is, and the list is sent all the same.      *)
claim_attachment(uuid, item_uuid) ==
  LET at      == FirstOf(Find(mailbox, uuid))
      sources == {i \in DOMAIN mailbox[at].held :
                    /\ mailbox[at].held[i] # NoStack
                    /\ uuid_on_the_wire(mailbox[at].held[i]) = item_uuid}
      targets == {i \in 1 .. BagSize : bag[i] = NoStack}
      source  == FirstOf(sources)
  IN  /\ stage = "playing"
      /\ Find(mailbox, uuid) # {} /\ sources # {}
      /\ \/ /\ targets # {}
            /\ bag' = [bag EXCEPT ![FirstOf(targets)] = mailbox[at].held[source]]
            /\ mailbox' = [mailbox EXCEPT ![at].held[source] = NoStack]
            /\ Send(<<ContainerList(mailbox'[at]), BagList(bag'), MailList(mailbox')>>)
         \/ /\ targets = {}
            /\ sync_mailbox(mailbox)
            /\ UNCHANGED <<bag, mailbox>>
      /\ UNCHANGED <<stage, player_id, mail_restored, mint, records,
                     composed, deleted>>

(* The sequences of all of S from the first to the last: there is one.     *)
InTheirOrder(S) ==
  {at \in [1 .. Cardinality(S) -> S] : \A i, j \in DOMAIN at : i < j => at[i] < at[j]}

(* Every message of that uuid goes, with what is left in it.               *)
DeleteMail(uuid) ==
  LET going == {mailbox[i] : i \in Find(mailbox, uuid)}
      stays == DOMAIN mailbox \ Find(mailbox, uuid)
  IN  /\ stage = "playing"
      /\ Find(mailbox, uuid) # {}
      /\ \E at \in InTheirOrder(stays) : mailbox' = [i \in DOMAIN at |-> mailbox[at[i]]]
      /\ deleted' = deleted \cup {s.thing : s \in UNION {Stacked(m.held) : m \in going}}
                            \cup {"a message"}
      /\ sync_mailbox(mailbox')
      /\ UNCHANGED <<bag, stage, player_id, mail_restored, mint, records,
                     composed>>

-----------------------------------------------------------------------------
(* The tick: what was stored comes back, what has changed is written down. *)

Things(list) == [i \in DOMAIN list |-> IF list[i] = NoStack THEN "gone" ELSE list[i].thing]

stored_mail(list) ==
  [i \in DOMAIN list |-> [uuid |-> list[i].uuid, flags |-> list[i].flags,
                          held |-> Things(list[i].held)]]

(* Ids are minted one after the other, a container and then its stacks.    *)
StartOf(stored, id, i) ==
  FoldLeft(LAMBDA n, m : n + Len(m.held) + 1, id, SubSeq(stored, 1, i - 1))

Unpacked(stored, id) ==
  [i \in DOMAIN stored |->
     Packed(stored[i].uuid, StartOf(stored, id, i), stored[i].flags, stored[i].held)]

Given(stored, id) ==
  [i \in 1 .. BagSize |-> IF stored[i] = NoStack THEN NoStack
                          ELSE [entity |-> id + i - 1, thing |-> stored[i].thing]]

(* restore_items and then restore_mail, each only into an empty place and  *)
(* only once: the stacks of the rucksack are minted before the containers. *)
RestoredBag ==
  IF mail_restored \/ Stacked(bag) # {} THEN bag ELSE Given(state.bag, mint)

RestoredMail ==
  IF mail_restored \/ mailbox # <<>> THEN mailbox
  ELSE Unpacked(state.mail, mint + BagSize)

(* Every attachment is sent for its effect, and again with the message its *)
(* uuid stands for.                                                        *)
RestorePackets(restored) ==
  [i \in DOMAIN restored |-> StackAdds(restored[i])]
    \o [i \in DOMAIN restored |-> announce_attachments(restored, restored[i].uuid)]
    \o << <<MailList(restored)>> >>

BagPackets(b) == << [i \in 1 .. BagSize |-> AddStack(b[i])], <<BagList(b)>> >>

Change(field, value) == [field |-> field, value |-> value]

Changes(new, field) ==
  IF new[field] = state[field] THEN <<>> ELSE <<Change(field, new[field])>>

(* Mutant: the inbox is written down before the rucksack.                  *)
InboxFirst(new) == Changes(new, "mail") \o Changes(new, "bag")

(* record_inventories, then record_mailboxes; what has not changed is not  *)
(* written again.                                                          *)
RecordChanges(new) == Changes(new, "bag") \o Changes(new, "mail")

StoredBag(b) == [i \in 1 .. BagSize |->
                   IF b[i] = NoStack THEN NoStack ELSE [thing |-> b[i].thing]]

Tick ==
  /\ stage = "playing"
  /\ Len(unwritten) <= MaxUnwritten
  /\ bag' = RestoredBag
  /\ mailbox' = RestoredMail
  /\ mint' = IF mail_restored THEN mint
             ELSE StartOf(state.mail, mint + BagSize, Len(state.mail) + 1)
  /\ mail_restored' = TRUE
  /\ SendAll((IF bag' = bag THEN <<>> ELSE BagPackets(bag'))
             \o (IF mailbox' = mailbox THEN <<>> ELSE RestorePackets(mailbox')))
  /\ state' = [bag |-> StoredBag(bag'), mail |-> stored_mail(mailbox')]
  /\ unwritten' = unwritten \o RecordChanges(state')
  /\ UNCHANGED <<stage, player_id, disk, offered, composed, deleted>>

-----------------------------------------------------------------------------
(* Connections, the writer and a crash.                                    *)

Join ==
  /\ stage = "away"
  /\ mint < MaxMailId
  /\ stage' = "joining"
  /\ player_id' = mint
  /\ mint' = mint + 1
  /\ told' = {}
  /\ UNCHANGED <<mailbox, bag, mail_restored, records, composed, deleted,
                 dangled>>

Enter ==
  /\ stage = "joining"
  /\ stage' = "playing"
  /\ UNCHANGED <<mailbox, bag, player_id, mail_restored, mint, told, dangled,
                 records, composed, deleted>>

GoneSession ==
  /\ stage' = "away"
  /\ mailbox' = <<>> /\ bag' = NothingHeld
  /\ mail_restored' = FALSE /\ player_id' = 0
  /\ told' = {} /\ dangled' = FALSE
  /\ UNCHANGED <<composed, deleted>>

Leave ==
  /\ stage # "away"
  /\ GoneSession
  /\ UNCHANGED <<mint, records>>

Repeats(list) == \E i, j \in DOMAIN list : i # j /\ list[i].uuid = list[j].uuid

(* A message is stored under its uuid, and that is its key in the table.   *)
CanBeWritten(change) == change.field = "mail" => ~Repeats(change.value)

(* The database takes a change or refuses it; a refusal is logged and the  *)
(* writer goes on with the next one.                                       *)
WriteOne ==
  /\ unwritten # <<>>
  /\ \/ /\ CanBeWritten(Head(unwritten))
        /\ disk' = [disk EXCEPT ![Head(unwritten).field] = Head(unwritten).value]
     \/ UNCHANGED disk
  /\ unwritten' = Tail(unwritten)
  /\ offered' = IF Head(unwritten).field = "bag" THEN Head(unwritten).value ELSE offered
  /\ UNCHANGED <<session, mint, told, dangled, state, composed, deleted>>

(* The process dies and starts again from the database; ids start again.   *)
CrashAndRestart ==
  /\ GoneSession
  /\ mint' = FirstMailId
  /\ state' = disk /\ unwritten' = <<>>
  /\ offered' = disk.bag
  /\ UNCHANGED disk

MailInit ==
  /\ mailbox = <<>> /\ bag = NothingHeld
  /\ stage = "away" /\ player_id = 0 /\ mail_restored = FALSE
  /\ mint = FirstMailId
  /\ told = {} /\ dangled = FALSE
  /\ state = Blank /\ disk = Blank /\ unwritten = <<>>
  /\ offered = NothingHeld
  /\ composed = {} /\ deleted = {}

MailNext ==
  \/ Compose(<<>>)
  \/ \E t \in Attachments \ composed : Compose(<<t>>)
  \/ \E s, t \in Attachments \ composed : s # t /\ Compose(<<s, t>>)
  \/ MailCheck
  \/ \E m \in ToSet(mailbox) :
       \/ \E flag \in MailFlags : Flag(m.uuid, flag)
       \/ \E s \in Stacked(m.held) : claim_attachment(m.uuid, uuid_on_the_wire(s))
       \/ DeleteMail(m.uuid)
  \/ Tick
  \/ Join \/ Enter \/ Leave
  \/ WriteOne \/ CrashAndRestart

MailSpec == MailInit /\ [][MailNext]_mail_vars

-----------------------------------------------------------------------------
(* Properties.                                                             *)

(* No packet names an entity before the client has been told of it: the    *)
(* stacks, then the container that names them, then the list that names    *)
(* the container, on a restore and whatever the player does meanwhile, as  *)
(* long as no two messages have one uuid.  A container announced early     *)
(* shows a message with no attachments (announce_attachments).             *)
InboxNeverDangles == dangled => Repeats(mailbox)

(* "The attachment container is announced once, here, before anything      *)
(* references it" (server.rs, mail).  After a delete the next message may  *)
(* get the uuid of one that is still there; then the older one is          *)
(* announced again, the new one never, and the next list names it.         *)
AnnouncedBeforeNamed == ~dangled

ThingsIn(b) == {s.thing : s \in Stacked(b)}

InDatabase ==
  ThingsIn(disk.bag)
    \cup ((UNION {ToSet(m.held) : m \in ToSet(disk.mail)}) \ {"gone"})

(* An attachment that has once been written down is lost only with its     *)
(* message, or when the database refused the very rucksack it had been     *)
(* claimed into: that is written before the inbox it left, so a crash      *)
(* between the two doubles it at worst.  Nor does a message become unread. *)
(* (A message composed before the restore replaces the stored inbox, and   *)
(* that is excluded here.)                                                 *)
StoredMailIsKept ==
  [][/\ InDatabase \ InDatabase'
          \subseteq deleted \cup (ThingsIn(offered') \ ThingsIn(disk'.bag))
     /\ \A m \in ToSet(disk.mail), n \in ToSet(disk'.mail) :
          m.uuid = n.uuid /\ "a message" \notin deleted => m.flags \subseteq n.flags]_mail_vars

(* The client names a message by its uuid and by nothing else, and that is *)
(* made from the player's id and the length of the inbox.  As long as no   *)
(* message has been deleted no two have the same, though ids start again   *)
(* with the process.                                                       *)
UuidsAreUnique ==
  "a message" \notin deleted =>
    \A i, j \in DOMAIN mailbox : i # j => mailbox[i].uuid # mailbox[j].uuid
=============================================================================
