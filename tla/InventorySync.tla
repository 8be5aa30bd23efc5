--------------------------- MODULE InventorySync ---------------------------
(***************************************************************************)
(* A session's inventory model and the client that draws it                *)
(* (crates/skysaga-game/src/lib.rs, Session::apply and packet_for).        *)
(*                                                                         *)
(* When an operation of Inventories has run to its end, the session turns  *)
(* its effects into packets in the order it got them.  A packet is built   *)
(* from the model as it is then, after the whole operation, not as it was  *)
(* when the effect was noted.  RakNet carries the packets on one reliable, *)
(* ordered channel, and the client applies them one at a time.             *)
(***************************************************************************)
EXTENDS Inventories

CONSTANT MaxOutbox  \* operations wait while more packets than this are on the way

ASSUME SyncAssumption == MaxOutbox \in Nat

VARIABLES
  outbox,  \* the packets on their way to the client
  known,   \* client: entity id -> the stack as last told
  view     \* client: square -> entity id, from the last list of its owner

syncVars == <<slots, items, limits, next_entity_id, effects, task, named,
              outbox, known, view>>

-----------------------------------------------------------------------------
(* Packets. *)

EntityAdd(e)      == [kind |-> "add",    entity |-> e, stack |-> items[e]]
EntitySync(e)     == [kind |-> "sync",   entity |-> e, stack |-> items[e]]
EntityRemoved(e)  == [kind |-> "remove", entity |-> e]
SlotListSync(o)   == [kind |-> "list",   owner |-> o,
                      list |-> [i \in {sq[2] : sq \in SquaresOf(o)} |-> slots[<<o, i>>]]]

NoPacket == [kind |-> "nothing"]

(* An effect whose stack is gone by now cannot be serialised: no packet is *)
(* sent for it, which is one that says nothing here.                       *)
PacketFor(effect) ==
  CASE effect.kind = "created" ->
         IF effect.entity \in DOMAIN items THEN EntityAdd(effect.entity) ELSE NoPacket
    [] effect.kind = "changed" ->
         IF effect.entity \in DOMAIN items THEN EntitySync(effect.entity) ELSE NoPacket
    [] effect.kind = "removed" -> EntityRemoved(effect.entity)
    [] effect.kind = "slots"   -> SlotListSync(effect.owner)

Packets == [i \in 1 .. Len(effects) |-> PacketFor(effects[i])]

-----------------------------------------------------------------------------
SyncInit ==
  /\ Init
  /\ outbox = <<>>
  /\ known = [e \in {} |-> e]
  /\ view = [sq \in {} |-> 0]

(* An operation, or one step of a "take all"; the packets of either leave  *)
(* when the operation is over.                                             *)
Operate ==
  /\ Len(outbox) <= MaxOutbox
  /\ Next
  /\ outbox' = IF task' = Idle THEN outbox \o Packets' ELSE outbox
  /\ UNCHANGED <<known, view>>

(* What the client does with one packet. *)
Receive(packet) ==
  \/ /\ packet.kind \in {"add", "sync"}
     /\ known' = [e \in DOMAIN known \cup {packet.entity} |->
                    IF e = packet.entity THEN packet.stack ELSE known[e]]
     /\ UNCHANGED view
  \/ /\ packet.kind = "remove"
     /\ known' = [e \in DOMAIN known \ {packet.entity} |-> known[e]]
     /\ UNCHANGED view
  \/ /\ packet.kind = "list"
     /\ view' = [sq \in {q \in DOMAIN view : q[1] # packet.owner}
                          \cup ({packet.owner} \X DOMAIN packet.list) |->
                   IF sq[1] = packet.owner THEN packet.list[sq[2]] ELSE view[sq]]
     /\ UNCHANGED known
  \/ packet.kind = "nothing" /\ UNCHANGED <<known, view>>

Deliver ==
  /\ outbox # <<>>
  /\ Receive(Head(outbox))
  /\ outbox' = Tail(outbox)
  /\ UNCHANGED vars

SyncNext == Operate \/ Deliver

SyncSpec == SyncInit /\ [][SyncNext]_syncVars

-----------------------------------------------------------------------------
(* Properties. *)

(* The client is never shown a square that names a stack it has not been   *)
(* told of or has already been told is gone: that is the empty square, or  *)
(* the dangling pointer, inventory.rs and sync_mailbox warn of.            *)
ClientNeverDangles ==
  \A sq \in DOMAIN view : view[sq] # 0 => view[sq] \in DOMAIN known

(* Once everything sent has arrived the client's picture is the model:     *)
(* every square of every open inventory and the size of every live stack.  *)
(* No operation changes something it does not report.                      *)
ClientCatchesUp ==
  outbox = <<>> /\ task = Idle =>
    /\ \A sq \in DOMAIN slots : sq \in DOMAIN view /\ view[sq] = slots[sq]
    /\ \A e \in DOMAIN items : e \in DOMAIN known /\ known[e] = items[e]
=============================================================================
