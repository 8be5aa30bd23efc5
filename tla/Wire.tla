-------------------------------- MODULE Wire --------------------------------
(***************************************************************************)
(* The packet codec: crates/skysaga-proto, and the classification of a     *)
(* client packet in skysaga-game (ClientPacket::parse).                    *)
(*                                                                         *)
(* A packet is a packet id and a sequence of fields packed bit by bit.     *)
(* Nothing in the stream says where a field ends, so one width read        *)
(* differently from the way it was written turns everything after it into  *)
(* noise.  Each packet below states the order its encode writes and the    *)
(* order its decode reads; KindOf states the form of each field; the       *)
(* writer and the reader of a form are separate, as they are in the code.  *)
(*                                                                         *)
(* A body is a function of field names; a 32-bit word is its four bytes    *)
(* (all of them occur, and 2^32 does not fit the checker's integers).      *)
(* One packet at a time is composed, may lose its last bytes, and is       *)
(* parsed.  Text is bytes; that the bytes are UTF-8 is not modelled.       *)
(***************************************************************************)
EXTENDS Integers, Sequences, SequencesExt, TLC

CONSTANTS
  MAX_SHORT_STRING,   \* the shortest string that takes the large length (255)
  TaskListDefault,    \* the task list's default length (32)
  MaxCut              \* bound: bytes a packet may lose on the way

VARIABLES
  body,     \* what was composed: [packet, fields], or Silence
  bytes,    \* the packet on its way, as bits, padded to whole bytes
  cut,      \* bytes it lost
  read      \* what the server made of it: [packet, fields], or Silence

wire_vars == <<body, bytes, cut, read>>

Silence == [packet |-> "none", fields |-> <<>>]

-----------------------------------------------------------------------------
(* The bit stream: bits fill a byte from the top; a partial byte gives its *)
(* low bits.                                                               *)

ranged_bits(max) == CHOOSE n \in 0..31 : max < 2^n /\ (n = 0 \/ 2^(n - 1) <= max)

LowBits(byte, n) == [i \in 1..n |-> (byte \div 2^(n - i)) % 2]
NumberOf(bits) ==
  LET upto[n \in Nat] == IF n = 0 THEN 0 ELSE 2 * upto[n - 1] + bits[n]
  IN  upto[Len(bits)]
Padded(w) == w \o [i \in 1..((8 - (Len(w) % 8)) % 8) |-> 0]

(* How many bits byte i of an n-bit field gives.                           *)
Share(n, i) == IF n < 8 * i THEN n % 8 ELSE 8
Octets(n) == [i \in 1..((n + 7) \div 8) |-> i]

write_bits(data, n) ==
  FlattenSeq([i \in DOMAIN Octets(n) |-> LowBits(data[i], Share(n, i))])
le_bytes(v) == [i \in 1..4 |-> (v \div (256^(i - 1))) % 256]
write_bits_le(v, n) == write_bits(le_bytes(v), n)
word_of(n) == Reverse(le_bytes(n))
write_u32(word) == write_bits(word, 32)
write_packet_id(id) ==
  LET wire == id + 134
  IN  IF wire >= 255 THEN LowBits(255, 8) \o LowBits(wire - 255, 8) ELSE LowBits(wire, 8)

(* A reader's answer: the value and where it stopped, or an error.         *)
Got(v, at) == [ok |-> TRUE, v |-> v, at |-> at]
Failed(at) == [ok |-> FALSE, v |-> 0, at |-> at]
require(in, at, n) == Len(in) - at >= n
Bits(in, at, n) == SubSeq(in, at + 1, at + n)

read_bits_le(in, at, n) ==
  LET bytes_read == [i \in DOMAIN Octets(n) |-> Bits(in, at + 8 * (i - 1), Share(n, i))]
  IN  IF require(in, at, n) THEN Got(NumberOf(FlattenSeq(Reverse(bytes_read))), at + n)
      ELSE Failed(at)
read_bytes(in, at, n) ==
  IF require(in, at, 8 * n)
  THEN Got([i \in 1..n |-> NumberOf(Bits(in, at + 8 * (i - 1), 8))], at + 8 * n)
  ELSE Failed(at)
read_bit(in, at) ==
  IF require(in, at, 1) THEN Got(in[at + 1] = 1, at + 1) ELSE Failed(at)
read_packet_id(in) ==
  LET first == read_bytes(in, 0, 1)
      second == read_bytes(in, 8, 1)
      offset(wire) == IF wire < 134 THEN 0 ELSE wire - 134
  IN  IF ~first.ok THEN first
      ELSE IF first.v[1] # 255 THEN Got(offset(first.v[1]), 8)
      ELSE IF second.ok THEN Got(offset(255 + second.v[1]), 16) ELSE second

-----------------------------------------------------------------------------
(* The forms a field can take.                                             *)

Flag == [form |-> "flag"]
Word == [form |-> "word"]
Ranged(n) == [form |-> "ranged", n |-> n]
Biased(n, scale, bias) == [form |-> "biased", n |-> n, scale |-> scale, bias |-> bias]
Whole(n) == [form |-> "whole", n |-> n]                \* u16 and u64
Text == [form |-> "text"]
Narrow(small, n, m) == [form |-> "narrow", small |-> small, n |-> n, m |-> m]
Optional(kind) == [form |-> "optional", of |-> kind]
Group(kinds) == [form |-> "group", of |-> kinds]
List(count, default, kind) ==
  [form |-> "list", count |-> count, default |-> default, of |-> kind]
Tolerated(kind, default) == [form |-> "tolerated", of |-> kind, default |-> default]
Skipped(n) == [form |-> "skipped", n |-> n]
Flags(n) == [form |-> "flags", n |-> n]
Framed(kind) == [form |-> "framed", of |-> kind]
Aligned == [form |-> "aligned"]
Axes(kind) == Group(<<kind, kind, kind>>)

(* The ways a list writes how long it is.                                  *)
write_count(count, default, n) ==
  LET over == <<1>> \o write_u32(word_of(n))
      capped == write_bits_le(IF n < default THEN n ELSE default, ranged_bits(default))
      exactly == IF n = default THEN <<0>> ELSE over
  IN  CASE count = "implicit"  -> exactly
        [] n < default         -> capped
        [] count = "ranged"    -> capped \o exactly
        [] count = "saturated" -> capped \o over

(* Mutant: a list at its default length is taken to be shorter than it.    *)
CountAlwaysInline(count, default, in, at) ==
  IF count = "implicit" THEN Got(default, at)
  ELSE read_bits_le(in, at, ranged_bits(default))

(* A count no stream can hold: the elements run out before it is reached.  *)
CountOfWord(whole) ==
  IF ~whole.ok THEN whole
  ELSE Got(IF whole.v[1] > 0 \/ whole.v[2] > 0 THEN 65536
           ELSE 256 * whole.v[3] + whole.v[4], whole.at)
CountBeyond(count, default, in, more) ==
  IF ~more.ok THEN more
  ELSE IF ~more.v /\ count # "saturated" THEN Got(default, more.at)
  ELSE CountOfWord(read_bytes(in, more.at, 4))
CountFrom(count, default, in, short) ==
  IF ~short.ok \/ short.v < default THEN short
  ELSE CountBeyond(count, default, in, read_bit(in, short.at))
read_count(count, default, in, at) ==
  CountFrom(count, default, in,
            IF count = "implicit" THEN Got(default, at)
            ELSE read_bits_le(in, at, ranged_bits(default)))

(* BitArray::CopyTo puts flag i at position i % 8 of byte i / 8; then every *)
(* complete group of four bytes is reversed.                               *)
Regrouped(data, n) ==
  [i \in 1..Len(data) |->
     LET group == (i - 1) \div 4
     IN  IF group < n \div 32 THEN data[8 * group + 5 - i] ELSE data[i]]
flag_bytes(present) ==
  LET n == Len(present)
      byte(i) == NumberOf([j \in 1..8 |-> LET k == 8 * i - j + 1
                                          IN  IF k <= n /\ present[k] THEN 1 ELSE 0])
  IN  Regrouped([i \in 1..((n + 7) \div 8) |-> byte(i)], n)
flags_from_bytes(data, n) ==
  LET plain == Regrouped(data, n)
  IN  [k \in 1..n |-> LowBits(plain[((k - 1) \div 8) + 1], 8)[8 - ((k - 1) % 8)] = 1]

-----------------------------------------------------------------------------
(* A field's bits when it starts at bit `at', and reading one back there.  *)

RECURSIVE encode_field(_, _, _)
encode_field(kind, v, at) ==
  LET InOrder(kinds) ==
        LET upto[n \in Nat] ==
              IF n = 0 THEN <<>>
              ELSE LET so_far == upto[n - 1]
                   IN  so_far \o encode_field(kinds[n], v[n], at + Len(so_far))
        IN  upto[Len(v)]
  IN  CASE kind.form = "flag"   -> IF v THEN <<1>> ELSE <<0>>
        [] kind.form = "word"   -> write_u32(v)
        [] kind.form = "ranged" -> write_bits_le(v, kind.n)
        [] kind.form = "biased" -> write_bits_le((v + kind.bias) * kind.scale, kind.n)
        [] kind.form = "whole"  -> write_bits(v, 8 * kind.n)
        [] kind.form = "text"   ->
             IF v = <<>> THEN <<0>>
             ELSE IF Len(v) < MAX_SHORT_STRING
             THEN <<1, 0>> \o LowBits(Len(v), 8) \o write_bits(v, 8 * Len(v))
             ELSE <<1, 1>> \o write_u32(word_of(Len(v))) \o write_bits(v, 8 * Len(v))
        [] kind.form = "narrow" ->
             IF v <= kind.small THEN <<0>> \o write_bits_le(v, kind.n)
             ELSE <<1>> \o write_bits_le(v, kind.m)
        [] kind.form = "optional" ->
             IF v = <<>> THEN <<0>> ELSE <<1>> \o encode_field(kind.of, v[1], at + 1)
        [] kind.form = "group" -> InOrder(kind.of)
        [] kind.form = "list"  ->
             write_count(kind.count, kind.default, Len(v))
               \o InOrder([i \in DOMAIN v |-> kind.of])
        [] kind.form = "tolerated" -> encode_field(kind.of, v, at)
        [] kind.form = "skipped" -> [i \in 1..kind.n |-> 1]
        [] kind.form = "flags"   -> write_bits(flag_bytes(v), kind.n)
        [] kind.form = "framed"  ->
             LET data == encode_field(kind.of, v, 0)
             IN  write_bits_le(Len(data), ranged_bits(131072)) \o data
        [] kind.form = "aligned" ->
             write_u32(word_of(Len(v)))
               \o [i \in 1..((8 - (at % 8)) % 8) |-> 0]
               \o write_bits(v, 8 * Len(v))

RECURSIVE decode_field(_, _, _)
decode_field(kind, in, at) ==
  LET flag == read_bit(in, at)
      Each(kinds, from) ==
        LET upto[n \in Nat] ==
              IF n = 0 THEN Got(<<>>, from)
              ELSE LET so_far == upto[n - 1]
                       got == decode_field(kinds[n], in, so_far.at)
                   IN  IF ~so_far.ok THEN so_far
                       ELSE IF got.ok THEN Got(Append(so_far.v, got.v), got.at) ELSE got
        IN  upto[Len(kinds)]
      Unbiased(raw) ==
        IF raw.ok THEN Got(raw.v \div kind.scale - kind.bias, raw.at) ELSE raw
      Elements(count) ==
        IF ~count.ok THEN count
        ELSE IF count.v > Len(in) THEN Failed(at)   \* an element is at least a bit
        ELSE Each([i \in 1..count.v |-> kind.of], count.at)
      Framed_by(length) ==
        LET inner == decode_field(kind.of, Bits(in, length.at, length.v), 0)
        IN  IF ~length.ok \/ ~require(in, length.at, length.v) THEN Failed(at)
            ELSE IF inner.ok THEN Got(inner.v, length.at + length.v) ELSE inner
  IN  CASE kind.form = "flag"   -> flag
        [] kind.form = "word"   -> read_bytes(in, at, 4)
        [] kind.form = "ranged" -> read_bits_le(in, at, kind.n)
        [] kind.form = "biased" -> Unbiased(read_bits_le(in, at, kind.n))
        [] kind.form = "whole" -> read_bytes(in, at, kind.n)
        [] kind.form = "text"   ->
             LET large == read_bit(in, flag.at)
                 length == read_bytes(in, large.at, 1)
             IN  IF ~flag.ok THEN flag
                 ELSE IF ~flag.v THEN Got(<<>>, flag.at)
                 ELSE IF ~large.ok \/ large.v THEN Failed(at)
                 ELSE IF length.ok THEN read_bytes(in, length.at, length.v[1]) ELSE length
        [] kind.form = "narrow" ->
             IF ~flag.ok THEN flag
             ELSE read_bits_le(in, flag.at, IF flag.v THEN kind.m ELSE kind.n)
        [] kind.form = "optional" ->
             IF ~flag.ok THEN flag
             ELSE IF ~flag.v THEN Got(<<>>, flag.at)
             ELSE LET got == decode_field(kind.of, in, flag.at)
                  IN  IF got.ok THEN Got(<<got.v>>, got.at) ELSE got
        [] kind.form = "group" -> Each(kind.of, at)
        [] kind.form = "list"  ->
             Elements(read_count(kind.count, kind.default, in, at))
        [] kind.form = "tolerated" ->
             LET got == decode_field(kind.of, in, at)
             IN  IF got.ok THEN got ELSE Got(kind.default, at)
        [] kind.form = "skipped" ->
             IF require(in, at, kind.n) THEN Got("skipped", at + kind.n) ELSE Failed(at)
        [] kind.form = "flags" ->
             LET data == [i \in DOMAIN Octets(kind.n) |->
                            NumberOf(Bits(in, at + 8 * (i - 1), Share(kind.n, i)))]
             IN  IF ~require(in, at, kind.n) THEN Failed(at)
                 ELSE Got(flags_from_bytes(data, kind.n), at + kind.n)
        [] kind.form = "framed" ->
             Framed_by(read_bits_le(in, at, ranged_bits(131072)))
        [] kind.form = "aligned" ->
             LET length == read_bytes(in, at, 4)
                 from == ((length.at + 7) \div 8) * 8
             IN  IF length.ok THEN read_bytes(in, from, length.v[4]) ELSE length

-----------------------------------------------------------------------------
(* What each field holds.  An item's spec is written one way in a packet   *)
(* and another in an entity's parameters.                                  *)

Resource == Optional(Word)
ItemSpec == Group(<<Resource, List("ranged", 4, Resource), Resource, Text>>)
ComponentItemSpec == Group(<<Resource, List("saturated", 4, Resource), Resource, Text>>)
ItemCount == Narrow(64, ranged_bits(64), ranged_bits(65536))
ItemObjective == Optional(Group(<<Resource, ItemCount>>))
ValueObjective == Optional(Group(<<Resource, Word>>))
TodoTask ==
  Group(<<Ranged(8), Flag, ItemObjective, ItemObjective, ValueObjective, Ranged(2)>>)
Attachment == Group(<<Resource, Resource>>)
CustomisationData ==
  Group(<<Ranged(2), Resource, List("implicit", 3, Resource), List("implicit", 1, Attachment)>>)
SyncData ==
  Framed(Group(<<Flags(35), Framed(Group(<<CustomisationData, ComponentItemSpec,
                                            List("ranged", TaskListDefault, TodoTask)>>))>>))
Angle == Biased(ranged_bits(25600), 1, 12800)
Position == Axes(Ranged(ranged_bits(65536)))
Coordinates == Axes(Ranged(ranged_bits(32)))
Direction == Axes(Ranged(ranged_bits(128)))

Words == {"source_entity", "target_entity", "entity_id", "interacting_entity", "map_header_seed"}
Texts == {"name", "home_island_name", "character_uuid", "message_uuid", "item_uuid",
          "owner_guid", "owner_name", "biome_name", "chat_host"}
Resources == {"item_id", "action", "equipped_action", "resource", "biome", "adventure",
              "name_hash", "parent_id"}
Switches == {"immediate", "manually_added", "is_home_world", "is_my_world"}
Widths == [source_slot |-> 6, target_slot |-> 6, slot |-> 6, bag_slot |-> 6, count |-> 8,
           equip_slot |-> 4, hotbar_slot |-> 3, hand |-> 1, crafting_slot |-> ranged_bits(12),
           slot_type |-> ranged_bits(2), task_id |-> 8, location |-> ranged_bits(8),
           action_type |-> ranged_bits(5), state_id |-> ranged_bits(11),
           dodge |-> ranged_bits(2), power |-> ranged_bits(32), progress |-> ranged_bits(32),
           side |-> ranged_bits(6), mode |-> ranged_bits(4), response |-> 3,
           game_mode |-> ranged_bits(4), chunk_count |-> ranged_bits(32768)]

KindOf(f) ==
  CASE f \in Words -> Word
    [] f \in Texts -> Text
    [] f \in Resources -> Resource
    [] f \in Switches -> Flag
    [] f \in DOMAIN Widths -> Ranged(Widths[f])
    [] f \in {"position", "hit"} -> Position
    [] f \in {"chunk", "voxel", "size_chunks", "coords"} -> Coordinates
    [] f \in {"direction", "normal"} -> Direction
    [] f = "face" -> Axes(Biased(ranged_bits(128), 64, 1))
    [] f \in {"yaw", "pitch"} -> Angle
    [] f \in {"item_spec", "item_spec_a", "item_spec_b"} -> ItemSpec
    [] f = "selected_item_specs" -> List("ranged", 5, ItemSpec)
    [] f = "customisation" -> CustomisationData
    [] f = "task" -> TodoTask
    [] f = "client_photo_id" -> Narrow(127, 7, 32)
    [] f = "is_avatar_photo" ->
         Tolerated(Group(<<Skipped(192), Flag>>), <<"skipped", FALSE>>)
    [] f = "trailing" -> Tolerated(Ranged(6), 0)
    [] f = "trailing_four" -> Tolerated(Ranged(4), 0)
    [] f = "sync_data" -> SyncData
    [] f \in {"data1", "data2"} -> Optional(Aligned)
    [] f = "adjacent_chunks" -> Optional(Ranged(7))
    [] f = "chat_port" -> Whole(2)
    [] f = "now_ms" -> Whole(8)

-----------------------------------------------------------------------------
(* The packets: the ordinal, what encode writes and what decode reads, in  *)
(* order.  Some encodes leave the id to their caller; it is written all    *)
(* the same.  A packet the server only reads is written by the client, to  *)
(* the layout its decoder quotes.                                          *)

Packet(id, encode, decode) == [id |-> id, encode |-> encode, decode |-> decode]
Bodyless(id) == Packet(id, <<>>, <<>>)

SaveCharacterName == Packet(108, <<"name">>, <<"name">>)
CreateHomeworld ==
  Packet(110, <<"home_island_name", "character_uuid">>,
         <<"home_island_name", "character_uuid">>)
SetCharacterCustomisation ==
  Packet(37, <<"entity_id", "customisation">>, <<"entity_id", "customisation">>)
NotifyPhotoCaptured ==
  Packet(150, <<"client_photo_id", "is_avatar_photo">>,
         <<"client_photo_id", "is_avatar_photo">>)
InventoryItemTransferToSlot ==
  Packet(51, <<"source_entity", "target_entity", "source_slot",
           "count", "target_slot">>,
         <<"source_entity", "target_entity", "source_slot",
           "count", "target_slot">>)
InventoryItemSwap ==
  Packet(53, <<"source_entity", "source_slot", "target_entity", "target_slot">>,
         <<"source_entity", "source_slot", "target_entity", "target_slot">>)
InventoryItemTransferAll ==
  Packet(52, <<"source_entity", "target_entity">>, <<"source_entity", "target_entity">>)
InventoryItemDestroy ==
  Packet(45, <<"entity_id", "slot", "count">>, <<"entity_id", "slot", "count">>)
RequestEquipInventoryItem ==
  Packet(13, <<"equip_slot", "entity_id", "bag_slot", "trailing">>,
         <<"equip_slot", "entity_id", "bag_slot", "trailing">>)
RequestUnEquipInventoryItem ==
  Packet(14, <<"equip_slot", "trailing_four">>, <<"equip_slot", "trailing_four">>)
RequestUiSettingsSlotChange ==
  Packet(15, <<"hotbar_slot", "hand", "item_spec">>,
         <<"hotbar_slot", "hand", "item_spec">>)
RequestUiSettingsSetActiveSlot == Packet(16, <<"hotbar_slot">>, <<"hotbar_slot">>)
EntityMoved ==
  Packet(102, <<"entity_id", "position", "yaw">>, <<"entity_id", "position", "yaw">>)
SetLookAtDirection ==
  Packet(106, <<"mode", "pitch", "yaw">>, <<"mode", "pitch", "yaw">>)
ExecuteEntityAction ==
  Packet(64, <<"source_entity", "target_entity", "action">>,
         <<"source_entity", "target_entity", "action">>)
InteractWithEntity ==
  Packet(20, <<"interacting_entity", "target_entity">>,
         <<"interacting_entity", "target_entity">>)
PerformAlwaysActions ==
  Packet(19, <<"location", "position", "direction", "power">>,
         <<"location", "position", "direction", "power">>)
PerformVoxelActions ==
  Packet(17, <<"location", "chunk", "voxel", "side", "power", "hit", "face">>,
         <<"location", "chunk", "voxel", "side", "power", "hit", "face">>)
QueueRecipeOnEntity ==
  Packet(39, <<"entity_id", "item_id", "selected_item_specs">>,
         <<"entity_id", "item_id", "selected_item_specs">>)
CollectCraftedItemInSlot ==
  Packet(40, <<"entity_id", "crafting_slot", "immediate">>,
         <<"entity_id", "crafting_slot", "immediate">>)
CraftingQueryQueue == Packet(41, <<"entity_id">>, <<"entity_id">>)
MoveItemToCraftingDropSlot ==
  Packet(153, <<"slot_type", "slot">>, <<"slot_type", "slot">>)
RemoveItemFromCraftingDropSlot == Packet(154, <<"slot_type">>, <<"slot_type">>)
PerformCraftingDropSlotAction == Packet(155, <<"slot_type">>, <<"slot_type">>)
TodoListTaskAdd ==
  Packet(146, <<"task", "manually_added">>, <<"task", "manually_added">>)
TodoListTaskRef(id) == Packet(id, <<"task_id">>, <<"task_id">>)
EquippedItemUsed ==
  Packet(60, <<"location", "equipped_action", "action_type">>,
         <<"location", "equipped_action", "action_type">>)
PerformEntityActions ==
  Packet(18, <<"location", "entity_id", "position", "direction",
           "normal", "power", "progress">>,
         <<"location", "entity_id", "position", "direction",
           "normal", "power", "progress">>)
StopUsingEquippedItem == Packet(61, <<"location">>, <<"location">>)
SetPlayerState == Packet(35, <<"state_id">>, <<"state_id">>)
PlayerDodged == Packet(158, <<"dodge">>, <<"dodge">>)
message_uuid_packet(id) == Packet(id, <<"message_uuid">>, <<"message_uuid">>)
TakeMailAttachment ==
  Packet(98, <<"message_uuid", "item_uuid">>, <<"message_uuid", "item_uuid">>)
CharacterCreationResponse == Packet(109, <<"response">>, <<"response">>)
MapDefinition ==
  Packet(6, <<"size_chunks", "biome", "game_mode">>,
         <<"size_chunks", "biome", "game_mode">>)
BeginSync == Packet(7, <<"chunk_count">>, <<"chunk_count">>)
SetClientEntity == Packet(104, <<"entity_id">>, <<"entity_id">>)
EntitySyncPacket == Packet(101, <<"entity_id", "sync_data">>, <<"entity_id", "sync_data">>)
EntityRemovedPacket == Packet(103, <<"entity_id">>, <<"entity_id">>)
ServerInfo ==
  Packet(58, <<"owner_guid", "owner_name", "biome_name", "adventure", "map_header_seed",
           "is_home_world", "is_my_world", "chat_host", "chat_port">>,
         <<"owner_guid", "owner_name", "biome_name", "adventure", "map_header_seed",
           "is_home_world", "is_my_world", "chat_host", "chat_port">>)
EntityAddPacket ==
  Packet(100, <<"name_hash", "entity_id", "parent_id", "sync_data">>,
         <<"name_hash", "entity_id", "parent_id", "sync_data">>)
ChunkSync ==
  Packet(8, <<"coords", "data1", "data2", "adjacent_chunks">>,
         <<"coords", "data1", "data2", "adjacent_chunks">>)
TimeSync == Packet(57, <<"now_ms">>, <<"now_ms">>)
NewMailReceived == Packet(93, <<"message_uuid">>, <<"message_uuid">>)
NewResourceEncountered ==
  Packet(43, <<"entity_id", "item_spec">>, <<"entity_id", "item_spec">>)
CraftingNotification ==
  Packet(67, <<"resource", "item_spec_a", "item_spec_b">>,
         <<"resource", "item_spec_a", "item_spec_b">>)
CraftingFailed == Packet(42, <<"entity_id", "resource">>, <<"entity_id", "resource">>)

(* The client's packets the server decodes, by the arms of its parse ...   *)
ParsedPackets ==
  [SaveCharacterName |-> SaveCharacterName, CreateHomeworld |-> CreateHomeworld,
   SetCharacterCustomisation |-> SetCharacterCustomisation,
   NotifyPhotoCaptured |-> NotifyPhotoCaptured,
   InventoryItemTransferToSlot |-> InventoryItemTransferToSlot,
   InventoryItemSwap |-> InventoryItemSwap,
   InventoryItemTransferAll |-> InventoryItemTransferAll,
   InventoryItemDestroy |-> InventoryItemDestroy,
   RequestUnEquipInventoryItem |-> RequestUnEquipInventoryItem,
   RequestEquipInventoryItem |-> RequestEquipInventoryItem,
   RequestUiSettingsSlotChange |-> RequestUiSettingsSlotChange,
   RequestUiSettingsSetActiveSlot |-> RequestUiSettingsSetActiveSlot,
   EntityMoved |-> EntityMoved, SetLookAtDirection |-> SetLookAtDirection,
   ExecuteEntityAction |-> ExecuteEntityAction,
   InteractWithEntity |-> InteractWithEntity,
   PerformAlwaysActions |-> PerformAlwaysActions,
   PerformVoxelActions |-> PerformVoxelActions,
   QueueRecipeOnEntity |-> QueueRecipeOnEntity,
   CollectCraftedItemInSlot |-> CollectCraftedItemInSlot,
   CraftingQueryQueue |-> CraftingQueryQueue,
   MoveItemToCraftingDropSlot |-> MoveItemToCraftingDropSlot,
   RemoveItemFromCraftingDropSlot |-> RemoveItemFromCraftingDropSlot,
   PerformCraftingDropSlotAction |-> PerformCraftingDropSlotAction,
   TodoListTaskAdd |-> TodoListTaskAdd, EquippedItemUsed |-> EquippedItemUsed,
   PerformEntityActions |-> PerformEntityActions,
   StopUsingEquippedItem |-> StopUsingEquippedItem, SetPlayerState |-> SetPlayerState,
   PlayerDodged |-> PlayerDodged, TakeMailAttachment |-> TakeMailAttachment,
   JoinHomeWorld |-> Bodyless(84), TodoListTaskErase |-> TodoListTaskRef(145),
   TodoListTaskRemove |-> TodoListTaskRef(147),
   TodoListTaskReAdd |-> TodoListTaskRef(148), MailRead |-> message_uuid_packet(94),
   MailGiftSelected |-> message_uuid_packet(95), DeleteMail |-> message_uuid_packet(97),
   MailCheck |-> Bodyless(96), RequestChatChannelData |-> Bodyless(91)]

(* ... and those their wire id is the whole of.                            *)
WireIdPackets ==
  [ClientConnected |-> Bodyless(1), ClientReadyToSync |-> Bodyless(2),
   ClientReadyToPlay |-> Bodyless(3), ClientInitialSyncFinished |-> Bodyless(4),
   IFellTooFar |-> Bodyless(24), PlayerFallenOffTheWorld |-> Bodyless(156),
   RequestRespawn |-> Bodyless(87)]

(* The server's packets; the client tells them apart by their ids.         *)
ServerPackets ==
  [CharacterCreationResponse |-> CharacterCreationResponse,
   MapDefinition |-> MapDefinition, BeginSync |-> BeginSync,
   SetClientEntity |-> SetClientEntity, EntitySync |-> EntitySyncPacket,
   EntityRemoved |-> EntityRemovedPacket, ServerInfo |-> ServerInfo, EntityAdd |-> EntityAddPacket,
   ChunkSync |-> ChunkSync, TimeSync |-> TimeSync, NewMailReceived |-> NewMailReceived,
   NewResourceEncountered |-> NewResourceEncountered,
   CraftingNotification |-> CraftingNotification, CraftingFailed |-> CraftingFailed]

Layouts == ParsedPackets @@ WireIdPackets @@ ServerPackets
Unhandled == [packet |-> "Unknown", fields |-> <<>>]

Packed(name, fields) ==
  LET id == write_packet_id(Layouts[name].id)
      order == Layouts[name].encode
      body_of == encode_field(Group([i \in DOMAIN order |-> KindOf(order[i])]),
                              [i \in DOMAIN order |-> fields[order[i]]], Len(id))
  IN  Padded(id \o body_of)

Named(order, got) ==
  IF ~got.ok THEN got
  ELSE Got([f \in ToSet(order) |-> got.v[CHOOSE i \in DOMAIN order : order[i] = f]], got.at)
FieldsRead(order, in, at) ==
  Named(order, decode_field(Group([i \in DOMAIN order |-> KindOf(order[i])]), in, at))

(* Mutant: a body that fails to decode is what had been read of it.        *)
UnpackedAnyhow(name, in, at) ==
  LET order == Layouts[name].decode
      readable == {n \in 0..Len(order) : FieldsRead(SubSeq(order, 1, n), in, at).ok}
      most == CHOOSE n \in readable : \A m \in readable : m <= n
  IN  FieldsRead(SubSeq(order, 1, most), in, at)

(* decode: the fields in order, or an error at the first that is missing.  *)
Unpacked(name, in, at) == FieldsRead(Layouts[name].decode, in, at)

(* ClientPacket::parse, and a client's reading of the server's packets.    *)
Understood(answers) ==
  IF \E a \in answers : a.got.ok
  THEN LET a == CHOOSE a \in answers : a.got.ok IN [packet |-> a.packet, fields |-> a.got.v]
  ELSE Unhandled
Answers(names, in, at) == {[packet |-> name, got |-> Unpacked(name, in, at)] : name \in names}
parse(in, known) ==
  LET id == read_packet_id(in)
  IN  IF ~id.ok THEN Unhandled
      ELSE Understood(Answers({name \in known : Layouts[name].id = id.v}, in, id.at))

-----------------------------------------------------------------------------
(* The values to send: each field at the ends of its form and past the     *)
(* turn of its encoding.                                                   *)

RECURSIVE Sample(_, _)
Sample(kind, i) ==
  LET element(n) == Sample(kind.of, ((i + n) % 4) + 1)
      letters(n) == [j \in 1..n |-> 64 + j]
  IN  CASE kind.form = "flag" -> i > 2
        [] kind.form = "word" -> <<<<0, 0, 0, 0>>, <<0, 0, 0, 10>>, <<255, 128, 1, 254>>,
                                   <<1, 2, 3, 4>>>>[i]
        [] kind.form = "ranged" -> <<0, 1, 2^kind.n - 1, 2^(kind.n - 1)>>[i]
        [] kind.form = "biased" -> <<-kind.bias, 0, kind.bias, 1>>[i]
        [] kind.form = "whole" -> [j \in 1..kind.n |-> (37 * i * j) % 256]
        [] kind.form = "text"   -> letters(<<0, 1, MAX_SHORT_STRING - 1, MAX_SHORT_STRING>>[i])
        [] kind.form = "narrow" -> <<0, kind.small, kind.small + 1, 2^(kind.n + 1)>>[i]
        [] kind.form = "optional" -> IF i = 1 THEN <<>> ELSE <<Sample(kind.of, i)>>
        [] kind.form = "group"  -> [j \in DOMAIN kind.of |-> Sample(kind.of[j], i)]
        [] kind.form = "list"   ->
             [j \in 1..<<0, kind.default - 1, kind.default, kind.default + 1>>[i] |-> element(j)]
        [] kind.form \in {"tolerated", "framed"} -> Sample(kind.of, i)
        [] kind.form = "skipped" -> "skipped"
        [] kind.form = "flags"  -> [j \in 1..kind.n |-> (i * j) % 3 = 1]
        [] kind.form = "aligned" -> letters(i - 1)

Bodies(name) ==
  LET fields == ToSet(Layouts[name].encode)
      all == {[f \in fields |-> Sample(KindOf(f), IF f \in odd THEN i ELSE j)] :
                odd \in {{}} \cup {{f} : f \in fields}, i \in 1..4, j \in 1..4}
  IN  {some \in all : "response" \in fields => some["response"] < 4}   \* its four values

WireInit == body = Silence /\ bytes = <<>> /\ cut = 0 /\ read = Silence

Compose(name) ==
  /\ body = Silence
  /\ \E fields \in Bodies(name) :
       /\ body' = [packet |-> name, fields |-> fields]
       /\ bytes' = Packed(name, fields)
  /\ UNCHANGED <<cut, read>>

(* A datagram arrives short.                                               *)
Truncate ==
  /\ body # Silence /\ read = Silence /\ cut < MaxCut /\ Len(bytes) >= 8
  /\ bytes' = SubSeq(bytes, 1, Len(bytes) - 8)
  /\ cut' = cut + 1
  /\ UNCHANGED <<body, read>>

Parse ==
  /\ body # Silence /\ read = Silence
  /\ read' = parse(bytes, IF body.packet \in DOMAIN ServerPackets THEN DOMAIN ServerPackets
                          ELSE DOMAIN ParsedPackets \cup DOMAIN WireIdPackets)
  /\ UNCHANGED <<body, bytes, cut>>

NextPacket ==
  /\ read # Silence
  /\ body' = Silence /\ bytes' = <<>> /\ cut' = 0 /\ read' = Silence

WireNext ==
  \/ \E name \in DOMAIN Layouts : Compose(name)
  \/ Truncate \/ Parse \/ NextPacket

-----------------------------------------------------------------------------
(* Properties.                                                             *)

(* A text of 255 bytes or more goes out in a form no reader here accepts.  *)
RECURSIVE Legible(_, _)
Legible(kind, v) ==
  CASE kind.form = "text"     -> Len(v) < MAX_SHORT_STRING
    [] kind.form = "optional" -> v = <<>> \/ Legible(kind.of, v[1])
    [] kind.form = "group"    -> \A i \in DOMAIN v : Legible(kind.of[i], v[i])
    [] kind.form = "list"     -> \A i \in DOMAIN v : Legible(kind.of, v[i])
    [] kind.form \in {"framed", "tolerated"} -> Legible(kind.of, v)
    [] OTHER -> TRUE

(* Reading gives back what was written: a packet that arrives whole is the *)
(* packet that was sent, field for field and whatever its lists, counts    *)
(* and options are, or it is left unhandled because of a text too long to  *)
(* read.  No value makes one packet pass for another.                      *)
ReadsAsWritten ==
  read # Silence /\ cut = 0 =>
    read = IF \A f \in DOMAIN body.fields : Legible(KindOf(f), body.fields[f])
           THEN body ELSE Unhandled

(* The fields a decoder may do without.                                    *)
Spare == {"trailing", "trailing_four", "is_avatar_photo"}
Demanded(fields) == [f \in DOMAIN fields \ Spare |-> fields[f]]

(* A packet that arrives short is never acted on with fields made up: it   *)
(* is unhandled, or it is the packet sent in all but the fields its        *)
(* decoder tolerates the absence of.                                       *)
NothingIsMadeUp ==
  read # Silence /\ read # Unhandled =>
    /\ read.packet = body.packet
    /\ Demanded(read.fields) = Demanded(body.fields)
=============================================================================
