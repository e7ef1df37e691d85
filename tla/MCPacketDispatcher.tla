------------------------- MODULE MCPacketDispatcher -------------------------
(***************************************************************************)
(* Instances of PacketDispatcher for TLC.  The packets carry every kind of *)
(* header mask the queue choice tells apart (a low bit next to a high one, *)
(* both high bits, no bit at all), and one has a type without a handler.   *)
(***************************************************************************)
EXTENDS PacketDispatcher

CONSTANTS FIND_MATCH, UPDATE, first, second

MCPacketType == {FIND_MATCH, UPDATE}
MCRegistered == {FIND_MATCH}
MCContent == {first, second}

Packet(mask, type, content) ==
  [headerMask |-> mask, type |-> type, content |-> content]

MCArriving ==
  {Packet({"URGENT", "NORMAL"}, FIND_MATCH, first),
   Packet({"URGENT", "CRITIC"}, FIND_MATCH, second),
   Packet({"CRITIC", "NORMAL"}, FIND_MATCH, first),
   Packet({"NORMAL"}, FIND_MATCH, first),
   Packet({}, UPDATE, second)}
=============================================================================
