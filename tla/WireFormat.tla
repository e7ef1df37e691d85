----------------------------- MODULE WireFormat -----------------------------
(***************************************************************************)
(* NetworkDefs.h: a datagram is a byte with the header mask, a byte with   *)
(* the packet type, and the content, put together in a buffer on the stack *)
(* whose size nothing compares with the content.                           *)
(***************************************************************************)
EXTENDS Naturals, Sequences

CONSTANT BufferSize  \* the size of the buffers of SendDatagram and receive

ASSUME BufferSizeAssumption == BufferSize \in Nat /\ BufferSize >= 2

Byte == 0..255

NORMAL == 1
CRITIC == 2
URGENT == 4

INVALID == 0
VERSION == 5
UPDATE == 6
OK == 7
UPDATE_MAP == 8

CreateRawDatagram(headerMask, type, content) == <<headerMask, type>> \o content

\* What SendDatagram needs and does not test: memcpy stays in the buffer.
FitsBuffer(content) == 2 + Len(content) <= BufferSize

\* Mutant of Readable: a datagram without content is too short.
ReadableWithContent(data) == Len(data) > 2 /\ data[2] # INVALID

\* When ParseRawDatagram returns true, and what it then returns.
Readable(data) == Len(data) >= 2 /\ data[2] # INVALID

ParseRawDatagram(data, sender) ==
  [headerMask |-> data[1], type |-> data[2],
   content |-> SubSeq(data, 3, Len(data)), sender |-> sender]

\* EnqueuePacket looks at the two high bits of the mask only.
Bit(mask, bit) == (mask \div bit) % 2 = 1
QueueOf(job) == IF Bit(job.headerMask, URGENT) THEN "URGENT"
                ELSE IF Bit(job.headerMask, CRITIC) THEN "CRITIC"
                ELSE "NORMAL"
=============================================================================
