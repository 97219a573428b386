------------------------------- MODULE Packet -------------------------------
(***************************************************************************)
(* The two kinds of datagrams (src/src/packet.h) and their marshalling     *)
(* (src/src/packet.c).                                                     *)
(*                                                                         *)
(* In memory a packet carries a numeric type; on the wire the type is a    *)
(* two-letter tag.  The 1450 data bytes of a packet are abstracted to what *)
(* the protocol can tell apart: they are the bytes of the file that belong *)
(* to the sequence number ("chunk"), or whatever is in memory that has     *)
(* been freed ("stale").  The timestamps are left out: only the round-trip *)
(* estimator looks at them.  So are the lengths of datagrams, which        *)
(* packet.c asserts to be those of a packet: both programs send no others. *)
(***************************************************************************)
EXTENDS Integers

DATA_PACKET_TYPE_INVALID   == -1
DATA_PACKET_TYPE_HANDSHAKE == 0
DATA_PACKET_TYPE_REGULAR   == 1
DATA_PACKET_TYPE_FINISH    == 2

ACK_PACKET_TYPE_INVALID   == -1
ACK_PACKET_TYPE_HANDSHAKE == 0
ACK_PACKET_TYPE_REGULAR   == 1

Payload == {"chunk", "stale"}

(***************************************************************************)
(* A data packet in a buffer.  The data is read through dataPacket->data   *)
(* when the buffer is filled, not when the packet was prepared: `bytes` is *)
(* what that memory holds now.                                             *)
(***************************************************************************)
DataTag(type) ==
  CASE type = DATA_PACKET_TYPE_HANDSHAKE -> "hs"
    [] type = DATA_PACKET_TYPE_REGULAR   -> "re"
    [] type = DATA_PACKET_TYPE_FINISH    -> "fi"

FillBufferDataPacket(dp, bytes) ==
  [tag |-> DataTag(dp.type), seqNum |-> dp.seqNum, data |-> bytes]

DataTypeOf(tag) ==
  CASE tag = "hs" -> DATA_PACKET_TYPE_HANDSHAKE
    [] tag = "re" -> DATA_PACKET_TYPE_REGULAR
    [] tag = "fi" -> DATA_PACKET_TYPE_FINISH
    [] OTHER      -> DATA_PACKET_TYPE_INVALID

\* Of a datagram of another kind only the type is set.
ReadBufferDataPacket(buffer) ==
  IF DataTypeOf(buffer.tag) = DATA_PACKET_TYPE_INVALID
  THEN [type |-> DATA_PACKET_TYPE_INVALID]
  ELSE [type |-> DataTypeOf(buffer.tag), seqNum |-> buffer.seqNum,
        data |-> buffer.data]

(***************************************************************************)
(* An acknowledgement in a buffer: cumulative (the next packet the         *)
(* receiver expects) and selective (the packet it answers).                *)
(***************************************************************************)
AckTag(type) ==
  CASE type = ACK_PACKET_TYPE_HANDSHAKE -> "hs"
    [] type = ACK_PACKET_TYPE_REGULAR   -> "re"

FillBufferAckPacket(ack) ==
  [tag |-> AckTag(ack.type), cumulativeSeqNum |-> ack.cumulativeSeqNum,
   selectiveSeqNum |-> ack.selectiveSeqNum]

AckTypeOf(tag) ==
  CASE tag = "hs" -> ACK_PACKET_TYPE_HANDSHAKE
    [] tag = "re" -> ACK_PACKET_TYPE_REGULAR
    [] OTHER      -> ACK_PACKET_TYPE_INVALID

ReadBufferAckPacket(buffer) ==
  IF AckTypeOf(buffer.tag) = ACK_PACKET_TYPE_INVALID
  THEN [type |-> ACK_PACKET_TYPE_INVALID]
  ELSE [type |-> AckTypeOf(buffer.tag),
        cumulativeSeqNum |-> buffer.cumulativeSeqNum,
        selectiveSeqNum |-> buffer.selectiveSeqNum]

=============================================================================
