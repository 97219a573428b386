------------------------- MODULE SlideWindowReceiver -------------------------
(***************************************************************************)
(* The receiver's sliding window: src/src/slideWindowReceiver.{h,cpp}.     *)
(*                                                                         *)
(* receiveDataPacket holds the object's mutex for its whole body and is    *)
(* one action.  The file it writes is part of the state: a function from   *)
(* the packets written so far to what was written at their place.          *)
(* curWindowSize never changes (the advertised window is disabled in the   *)
(* code), so it is the constant INIT_WINDOW_SIZE.                          *)
(***************************************************************************)
EXTENDS Integers, Sequences, Packet

CONSTANT INIT_WINDOW_SIZE

ASSUME ReceiverAssumption == INIT_WINDOW_SIZE \in Nat \ {0}

VARIABLES
  receiverWindow,            \* slideWindow, the deque of items
  nextExpectedPacketSeqNum,
  lastPacketSeqNumReceived,  \* has the FINISH packet been seen?
  lastPacketSeqNum,          \* its sequence number, if it has
  file                       \* what fileToWriteFd holds

receiverVars ==
  <<receiverWindow, nextExpectedPacketSeqNum, lastPacketSeqNumReceived,
    lastPacketSeqNum, file>>

NewReceiverItem(seqNum) == [seqNum |-> seqNum, state |-> "NOT_RECEIVED"]

ReceiverInit ==
  /\ receiverWindow = [i \in 1..INIT_WINDOW_SIZE |-> NewReceiverItem(i - 1)]
  /\ nextExpectedPacketSeqNum = 0
  /\ lastPacketSeqNumReceived = FALSE
  /\ lastPacketSeqNum = 0
  /\ file = [seqNum \in {} |-> "chunk"]

ReceiverFinished ==
  /\ lastPacketSeqNumReceived
  /\ nextExpectedPacketSeqNum = lastPacketSeqNum + 1

-----------------------------------------------------------------------------
InBuffer(seqNum) ==
  /\ seqNum >= nextExpectedPacketSeqNum
  /\ seqNum < nextExpectedPacketSeqNum + INIT_WINDOW_SIZE

\* lseek to the place of packet seqNum, then write the data there.
WriteAt(seqNum, data) ==
  file' = [s \in DOMAIN file \cup {seqNum} |->
             IF s = seqNum THEN data ELSE file[s]]

\* Take the received items off the front of `window` (there are n of them)
\* and refill the window from the right.
SlidePast(window, n) ==
  /\ \A i \in 1..n : window[i].state = "RECEIVED"
  /\ n < INIT_WINDOW_SIZE => window[n + 1].state = "NOT_RECEIVED"
  /\ nextExpectedPacketSeqNum' = nextExpectedPacketSeqNum + n
  /\ receiverWindow' =
       [i \in 1..INIT_WINDOW_SIZE |->
          IF i + n <= INIT_WINDOW_SIZE THEN window[i + n]
          ELSE NewReceiverItem(nextExpectedPacketSeqNum + n + i - 1)]

BufferPacket(dp) ==
  LET position == dp.seqNum - nextExpectedPacketSeqNum + 1
      item     == receiverWindow[position]
  IN  /\ IF item.state = "NOT_RECEIVED"
         THEN WriteAt(item.seqNum, dp.data)
         ELSE UNCHANGED file
      /\ \E n \in 0..INIT_WINDOW_SIZE :
           SlidePast([receiverWindow EXCEPT ![position].state = "RECEIVED"], n)

\* Mutant: the type of the packet is not looked at.
NoteAnyPacket(dp) ==
  /\ lastPacketSeqNum' = dp.seqNum
  /\ lastPacketSeqNumReceived' = TRUE

NoteLastPacket(dp) ==
  IF dp.type = DATA_PACKET_TYPE_FINISH
  THEN /\ lastPacketSeqNum' = dp.seqNum
       /\ lastPacketSeqNumReceived' = TRUE
  ELSE UNCHANGED <<lastPacketSeqNum, lastPacketSeqNumReceived>>

\* Mutant: a packet out of the buffer is written like any other.
ReceiveAndWriteAlways(dp) ==
  /\ dp.type \in {DATA_PACKET_TYPE_REGULAR, DATA_PACKET_TYPE_FINISH}
  /\ NoteLastPacket(dp)
  /\ IF InBuffer(dp.seqNum)
     THEN BufferPacket(dp)
     ELSE /\ WriteAt(dp.seqNum, dp.data)
          /\ UNCHANGED <<receiverWindow, nextExpectedPacketSeqNum>>

ReceiveDataPacket(dp) ==
  /\ dp.type \in {DATA_PACKET_TYPE_REGULAR, DATA_PACKET_TYPE_FINISH}
  /\ NoteLastPacket(dp)
  /\ IF InBuffer(dp.seqNum)
     THEN BufferPacket(dp)
     ELSE UNCHANGED <<receiverWindow, nextExpectedPacketSeqNum, file>>

\* Mutants of AckFor: the selective field names the packet even if it is out
\* of the buffer; the cumulative field follows the packet just received.
AckForAnyPacket(dp) ==
  [type |-> ACK_PACKET_TYPE_REGULAR,
   cumulativeSeqNum |-> nextExpectedPacketSeqNum',
   selectiveSeqNum  |-> dp.seqNum]

AckForLatest(dp) ==
  [type |-> ACK_PACKET_TYPE_REGULAR,
   cumulativeSeqNum |-> dp.seqNum + 1,
   selectiveSeqNum  |-> IF InBuffer(dp.seqNum) THEN dp.seqNum
                        ELSE nextExpectedPacketSeqNum']

\* The acknowledgement receiveDataPacket returns, once it has updated the
\* window.  Out of the buffer, both fields are the next expected packet.
AckFor(dp) ==
  [type |-> ACK_PACKET_TYPE_REGULAR,
   cumulativeSeqNum |-> nextExpectedPacketSeqNum',
   selectiveSeqNum  |-> IF InBuffer(dp.seqNum) THEN dp.seqNum
                        ELSE nextExpectedPacketSeqNum']

-----------------------------------------------------------------------------
\* The types of the receiver's variables; the buffer is always full-sized.
ReceiverTypeOK ==
  /\ receiverWindow \in
       [1..INIT_WINDOW_SIZE ->
          [seqNum : Nat, state : {"RECEIVED", "NOT_RECEIVED"}]]
  /\ nextExpectedPacketSeqNum \in Nat
  /\ lastPacketSeqNumReceived \in BOOLEAN
  /\ lastPacketSeqNum \in Nat
  /\ DOMAIN file \subseteq Nat
  /\ \A s \in DOMAIN file : file[s] \in Payload

\* The item at position i is the item of packet nextExpected + i - 1.
ReceiverAligned ==
  \A i \in 1..INIT_WINDOW_SIZE :
    receiverWindow[i].seqNum = nextExpectedPacketSeqNum + i - 1

\* The first packet of the buffer is always missing: the window slides past
\* every packet that is not.
HeadNeverReceived == receiverWindow[1].state = "NOT_RECEIVED"

Buffered ==
  {receiverWindow[i].seqNum :
     i \in {j \in 1..INIT_WINDOW_SIZE : receiverWindow[j].state = "RECEIVED"}}

\* The file contains the packets the window has slid past and the buffered
\* ones, and no others.
FileIsReceived ==
  DOMAIN file = (0..(nextExpectedPacketSeqNum - 1)) \cup Buffered

\* Together with the type invariant, these are inductive.
ReceiverInv == ReceiverAligned /\ HeadNeverReceived /\ FileIsReceived

=============================================================================
