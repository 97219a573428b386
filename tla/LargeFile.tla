------------------------------ MODULE LargeFile ------------------------------
(***************************************************************************)
(* Files of any size: how src/src/slideWindowSender.cpp cuts a file into   *)
(* packets and src/src/slideWindowReceiver.cpp puts it together again,     *)
(* with the widths the numbers have in the code.                           *)
(*                                                                         *)
(* bytesToSend and bytesSent have 64 bits and are exact here.  Sequence    *)
(* numbers are unsigned int, and so are the file offsets both sides pass   *)
(* to lseek, as they are the product of a sequence number and the size of  *)
(* a packet: all of them are taken modulo UINT_MAX + 1.                    *)
(*                                                                         *)
(* SlideWindowProtocol assumes what makes these numbers exact and shows    *)
(* the protocol correct under that assumption; here the assumption is      *)
(* dropped and the protocol reduced to what the numbers are used for.  Any *)
(* packet may be received at any time and any number of times, which       *)
(* stands for every congestion window, and so may any cumulative           *)
(* acknowledgement the receiver has sent, or skipped, so far.              *)
(***************************************************************************)
EXTENDS Integers

CONSTANTS
  DATA_PACKET_DATA_SIZE,
  UINT_MAX,
  INIT_WINDOW_SIZE,  \* the receiver's buffer
  FileSizes,         \* sizes the file may have
  MaxBytes           \* bound: the largest bytesToSend

\* With more packets than there are sequence numbers, lastPacketSize exceeds
\* the buffer that is read into.
ASSUME LargeFileAssumption ==
  /\ UINT_MAX \in Nat
  /\ DATA_PACKET_DATA_SIZE \in 2..UINT_MAX
  /\ INIT_WINDOW_SIZE \in 1..UINT_MAX
  /\ FileSizes \subseteq Nat
  /\ MaxBytes \in 0..((UINT_MAX + 1) * DATA_PACKET_DATA_SIZE)

VARIABLES
  fileSize, bytesToSend,       \* what the user asks for; they never change
  slideWindowLeftBoundSeqNum,
  bytesSent,
  nextExpectedPacketSeqNum,
  receivedAhead,               \* packets in the receiver's buffer
  lastPacketSeqNumReceived,
  file                         \* file[o]: which byte was written at place o

request      == <<fileSize, bytesToSend>>
senderSide   == <<slideWindowLeftBoundSeqNum, bytesSent>>
receiverSide == <<nextExpectedPacketSeqNum, receivedAhead,
                  lastPacketSeqNumReceived, file>>
largeVars    == <<request, senderSide, receiverSide>>

Uint(n) == n % (UINT_MAX + 1)

Smaller(a, b) == IF a <= b THEN a ELSE b
Larger(a, b)  == IF a >= b THEN a ELSE b

-----------------------------------------------------------------------------
(***************************************************************************)
(* How the file is cut into packets.                                       *)
(***************************************************************************)

\* Mutant: a file of full packets ends with an empty one.
LastPacketSeqNumAlways == Uint(bytesToSend \div DATA_PACKET_DATA_SIZE)

LastPacketSeqNum ==
  IF bytesToSend % DATA_PACKET_DATA_SIZE = 0
  THEN Uint(bytesToSend \div DATA_PACKET_DATA_SIZE - 1)
  ELSE Uint(bytesToSend \div DATA_PACKET_DATA_SIZE)

\* Mutant: the place has 64 bits.
ReadOffsetExact(seqNum) == seqNum * DATA_PACKET_DATA_SIZE

ReadOffset(seqNum) == Uint(seqNum * DATA_PACKET_DATA_SIZE)

WriteOffset(seqNum) == Uint(seqNum * DATA_PACKET_DATA_SIZE)

LastPacketSize ==
  IF bytesToSend % DATA_PACKET_DATA_SIZE = 0
  THEN DATA_PACKET_DATA_SIZE
  ELSE Uint(bytesToSend - Uint(LastPacketSeqNum * DATA_PACKET_DATA_SIZE))

SizeAsked(seqNum) ==
  IF seqNum = LastPacketSeqNum THEN LastPacketSize ELSE DATA_PACKET_DATA_SIZE

\* read() stops at the end of the file.
\* (Mutant: what was asked for is taken for what was read.)
DataSizeAsked(seqNum) == SizeAsked(seqNum)

DataSize(seqNum) ==
  Larger(0, Smaller(SizeAsked(seqNum), fileSize - ReadOffset(seqNum)))

\* The bytes read for the first n packets.
SizesUpTo[n \in Nat] ==
  IF n = 0 THEN 0 ELSE SizesUpTo[n - 1] + DataSize(n - 1)

-----------------------------------------------------------------------------
LargeInit ==
  /\ fileSize \in FileSizes
  /\ bytesToSend \in 0..MaxBytes
  /\ slideWindowLeftBoundSeqNum = 0
  /\ bytesSent = 0
  /\ nextExpectedPacketSeqNum = 0
  /\ receivedAhead = {}
  /\ lastPacketSeqNumReceived = FALSE
  /\ file = [place \in {} |-> 0]

SenderFinished == bytesSent = bytesToSend

ReceiverFinished ==
  /\ lastPacketSeqNumReceived
  /\ nextExpectedPacketSeqNum = Uint(LastPacketSeqNum + 1)

\* The right end of the buffer wraps around.
\* (Mutant: it has 64 bits.)
InBufferExact(seqNum) ==
  /\ seqNum >= nextExpectedPacketSeqNum
  /\ seqNum < nextExpectedPacketSeqNum + INIT_WINDOW_SIZE

InBuffer(seqNum) ==
  /\ seqNum >= nextExpectedPacketSeqNum
  /\ seqNum < Uint(nextExpectedPacketSeqNum + INIT_WINDOW_SIZE)

\* The places of the bytes written for packet seqNum.
PlacesOf(seqNum) ==
  WriteOffset(seqNum)..(WriteOffset(seqNum) + DataSize(seqNum) - 1)

WritePacket(seqNum) ==
  file' = [place \in DOMAIN file \cup PlacesOf(seqNum) |->
             IF place \in PlacesOf(seqNum)
             THEN ReadOffset(seqNum) + (place - WriteOffset(seqNum))
             ELSE file[place]]

\* Mutant: the receiver expects the packet after the one received.
SlideAfter(received) ==
  /\ nextExpectedPacketSeqNum' = 1 + CHOOSE s \in received :
                                       \A other \in received : other <= s
  /\ receivedAhead' = {}

\* Slide past the packets received without a gap.
SlidePast(received) ==
  \E n \in 0..INIT_WINDOW_SIZE :
    /\ \A i \in 0..(n - 1) : nextExpectedPacketSeqNum + i \in received
    /\ nextExpectedPacketSeqNum + n \notin received
    /\ nextExpectedPacketSeqNum' = Uint(nextExpectedPacketSeqNum + n)
    /\ receivedAhead' = {s \in received : s > nextExpectedPacketSeqNum + n}

\* Packet seqNum is sent and received.
ReceiveDataPacket(seqNum) ==
  /\ lastPacketSeqNumReceived' =
       (lastPacketSeqNumReceived \/ seqNum = LastPacketSeqNum)
  /\ IF InBuffer(seqNum)
     THEN /\ SlidePast(receivedAhead \cup {seqNum})
          /\ IF seqNum \in receivedAhead THEN UNCHANGED file
             ELSE WritePacket(seqNum)
     ELSE UNCHANGED <<nextExpectedPacketSeqNum, receivedAhead, file>>
  /\ UNCHANGED <<request, senderSide>>

\* With nothing to send the sender is finished at once and sends nothing.
Deliver(seqNum) ==
  /\ bytesToSend > 0
  /\ ReceiveDataPacket(seqNum)

\* The sender pops the items to the left of the packet a cumulative
\* acknowledgement asks for.
\* (Mutant: it counts every item as a full one.)
AckArrivedFull(cumulativeSeqNum) ==
  /\ cumulativeSeqNum > slideWindowLeftBoundSeqNum
  /\ slideWindowLeftBoundSeqNum' = cumulativeSeqNum
  /\ bytesSent' = cumulativeSeqNum * DATA_PACKET_DATA_SIZE
  /\ UNCHANGED <<request, receiverSide>>

AckArrived(cumulativeSeqNum) ==
  /\ cumulativeSeqNum > slideWindowLeftBoundSeqNum
  /\ slideWindowLeftBoundSeqNum' = cumulativeSeqNum
  /\ bytesSent' = bytesSent + SizesUpTo[cumulativeSeqNum]
                            - SizesUpTo[slideWindowLeftBoundSeqNum]
  /\ UNCHANGED <<request, receiverSide>>

SomeAckArrived ==
  \E cumulativeSeqNum \in 0..nextExpectedPacketSeqNum :
    AckArrived(cumulativeSeqNum)

LargeNext ==
  \/ \E seqNum \in 0..LastPacketSeqNum : Deliver(seqNum)
  \/ SomeAckArrived

LargeSpec == LargeInit /\ [][LargeNext]_largeVars

\* The packet at the left bound is sent again until it is acknowledged or the
\* sender is finished; and some acknowledgement gets through some time.
DeliverFirst ==
  /\ ~SenderFinished
  /\ slideWindowLeftBoundSeqNum <= LastPacketSeqNum
  /\ Deliver(slideWindowLeftBoundSeqNum)

FairLargeSpec ==
  LargeSpec /\ WF_largeVars(DeliverFirst) /\ WF_largeVars(SomeAckArrived)

-----------------------------------------------------------------------------
\* The types of the variables: the receiver buffers only packets beyond the one
\* it expects, and the sender's window is not beyond that one.
LargeTypeOK ==
  /\ fileSize \in Nat
  /\ bytesToSend \in 0..MaxBytes
  /\ slideWindowLeftBoundSeqNum \in 0..UINT_MAX
  /\ slideWindowLeftBoundSeqNum <= nextExpectedPacketSeqNum
  /\ bytesSent \in Nat
  /\ nextExpectedPacketSeqNum \in 0..UINT_MAX
  /\ receivedAhead \subseteq 0..UINT_MAX
  /\ \A s \in receivedAhead : s > nextExpectedPacketSeqNum
  /\ lastPacketSeqNumReceived \in BOOLEAN
  /\ DOMAIN file \subseteq Nat

\* Every byte in the receiving file is at the place it has in the file sent,
\* even when the places wrap: both sides wrap alike.
WrittenInPlace == \A place \in DOMAIN file : file[place] = place

\* The bytes the user may expect in the receiving file.
Wanted == {b \in 0..(bytesToSend - 1) : b < fileSize}

OffsetsFit == LastPacketSeqNum * DATA_PACKET_DATA_SIZE <= UINT_MAX

WholeFile == Wanted \subseteq DOMAIN file

\* If all places fit into an unsigned int, a receiver that is finished has the
\* whole file, as far as there is one.
FinishedMeansWhole ==
  bytesToSend > 0 /\ OffsetsFit /\ ReceiverFinished => WholeFile

\* Both sides finish only if there is something to send, there is a sequence
\* number after the last, and the file is not shorter than asked for - unless
\* places wrap, so that the sender reads its start again instead.
BothFinishOnlyIf ==
  SenderFinished /\ ReceiverFinished =>
    /\ 0 < bytesToSend
    /\ LastPacketSeqNum < UINT_MAX
    /\ OffsetsFit => bytesToSend <= fileSize

\* The sender, which counts bytes, is finished exactly when its window has
\* slid past the last packet - if the file is not shorter than asked for.
FinishedIffAcked ==
  0 < bytesToSend /\ bytesToSend <= fileSize =>
    (SenderFinished <=> slideWindowLeftBoundSeqNum = LastPacketSeqNum + 1)

\* They do finish if the receiver's buffer does not wrap either - whether or
\* not the places in the file do.
BothFinish ==
  /\ 0 < bytesToSend /\ bytesToSend <= fileSize
  /\ LastPacketSeqNum + INIT_WINDOW_SIZE <= UINT_MAX
  => <>(SenderFinished /\ ReceiverFinished)

-----------------------------------------------------------------------------
(***************************************************************************)
(* What the documentation says and the code does not do.                   *)
(***************************************************************************)

\* A transfer that has finished has transferred the file.
FinishedIsWhole ==
  bytesToSend > 0 /\ SenderFinished /\ ReceiverFinished => WholeFile

\* Sequence numbers may wrap around: whatever is asked for, if the file has
\* it, is transferred, though it take every sequence number there is.
WrapAroundWorks ==
  0 < bytesToSend /\ bytesToSend <= fileSize
    => <>(SenderFinished /\ ReceiverFinished)

=============================================================================
