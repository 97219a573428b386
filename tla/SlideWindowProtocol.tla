------------------------ MODULE SlideWindowProtocol ------------------------
(***************************************************************************)
(* The two sliding windows over an unreliable link: the data transfer      *)
(* proper, from the end of the handshake on.                               *)
(*                                                                         *)
(* Each action is one critical section of the program or one datagram      *)
(* handed to a socket, so their interleavings are those of the threads:    *)
(* sendData (one thread), receiveAck (several), checkTimeout (one) of      *)
(* src/src/reliable_sender.cpp, and receiveDataReplyAck (several) of       *)
(* src/src/reliable_receiver.cpp.  How the sender's threads wait for and   *)
(* wake each other, and how all of them end, is not the concern of this    *)
(* module: here every operation may be tried at any time.                  *)
(*                                                                         *)
(* The link is the set of all datagrams ever sent in each direction.  A    *)
(* datagram may be received at any time after it was sent, any number of   *)
(* times, or never: that is loss, duplication, delay and reordering.  A    *)
(* datagram read by a thread that has not yet processed it, and an answer  *)
(* computed but not yet sent, are datagrams delayed by the link.           *)
(***************************************************************************)
EXTENDS SlideWindowSender, SlideWindowReceiver

ASSUME NonEmptyTransfer == bytesToSend > 0

VARIABLES
  sendDataPc,  \* what the sendData thread does next
  prepared,    \* packets prepareDataPacketsToSend returned, not yet sent
  dataWire,    \* every data datagram sent so far
  ackWire      \* every acknowledgement sent so far

threadVars == <<sendDataPc, prepared>>
wireVars   == <<dataWire, ackWire>>
vars       == <<senderVars, receiverVars, threadVars, wireVars>>

Init ==
  /\ SenderInit
  /\ ReceiverInit
  /\ sendDataPc = "check"
  /\ prepared = {}
  /\ dataWire = {}
  /\ ackWire = {}

-----------------------------------------------------------------------------
(***************************************************************************)
(* sendData: while (hasDataToSend()) { prepareDataPacketsToSend(); sendto  *)
(* each packet }.  The window may change between any two of these steps.   *)
(***************************************************************************)

SendDataCheck ==
  /\ sendDataPc = "check"
  /\ HasDataToSend
  /\ sendDataPc' = "prepare"
  /\ UNCHANGED <<senderVars, receiverVars, prepared, wireVars>>

SendDataPrepare ==
  /\ sendDataPc = "prepare"
  /\ PrepareDataPacketsToSend
  /\ prepared' = PreparedPackets
  /\ sendDataPc' = IF PreparedPackets = {} THEN "check" ELSE "send"
  /\ UNCHANGED <<receiverVars, wireVars>>

\* The item a prepared packet points into is deleted when an
\* acknowledgement slides the window past it.
ItemAlive(dp) ==
  \E i \in 1..Len(senderWindow) : senderWindow[i].seqNum = dp.seqNum

\* The data is read from the item when the datagram is filled in.
DatagramOf(dp) ==
  FillBufferDataPacket(dp, IF ItemAlive(dp) THEN "chunk" ELSE "stale")

SendDataSendTo(dp) ==
  /\ sendDataPc = "send"
  /\ \A other \in prepared : dp.seqNum <= other.seqNum
  /\ dataWire' = dataWire \cup {DatagramOf(dp)}
  /\ prepared' = prepared \ {dp}
  /\ sendDataPc' = IF prepared' = {} THEN "check" ELSE "send"
  /\ UNCHANGED <<senderVars, receiverVars, ackWire>>

-----------------------------------------------------------------------------
(***************************************************************************)
(* The other threads of the sender.                                        *)
(***************************************************************************)

ReceiveAck(buffer) ==
  LET ack == ReadBufferAckPacket(buffer)
  IN  /\ ack.type = ACK_PACKET_TYPE_REGULAR
      /\ AckArrived(ack)
      /\ UNCHANGED <<receiverVars, threadVars, wireVars>>

CheckTimeoutOf(expired) ==
  /\ CheckTimeout(expired)
  /\ UNCHANGED <<receiverVars, threadVars, wireVars>>

(***************************************************************************)
(* A thread of the receiver: receive a datagram, answer it.                *)
(***************************************************************************)

ReceiveDataReplyAck(buffer) ==
  LET dp == ReadBufferDataPacket(buffer)
  IN  /\ ReceiveDataPacket(dp)
      /\ ackWire' = ackWire \cup {FillBufferAckPacket(AckFor(dp))}
      /\ UNCHANGED <<senderVars, threadVars, dataWire>>

Next ==
  \/ SendDataCheck
  \/ SendDataPrepare
  \/ \E dp \in prepared : SendDataSendTo(dp)
  \/ \E buffer \in ackWire : ReceiveAck(buffer)
  \/ \E expired \in SUBSET OutstandingPositions : CheckTimeoutOf(expired)
  \/ \E buffer \in dataWire : ReceiveDataReplyAck(buffer)

Spec == Init /\ [][Next]_vars

-----------------------------------------------------------------------------
\* The types of the variables: no sequence number beyond the last packet is
\* ever in an item, prepared or sent.
TypeOK ==
  /\ SenderTypeOK
  /\ ReceiverTypeOK
  /\ sendDataPc \in {"check", "prepare", "send"}
  /\ prepared \subseteq
       [type : {DATA_PACKET_TYPE_REGULAR, DATA_PACKET_TYPE_FINISH},
        seqNum : SeqNums]
  /\ dataWire \subseteq
       [tag : {"re", "fi"}, seqNum : SeqNums, data : Payload]
  /\ ackWire \subseteq
       [tag : {"re"}, cumulativeSeqNum : Nat, selectiveSeqNum : Nat]

-----------------------------------------------------------------------------
(***************************************************************************)
(* Safety.                                                                 *)
(***************************************************************************)

\* Both deques stay aligned with their left bounds: the item at position i
\* is the item of packet left + i - 1.  The code indexes its deques on this
\* assumption and checks it in ensureCorrectness, in debug builds only.
WindowsAligned == SenderAligned /\ ReceiverAligned

\* No acknowledgement that can still arrive, however late, slides the
\* sender's window past its end: ackArrived never pops an empty deque.
AcksWithinWindow ==
  \A ack \in ackWire :
    ack.cumulativeSeqNum <= slideWindowLeftBoundSeqNum + Len(senderWindow)

\* What the sender takes for delivered is in the receiving file: the packets
\* left of its window and the items marked ACKED, which are not sent again.
AckedWasReceived ==
  /\ 0..(slideWindowLeftBoundSeqNum - 1) \subseteq DOMAIN file
  /\ \A i \in 1..Len(senderWindow) :
       senderWindow[i].state = "ACKED" => senderWindow[i].seqNum \in DOMAIN file

\* The first item of the sender's window is never marked ACKED, in whatever
\* order acknowledgements arrive.  If it were, nothing would be retransmitted
\* to make the receiver repeat its cumulative acknowledgement, and the
\* window would stay where it is for ever.
HeadNeverAcked ==
  senderWindow # <<>> => senderWindow[1].state # "ACKED"

\* The receiving file never contains anything but the right chunks of the
\* packets received - although sendto may read the data of an item that has
\* been deleted.
FileIntact ==
  /\ \A s \in DOMAIN file : file[s] = "chunk"
  /\ FileIsReceived
  /\ DOMAIN file \subseteq SeqNums

\* When the sender takes the transfer for finished, every chunk is in the
\* receiving file and the receiver is finished too.
FinishedMeansDelivered ==
  SenderFinished => DOMAIN file = SeqNums /\ ReceiverFinished

\* Until the sender is finished, the oldest packet not acknowledged is either
\* outstanding, so that it will time out, or within reach of sendData, which
\* is told so: never does the sender wait for an acknowledgement that nothing
\* will provoke.  (What a shorter file lacks can never be counted as sent.)
NeverStuck ==
  bytesToSend <= fileSize /\ ~SenderFinished =>
    1 \in OutstandingPositions \/ (HasDataToSend /\ 1 \in ToSend)

\* Between two rounds of sending the congestion window is punished at most
\* once, whether by a timeout or by a fast retransmission.
PunishedOncePerRound ==
  [][/\ curCongestionWindow' < curCongestionWindow
          => ~curCongestionWindowTimeouted /\ curCongestionWindowTimeouted'
     /\ curCongestionWindowTimeouted /\ ~curCongestionWindowTimeouted'
          => sendDataPc = "prepare"]_vars

\* An item once acknowledged selectively stays so until the window slides
\* past it: late timeouts and repeated acknowledgements do not revive it.
AckedStaysAcked ==
  [][\A i \in 1..Len(senderWindow) :
       senderWindow[i].state = "ACKED" =>
         \/ senderWindow[i].seqNum < slideWindowLeftBoundSeqNum'
         \/ \E j \in 1..Len(senderWindow') :
              /\ senderWindow'[j].seqNum = senderWindow[i].seqNum
              /\ senderWindow'[j].state = "ACKED"]_vars

\* The protocol implements reliable delivery, with the chunks the sender
\* knows to be delivered being those left of its window.
Delivery == INSTANCE ReliableDelivery
              WITH Chunks <- LastPacketSeqNum + 1,
                   confirmed <- slideWindowLeftBoundSeqNum

\* Each chunk enters the receiving file once and unaltered, and the sender's
\* left bound only passes chunks that are there.
ImplementsReliableDelivery == Delivery!Spec

-----------------------------------------------------------------------------
(***************************************************************************)
(* The inductive invariant: what the safety properties rest on.            *)
(***************************************************************************)

\* The sender's left bound is never ahead of what the receiver expects.
SenderBehindReceiver == slideWindowLeftBoundSeqNum <= nextExpectedPacketSeqNum

\* The receiver can only have packets the sender's window has reached.
ReceivedWasSent ==
  \A s \in DOMAIN file : s < slideWindowLeftBoundSeqNum + Len(senderWindow)

\* A datagram carries the wrong data only if its packet was acknowledged
\* before it was sent.
DataPacketsInOrder ==
  /\ \A dp \in prepared :
       /\ dp.seqNum < slideWindowLeftBoundSeqNum + Len(senderWindow)
       /\ dp.type = DATA_PACKET_TYPE_FINISH <=> dp.seqNum = LastPacketSeqNum
  /\ \A b \in dataWire :
       /\ b.seqNum < slideWindowLeftBoundSeqNum + Len(senderWindow)
       /\ b.tag = "fi" <=> b.seqNum = LastPacketSeqNum
       /\ b.data = "stale" => b.seqNum < slideWindowLeftBoundSeqNum

\* Packets acknowledged out of order: the receiver was still waiting for an
\* earlier one.
Sacked ==
  {a.selectiveSeqNum :
     a \in {b \in ackWire : b.cumulativeSeqNum < b.selectiveSeqNum}}

\* Acknowledgements tell the truth, and none that is still to arrive moves
\* the left bound onto a packet acknowledged out of order.
AcksInOrder ==
  /\ \A a \in ackWire :
       /\ a.cumulativeSeqNum <= nextExpectedPacketSeqNum
       /\ a.selectiveSeqNum # a.cumulativeSeqNum =>
            a.selectiveSeqNum \in DOMAIN file
  /\ \A s \in Sacked :
       /\ s # slideWindowLeftBoundSeqNum
       /\ \A a \in ackWire : a.cumulativeSeqNum # s
  /\ \A i \in 1..Len(senderWindow) :
       senderWindow[i].state = "ACKED" => senderWindow[i].seqNum \in Sacked

\* The receiver knows the right last packet, at the latest when it has it.
LastPacketKnown ==
  /\ lastPacketSeqNumReceived => lastPacketSeqNum = LastPacketSeqNum
  /\ LastPacketSeqNum \in DOMAIN file => lastPacketSeqNumReceived

\* The inductive invariant of the sliding windows over the link.
IInv ==
  /\ TypeOK
  /\ SenderInv
  /\ ReceiverInv
  /\ SenderBehindReceiver
  /\ ReceivedWasSent
  /\ DataPacketsInOrder
  /\ AcksInOrder
  /\ LastPacketKnown
  /\ \A s \in DOMAIN file : file[s] = "chunk"

-----------------------------------------------------------------------------
(***************************************************************************)
(* What the comments say and the code does not do.                         *)
(***************************************************************************)

\* The packets that prepareDataPacketsToSend returned point into live items
\* until they are sent.
PreparedDataAlive == \A dp \in prepared : ItemAlive(dp)

\* Punishing the congestion window (its new threshold is the trace of it)
\* does not enlarge it.
PunishmentNeverEnlarges ==
  [][~curCongestionWindowTimeouted /\ curCongestionWindowTimeouted'
       => curCongestionWindow' <= curCongestionWindow]_vars

=============================================================================
