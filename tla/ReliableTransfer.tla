-------------------------- MODULE ReliableTransfer --------------------------
(***************************************************************************)
(* The two programs, src/src/reliable_sender.cpp and reliable_receiver.cpp,*)
(* from the end of the handshake on: their threads around the two sliding  *)
(* windows, a link that loses datagrams, and how the transfer ends.        *)
(*                                                                         *)
(* This module adds to SlideWindowProtocol what makes progress and what    *)
(* may prevent it: sendData waits on a condition variable, the receiver    *)
(* exits as soon as its file is complete, and a datagram that is lost must *)
(* be sent again.  Each step does one step of SlideWindowProtocol, or none,*)
(* so that this module implements that one.                                *)
(*                                                                         *)
(* Here a datagram in flight is received once or lost.  Duplicates the     *)
(* link makes are covered by SlideWindowProtocol.  A datagram equal to one *)
(* in flight is absorbed by it, except for the FIN_ACK_NUM copies of an    *)
(* answer that are numbered.                                               *)
(*                                                                         *)
(* SlideWindowProtocol takes an answer for sent as soon as the receiver's  *)
(* window has given it.  Here a thread holds it until it has looked        *)
(* whether the window is finished, and another thread may have finished it *)
(* in between.                                                             *)
(*                                                                         *)
(* A thread that changes the window and then notifies does both in one     *)
(* step.  A notification that comes later can do nothing else than wake    *)
(* sendData at a later time, which SpuriousWakeup may do at any time.      *)
(* receiveAck and checkTimeout may go on after sendData has set `done`, as *)
(* they look at it only once in a round; their end is in ReliableSession.  *)
(***************************************************************************)
EXTENDS SlideWindowProtocol

CONSTANTS
  ReceiveThreads,  \* the RECEIVE_THREAD_NUM threads of the receiver
  FIN_ACK_NUM,     \* copies of an answer once the file is complete
  MaxLosses        \* bound: datagrams the link may lose

ASSUME TransferAssumption ==
  /\ ReceiveThreads # {}
  /\ FIN_ACK_NUM \in Nat \ {0}
  /\ MaxLosses \in Nat

VARIABLES
  waitPc,        \* where sendData is in its loop around condVar.wait
  dataInFlight,  \* data datagrams sent and neither received nor lost
  ackInFlight,   \* <<answer, copy number>> in flight
  listening,     \* the threads of the receiver that have not returned
  toReply,       \* the answer each of them still has to send, {} if none
  lost           \* datagrams lost so far

linkVars     == <<dataInFlight, ackInFlight, listening, toReply, lost>>
transferVars == <<vars, waitPc, linkVars>>

TransferInit ==
  /\ Init
  /\ waitPc = "loop"
  /\ dataInFlight = {}
  /\ ackInFlight = {}
  /\ listening = ReceiveThreads
  /\ toReply = [thread \in ReceiveThreads |-> {}]
  /\ lost = 0

-----------------------------------------------------------------------------
(***************************************************************************)
(* sendData.  It holds condVarMutex except while it waits, but the threads *)
(* that notify it do not take condVarMutex: between the evaluation of the  *)
(* predicate ("loop") and the wait ("blocking") a notification is lost.    *)
(* Setting `done` is the last thing it does: done is waitPc = "done".      *)
(***************************************************************************)

SendDataLoop ==
  /\ waitPc = "loop"
  /\ \/ SenderFinished /\ waitPc' = "done"
     \/ ~SenderFinished /\ HasDataToSend /\ waitPc' = "sending"
     \/ ~SenderFinished /\ ~HasDataToSend /\ waitPc' = "blocking"
  /\ UNCHANGED <<vars, linkVars>>

SendDataBlock ==
  /\ waitPc = "blocking"
  /\ waitPc' = "waiting"
  /\ UNCHANGED <<vars, linkVars>>

SendDataCheckOrPrepare ==
  /\ waitPc = "sending"
  /\ SendDataCheck \/ SendDataPrepare
  /\ UNCHANGED <<waitPc, linkVars>>

SendDataTransmit(dp) ==
  /\ waitPc = "sending"
  /\ SendDataSendTo(dp)
  /\ dataInFlight' = dataInFlight \cup {DatagramOf(dp)}
  /\ UNCHANGED <<waitPc, ackInFlight, listening, toReply, lost>>

SendDataNothingLeft ==
  /\ waitPc = "sending" /\ sendDataPc = "check"
  /\ ~HasDataToSend
  /\ waitPc' = "loop"
  /\ UNCHANGED <<vars, linkVars>>

SendData ==
  \/ SendDataLoop
  \/ SendDataBlock
  \/ SendDataCheckOrPrepare
  \/ \E dp \in prepared : SendDataTransmit(dp)
  \/ SendDataNothingLeft

SpuriousWakeup ==
  /\ waitPc = "waiting"
  /\ waitPc' = "loop"
  /\ UNCHANGED <<vars, linkVars>>

\* condVar.notify_all() when `needed`: only sendData ever waits.
NotifyIf(needed) ==
  waitPc' = IF needed /\ waitPc = "waiting" THEN "loop" ELSE waitPc

-----------------------------------------------------------------------------
(***************************************************************************)
(* receiveAck and checkTimeout.                                            *)
(***************************************************************************)

ReceiveAckAndNotify(buffer, copy) ==
  /\ <<buffer, copy>> \in ackInFlight
  /\ ackInFlight' = ackInFlight \ {<<buffer, copy>>}
  /\ ReceiveAck(buffer)
  /\ NotifyIf(HasDataToSend' \/ SenderFinished')
  /\ UNCHANGED <<dataInFlight, listening, toReply, lost>>

\* Mutant: checkTimeout notifies nobody.
CheckTimeoutSilently(expired) ==
  /\ CheckTimeoutOf(expired)
  /\ UNCHANGED <<waitPc, linkVars>>

CheckTimeoutAndNotify(expired) ==
  /\ CheckTimeoutOf(expired)
  /\ NotifyIf(HasDataToSend')
  /\ UNCHANGED linkVars

-----------------------------------------------------------------------------
(***************************************************************************)
(* The threads of the receiver.  A thread takes a datagram and hands it to *)
(* the window, which gives it the answer; then it looks whether the window *)
(* is finished, sends the answer as often as that calls for, and returns   *)
(* if it is.  The call of recvfrom that precedes the first of these steps, *)
(* and the sendto and the look at the loop's condition that follow the     *)
(* second, can be taken together with them: a datagram not yet received,   *)
(* or just sent, may be delayed anyway, and a thread that has missed the   *)
(* end returns when recvfrom times out.                                    *)
(***************************************************************************)

Idle(thread) == thread \in listening /\ toReply[thread] = {}

\* Mutant: an answer the receiver's window did not give.
AnswerForAnyPacket(buffer) ==
  FillBufferAckPacket(AckForAnyPacket(ReadBufferDataPacket(buffer)))

Answer(buffer) == FillBufferAckPacket(AckFor(ReadBufferDataPacket(buffer)))

ReceiveDataBy(thread, buffer) ==
  /\ Idle(thread)
  /\ dataInFlight' = dataInFlight \ {buffer}
  /\ ReceiveDataReplyAck(buffer)
  /\ toReply' = [toReply EXCEPT ![thread] = {Answer(buffer)}]
  /\ UNCHANGED <<waitPc, ackInFlight, listening, lost>>

\* Mutants of Copies: the last answer is sent once, or once too often.
CopiesNone == {1}

CopiesTooMany == IF ReceiverFinished THEN 1..(FIN_ACK_NUM + 1) ELSE {1}

\* Whatever the answer is, it is sent FIN_ACK_NUM times if the window is
\* finished by now.
Copies == IF ReceiverFinished THEN 1..FIN_ACK_NUM ELSE {1}

\* A thread sends its answer; `copies` of it get under way to the sender.
ReplyWith(thread, copies) ==
  /\ toReply[thread] # {}
  /\ ackInFlight' = ackInFlight \cup (toReply[thread] \X copies)
  /\ toReply' = [toReply EXCEPT ![thread] = {}]
  /\ listening' = IF ReceiverFinished THEN listening \ {thread} ELSE listening
  /\ UNCHANGED <<vars, waitPc, dataInFlight, lost>>

Reply(thread) == ReplyWith(thread, Copies)

\* Mutant: a thread that finds the window finished returns at once, whatever
\* it has to send.
ReceiverThreadReturnsEarly(thread) ==
  /\ thread \in listening
  /\ ReceiverFinished
  /\ listening' = listening \ {thread}
  /\ UNCHANGED <<vars, waitPc, dataInFlight, ackInFlight, toReply, lost>>

ReceiverThreadTimesOut(thread) ==
  /\ Idle(thread)
  /\ ReceiverFinished
  /\ listening' = listening \ {thread}
  /\ UNCHANGED <<vars, waitPc, dataInFlight, ackInFlight, toReply, lost>>

-----------------------------------------------------------------------------
\* The link loses a datagram.
Lose ==
  /\ lost < MaxLosses
  /\ lost' = lost + 1
  /\ \/ /\ \E buffer \in dataInFlight : dataInFlight' = dataInFlight \ {buffer}
        /\ UNCHANGED ackInFlight
     \/ /\ \E answer \in ackInFlight : ackInFlight' = ackInFlight \ {answer}
        /\ UNCHANGED dataInFlight
  /\ UNCHANGED <<vars, waitPc, listening, toReply>>

TransferNext ==
  \/ SendData
  \/ SpuriousWakeup
  \/ \E answer \in ackInFlight : ReceiveAckAndNotify(answer[1], answer[2])
  \/ \E expired \in SUBSET OutstandingPositions : CheckTimeoutAndNotify(expired)
  \/ \E thread \in ReceiveThreads :
       \/ \E buffer \in dataInFlight : ReceiveDataBy(thread, buffer)
       \/ Reply(thread)
       \/ ReceiverThreadTimesOut(thread)
  \/ Lose

TransferSpec == TransferInit /\ [][TransferNext]_transferVars

-----------------------------------------------------------------------------
(***************************************************************************)
(* Fairness.  Every thread that can take a step takes it some time.  The   *)
(* threads that receive come back to their sockets again and again, and a  *)
(* socket gives out datagrams in the order in which they came: one that is *)
(* not lost is received some time, though a thread may be busy with others *)
(* in between, hence the strong fairness.  checkTimeout is called again    *)
(* and again, so an outstanding item gets older than any timeout.  Nothing *)
(* is assumed of spurious wakeups.                                         *)
(***************************************************************************)

CheckTimeoutExpires(seqNum) ==
  \E expired \in SUBSET OutstandingPositions :
    /\ \E i \in expired : senderWindow[i].seqNum = seqNum
    /\ CheckTimeoutAndNotify(expired)

ReceiveAckOf(cumulativeSeqNum) ==
  \E answer \in ackInFlight :
    /\ waitPc # "done"
    /\ answer[1].cumulativeSeqNum = cumulativeSeqNum
    /\ ReceiveAckAndNotify(answer[1], answer[2])

ReceiveDataOf(seqNum) ==
  \E thread \in ReceiveThreads, buffer \in dataInFlight :
    buffer.seqNum = seqNum /\ ReceiveDataBy(thread, buffer)

TransferFairness ==
  /\ WF_transferVars(SendData)
  /\ WF_transferVars(\E expired \in SUBSET OutstandingPositions :
                       CheckTimeoutAndNotify(expired))
  /\ \A seqNum \in SeqNums :
       /\ WF_transferVars(CheckTimeoutExpires(seqNum))
       /\ SF_transferVars(ReceiveDataOf(seqNum))
  /\ WF_transferVars(\E thread \in ReceiveThreads : Reply(thread))
  /\ \A cumulativeSeqNum \in 0..(LastPacketSeqNum + 1) :
       WF_transferVars(ReceiveAckOf(cumulativeSeqNum))

FairTransferSpec == TransferSpec /\ TransferFairness

-----------------------------------------------------------------------------
\* The types of the variables; only what was sent is in flight, an answer at
\* most FIN_ACK_NUM times; a thread has only an answer of the window to send.
TransferTypeOK ==
  /\ TypeOK
  /\ waitPc \in {"loop", "blocking", "waiting", "sending", "done"}
  /\ dataInFlight \subseteq dataWire
  /\ ackInFlight \subseteq ackWire \X (1..FIN_ACK_NUM)
  /\ listening \subseteq ReceiveThreads
  /\ toReply \in [ReceiveThreads -> SUBSET ackWire]
  /\ lost \in 0..MaxLosses

FileComplete == DOMAIN file = SeqNums /\ \A s \in SeqNums : file[s] = "chunk"

\* When sendData sets `done`, the receiving file is complete and unaltered,
\* and nothing that was prepared is left unsent.
DoneMeansDelivered ==
  waitPc = "done" =>
    /\ FileComplete
    /\ ReceiverFinished
    /\ prepared = {}

FinalAck(buffer) == buffer.cumulativeSeqNum = LastPacketSeqNum + 1

\* The receiver stops answering when its file is complete, so the sender
\* must learn of it from the answers sent until then: one that acknowledges
\* the whole file has arrived, or is in flight, or is still to be sent by a
\* thread that has not returned, unless FIN_ACK_NUM datagrams were lost.
FinalAckNotLost ==
  ReceiverFinished =>
    \/ slideWindowLeftBoundSeqNum = LastPacketSeqNum + 1
    \/ \E answer \in ackInFlight : FinalAck(answer[1])
    \/ \E thread \in listening : \E answer \in toReply[thread] : FinalAck(answer)
    \/ lost >= FIN_ACK_NUM

\* The programs implement the sliding windows over the link: each step of a
\* thread does what those may do.
ImplementsSlideWindowProtocol == Spec

\* Whatever the interleaving of the threads, and whichever datagrams are
\* lost, the receiver gets the whole file.
ReceiverGetsFile == <>(ReceiverFinished /\ FileComplete)

\* The sender finishes, too, if fewer than FIN_ACK_NUM datagrams are lost.
SenderFinishes == <>(SenderFinished \/ lost >= FIN_ACK_NUM)

\* A packet ready to be sent is sent although notifications get lost:
\* checkTimeout notifies again.
ReadyDataIsSent == HasDataToSend ~> (~newDataReady \/ SenderFinished)

-----------------------------------------------------------------------------
(***************************************************************************)
(* What the comments say and the code does not do.                         *)
(***************************************************************************)

\* sendData waits until there is data to send or the transfer is finished;
\* when all is acknowledged it is done.
FinishIsNoticed == SenderFinished ~> waitPc = "done"

=============================================================================
