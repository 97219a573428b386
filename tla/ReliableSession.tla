--------------------------- MODULE ReliableSession ---------------------------
(***************************************************************************)
(* The two programs from start to end: reliablyTransfer of                 *)
(* src/src/reliable_sender.cpp and reliablyReceive of                      *)
(* src/src/reliable_receiver.cpp.                                          *)
(*                                                                         *)
(* To ReliableTransfer this module adds the handshake before the transfer, *)
(* the start of the receiver, the end of the sender's threads once `done`  *)
(* is set, the joins, and the address that a thread of the receiver sends  *)
(* its answers to.                                                         *)
(*                                                                         *)
(* That address comes from recvfrom, whose argument theirAddrLen is both   *)
(* the room for the address and, on return, its length.  The program does  *)
(* not initialize it.  If its value happens to leave room for the port and *)
(* the address (8 bytes), all is well.  If it is less, but not negative,   *)
(* the thread's first answer goes astray; from then on the value is right. *)
(* If it is negative, recvfrom takes the datagram, fails, and leaves the   *)
(* value as it is.                                                         *)
(***************************************************************************)
EXTENDS ReliableTransfer, Handshake

CONSTANTS
  RECEIVE_ACK_THREAD_NUM,  \* receiveAck threads of the sender
  UninitializedLens        \* what theirAddrLen may be when a thread starts

ASSUME SessionAssumption ==
  /\ RECEIVE_ACK_THREAD_NUM \in Nat \ {0}
  /\ UninitializedLens \subseteq {"enough", "short", "negative"}

VARIABLES
  senderPc,             \* where reliablyTransfer is
  receivingAck,         \* receiveAck threads that have not returned
  checkingTimeout,      \* has the checkTimeout thread not returned?
  receiverUp,           \* does the receiver's socket exist yet?
  theirAddrLen          \* the address length of each thread of the receiver

senderProgram   == <<senderPc, receivingAck, checkingTimeout>>
receiverProgram == <<receiverUp, theirAddrLen>>
sessionVars ==
  <<transferVars, handshakeVars, senderProgram, receiverProgram>>

SessionInit ==
  /\ TransferInit
  /\ HandshakeInit
  /\ senderPc = "handshake"
  /\ receivingAck = 0
  /\ checkingTimeout = FALSE
  /\ receiverUp = FALSE
  /\ theirAddrLen \in [ReceiveThreads -> UninitializedLens]

-----------------------------------------------------------------------------
(***************************************************************************)
(* The sender program.                                                     *)
(***************************************************************************)

SessionHandshake ==
  /\ senderPc = "handshake"
  /\ SendHandshakes \/ HandshakeTimesOut
  /\ UNCHANGED <<transferVars, senderProgram, receiverProgram>>

SessionReceivesHandshakeAck ==
  /\ senderPc = "handshake"
  /\ ReceiveHandshakeAck
  /\ UNCHANGED <<transferVars, senderProgram, receiverProgram>>

StartTransfer ==
  /\ senderPc = "handshake"
  /\ HandshakeOver
  /\ senderPc' = "transfer"
  /\ receivingAck' = RECEIVE_ACK_THREAD_NUM
  /\ checkingTimeout' = TRUE
  /\ UNCHANGED <<transferVars, handshakeVars, receiverProgram>>

SessionSendsData ==
  /\ senderPc = "transfer"
  /\ SendData
  /\ UNCHANGED <<handshakeVars, senderProgram, receiverProgram>>

SessionWakesUp ==
  /\ SpuriousWakeup
  /\ UNCHANGED <<handshakeVars, senderProgram, receiverProgram>>

SessionReceivesAck(answer) ==
  /\ receivingAck > 0
  /\ ReceiveAckAndNotify(answer[1], answer[2])
  /\ UNCHANGED <<handshakeVars, senderProgram, receiverProgram>>

\* Mutant: receiveAck does not look at the type of an acknowledgement; the
\* numbers in one of a handshake packet are 0.
SessionTakesHandshakeAck ==
  /\ receivingAck > 0
  /\ DropHandshakeAck
  /\ AckArrived([type |-> ACK_PACKET_TYPE_HANDSHAKE,
                 cumulativeSeqNum |-> 0, selectiveSeqNum |-> 0])
  /\ UNCHANGED <<receiverVars, threadVars, wireVars, waitPc, linkVars,
                 senderProgram, receiverProgram>>

SessionDropsHandshakeAck ==
  /\ receivingAck > 0
  /\ DropHandshakeAck
  /\ UNCHANGED <<transferVars, senderProgram, receiverProgram>>

SessionChecksTimeout(expired) ==
  /\ checkingTimeout
  /\ CheckTimeoutAndNotify(expired)
  /\ UNCHANGED <<handshakeVars, senderProgram, receiverProgram>>

Done == waitPc = "done"

\* Mutant: a thread looks at `done` only when an acknowledgement arrives.
ReceiveAckReturnsLate ==
  /\ Done
  /\ receivingAck > 0 /\ ackInFlight # {}
  /\ receivingAck' = receivingAck - 1
  /\ UNCHANGED <<transferVars, handshakeVars, senderPc, checkingTimeout,
                 receiverProgram>>

\* The threads look at `done` once in a round of their loops; a round of
\* receiveAck ends at the latest when recvfrom times out.
ReceiveAckReturns ==
  /\ Done
  /\ receivingAck > 0
  /\ receivingAck' = receivingAck - 1
  /\ UNCHANGED <<transferVars, handshakeVars, senderPc, checkingTimeout,
                 receiverProgram>>

CheckTimeoutReturns ==
  /\ Done
  /\ checkingTimeout
  /\ checkingTimeout' = FALSE
  /\ UNCHANGED <<transferVars, handshakeVars, senderPc, receivingAck,
                 receiverProgram>>

\* Mutant: the sender does not join the receiveAck threads.
SenderExitsEarly ==
  /\ senderPc = "transfer"
  /\ Done /\ ~checkingTimeout
  /\ senderPc' = "exited"
  /\ UNCHANGED <<transferVars, handshakeVars, receivingAck, checkingTimeout,
                 receiverProgram>>

\* The joins of the three kinds of threads succeed.
SenderExits ==
  /\ senderPc = "transfer"
  /\ Done /\ receivingAck = 0 /\ ~checkingTimeout
  /\ senderPc' = "exited"
  /\ UNCHANGED <<transferVars, handshakeVars, receivingAck, checkingTimeout,
                 receiverProgram>>

SenderNext ==
  \/ SessionHandshake
  \/ SessionReceivesHandshakeAck
  \/ StartTransfer
  \/ SessionSendsData
  \/ SessionWakesUp
  \/ \E answer \in ackInFlight : SessionReceivesAck(answer)
  \/ SessionDropsHandshakeAck
  \/ \E expired \in SUBSET OutstandingPositions : SessionChecksTimeout(expired)
  \/ ReceiveAckReturns
  \/ CheckTimeoutReturns
  \/ SenderExits

-----------------------------------------------------------------------------
(***************************************************************************)
(* The receiver program.                                                   *)
(***************************************************************************)

StartReceiver ==
  /\ ~receiverUp
  /\ receiverUp' = TRUE
  /\ UNCHANGED <<transferVars, handshakeVars, senderProgram, theirAddrLen>>

\* What the thread's last recvfrom has made of theirAddrLen; it counts from
\* the next datagram on.
NextAddrLen(thread) ==
  theirAddrLen' = [theirAddrLen EXCEPT ![thread] =
                     IF @ = "short" THEN "enough" ELSE @]

\* The copies of an answer, if they are sent to the right address.
CopiesFrom(thread) == IF theirAddrLen[thread] = "enough" THEN Copies ELSE {}

SessionReceivesData(thread, buffer) ==
  /\ receiverUp
  /\ theirAddrLen[thread] # "negative"
  /\ ReceiveDataBy(thread, buffer)
  /\ UNCHANGED <<handshakeVars, senderProgram, receiverProgram>>

\* The answer goes where the length before recvfrom allowed.
SessionReplies(thread) ==
  /\ ReplyWith(thread, CopiesFrom(thread))
  /\ NextAddrLen(thread)
  /\ UNCHANGED <<handshakeVars, senderProgram, receiverUp>>

HandshakeCopiesFrom(thread) ==
  IF theirAddrLen[thread] # "enough" THEN 0
  ELSE IF ReceiverFinished THEN FIN_ACK_NUM ELSE 1

\* A handshake packet is answered at any time, by a thread that returns if
\* it finds the window finished.
SessionAnswersHandshake(thread) ==
  /\ receiverUp
  /\ Idle(thread)
  /\ theirAddrLen[thread] # "negative"
  /\ AnswerHandshake(HandshakeCopiesFrom(thread))
  /\ NextAddrLen(thread)
  /\ listening' = IF ReceiverFinished THEN listening \ {thread} ELSE listening
  /\ UNCHANGED <<vars, waitPc, dataInFlight, ackInFlight, toReply, lost,
                 senderProgram, receiverUp>>

\* recvfrom fails, and the datagram is gone.
RecvfromFails(thread) ==
  /\ receiverUp
  /\ Idle(thread)
  /\ theirAddrLen[thread] = "negative"
  /\ \/ /\ \E buffer \in dataInFlight : dataInFlight' = dataInFlight \ {buffer}
        /\ UNCHANGED handshakeVars
     \/ /\ AnswerHandshake(0)
        /\ UNCHANGED dataInFlight
  /\ UNCHANGED <<vars, waitPc, ackInFlight, listening, toReply, lost,
                 senderProgram, receiverProgram>>

SessionThreadTimesOut(thread) ==
  /\ ReceiverThreadTimesOut(thread)
  /\ UNCHANGED <<handshakeVars, senderProgram, receiverProgram>>

ReceiverNext ==
  \/ StartReceiver
  \/ \E thread \in ReceiveThreads :
       \/ \E buffer \in dataInFlight : SessionReceivesData(thread, buffer)
       \/ SessionReplies(thread)
       \/ SessionAnswersHandshake(thread)
       \/ RecvfromFails(thread)
       \/ SessionThreadTimesOut(thread)

-----------------------------------------------------------------------------
(***************************************************************************)
(* The link.  Before the receiver's socket exists, what is sent to it is   *)
(* dropped without being counted as lost.                                  *)
(***************************************************************************)

SessionLoses ==
  \/ Lose /\ UNCHANGED <<handshakeVars, senderProgram, receiverProgram>>
  \/ /\ lost < MaxLosses
     /\ lost' = lost + 1
     /\ LoseHandshake
     /\ UNCHANGED <<vars, waitPc, dataInFlight, ackInFlight, listening,
                    toReply, senderProgram, receiverProgram>>

NobodyListens ==
  /\ ~receiverUp
  /\ AnswerHandshake(0)
  /\ UNCHANGED <<transferVars, senderProgram, receiverProgram>>

SessionNext == SenderNext \/ ReceiverNext \/ SessionLoses \/ NobodyListens

SessionSpec == SessionInit /\ [][SessionNext]_sessionVars

-----------------------------------------------------------------------------
(***************************************************************************)
(* Fairness: as in ReliableTransfer, for all threads of both programs.     *)
(* The receiver is started some time.  Each round of the handshake calls   *)
(* recvfrom at least once, so that answers which come again and again are  *)
(* received some time.                                                     *)
(***************************************************************************)

SessionExpires(seqNum) ==
  \E expired \in SUBSET OutstandingPositions :
    /\ \E i \in expired : senderWindow[i].seqNum = seqNum
    /\ SessionChecksTimeout(expired)

SessionReceivesAckOf(cumulativeSeqNum) ==
  \E answer \in ackInFlight :
    /\ answer[1].cumulativeSeqNum = cumulativeSeqNum
    /\ SessionReceivesAck(answer)

SessionReceivesDataOf(seqNum) ==
  \E thread \in ReceiveThreads, buffer \in dataInFlight :
    buffer.seqNum = seqNum /\ SessionReceivesData(thread, buffer)

HandshakeFairness ==
  /\ WF_sessionVars(SessionHandshake)
  /\ SF_sessionVars(SessionReceivesHandshakeAck)
  /\ WF_sessionVars(StartTransfer)
  /\ WF_sessionVars(StartReceiver)
  /\ WF_sessionVars(\E thread \in ReceiveThreads :
                      SessionAnswersHandshake(thread))

SessionFairness ==
  /\ HandshakeFairness
  /\ WF_sessionVars(SessionSendsData)
  /\ WF_sessionVars(\E expired \in SUBSET OutstandingPositions :
                      SessionChecksTimeout(expired))
  /\ \A seqNum \in SeqNums :
       /\ WF_sessionVars(SessionExpires(seqNum))
       /\ WF_sessionVars(SessionReceivesDataOf(seqNum))
  /\ \A cumulativeSeqNum \in 0..(LastPacketSeqNum + 1) :
       WF_sessionVars(SessionReceivesAckOf(cumulativeSeqNum))
  /\ WF_sessionVars(\E thread \in ReceiveThreads : SessionReplies(thread))
  /\ WF_sessionVars(\E thread \in ReceiveThreads : SessionThreadTimesOut(thread))
  /\ WF_sessionVars(ReceiveAckReturns)
  /\ WF_sessionVars(CheckTimeoutReturns)
  /\ WF_sessionVars(SenderExits)

FairSessionSpec == SessionSpec /\ SessionFairness

-----------------------------------------------------------------------------
\* The types of the variables; the handshake counts no more answers than its
\* array of round-trip times has slots.
SessionTypeOK ==
  /\ TransferTypeOK
  /\ HandshakeTypeOK
  /\ senderPc \in {"handshake", "transfer", "exited"}
  /\ receivingAck \in 0..RECEIVE_ACK_THREAD_NUM
  /\ checkingTimeout \in BOOLEAN
  /\ receiverUp \in BOOLEAN
  /\ theirAddrLen \in [ReceiveThreads -> {"enough", "short", "negative"}]

ReceiverExited == listening = {}

\* No thread of the sender that uses the window is left.
WindowUnused == Done /\ receivingAck = 0 /\ ~checkingTimeout

\* A program that has ended has done its work: when either of them has joined
\* its threads, the receiving file is complete and unaltered, and the sender's
\* window, which is deleted then, is used by none of its threads.
ExitMeansDelivered ==
  /\ senderPc = "exited" \/ ReceiverExited => FileComplete
  /\ senderPc = "exited" => WindowUnused

\* From its start to its end, the session does nothing but what two sliding
\* windows over a link may do.
SessionImplementsProtocol == Spec

AddressesFit == \A thread \in ReceiveThreads : theirAddrLen[thread] = "enough"

RecvfromWorks ==
  \A thread \in ReceiveThreads : theirAddrLen[thread] # "negative"

\* If recvfrom works, the receiver program ends, with the whole file, though
\* it may be started late and the first answer of each of its threads may go
\* astray.
ReceiverProgramEnds == RecvfromWorks => <>[](ReceiverExited /\ FileComplete)

\* If the length of the address is large enough by chance, and fewer than
\* FIN_ACK_NUM datagrams are lost, the sender's window finishes, too.
SenderWindowFinishes ==
  AddressesFit => <>(SenderFinished \/ lost >= FIN_ACK_NUM)

\* Once sendData has set `done`, the sender program ends.
DoneEndsProgram == Done ~> senderPc = "exited"

-----------------------------------------------------------------------------
(***************************************************************************)
(* What the comments say and the code does not do.                         *)
(***************************************************************************)

\* The acknowledgement of the last packet is sent several times, so that the
\* sender learns of the end unless as many datagrams are lost.
SenderLearnsOfEnd == <>(SenderFinished \/ lost >= FIN_ACK_NUM)

=============================================================================
