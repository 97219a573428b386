----------------------- MODULE ReliableSession_proofs -----------------------
(***************************************************************************)
(* Proofs about the two programs from start to end: the handshake, late    *)
(* starts, failing calls of recvfrom and answers that go astray do nothing *)
(* the sliding windows over a link may not do, and a program that has      *)
(* ended has delivered the file.                                           *)
(***************************************************************************)
EXTENDS ReliableSession, ReliableTransfer_proofs, SlideWindowBytes_proofs

-----------------------------------------------------------------------------
(***************************************************************************)
(* Every step of a session is one of the transfer, or one that leaves the  *)
(* windows alone.                                                          *)
(***************************************************************************)

\* A thread's answer gets under way in FIN_ACK_NUM copies at most.
LEMMA SessionAnswers ==
  ASSUME NEW thread \in ReceiveThreads, SessionReplies(thread)
  PROVE  ReplyStep
<1>1. CopiesFrom(thread) \in SUBSET (1..FIN_ACK_NUM)
  BY CopiesBounded DEF CopiesFrom
<1>2. ReplyWith(thread, CopiesFrom(thread))
  BY DEF SessionReplies
<1> QED
  BY <1>1, <1>2 DEF ReplyStep

\* The sender's steps, one by one.
LEMMA SenderProgramStep == SenderNext => AnyStep \/ UNCHANGED transferVars
<1> SUFFICES ASSUME SenderNext
             PROVE  AnyStep \/ UNCHANGED transferVars
  OBVIOUS
<1>1. CASE \/ SessionHandshake \/ SessionReceivesHandshakeAck \/ StartTransfer
           \/ SessionDropsHandshakeAck \/ ReceiveAckReturns
           \/ CheckTimeoutReturns \/ SenderExits
  BY <1>1 DEF SessionHandshake, SessionReceivesHandshakeAck, StartTransfer,
              SessionDropsHandshakeAck, ReceiveAckReturns, CheckTimeoutReturns,
              SenderExits
<1>2. CASE SessionSendsData \/ SessionWakesUp
  BY <1>2 DEF SessionSendsData, SessionWakesUp, AnyStep, TransferNext
<1>3. ASSUME NEW answer \in ackInFlight, SessionReceivesAck(answer)
      PROVE  AnyStep
  BY <1>3 DEF SessionReceivesAck, AnyStep, TransferNext
<1>4. ASSUME NEW expired \in SUBSET OutstandingPositions,
             SessionChecksTimeout(expired)
      PROVE  AnyStep
  BY <1>4 DEF SessionChecksTimeout, AnyStep, TransferNext
<1> QED
  BY <1>1, <1>2, <1>3, <1>4 DEF SenderNext

\* The receiver's steps, one by one.
LEMMA ReceiverProgramStep == ReceiverNext => AnyStep \/ UNCHANGED transferVars
<1> SUFFICES ASSUME ReceiverNext
             PROVE  AnyStep \/ UNCHANGED transferVars
  OBVIOUS
<1>1. CASE StartReceiver
  BY <1>1 DEF StartReceiver
<1>2. ASSUME NEW thread \in ReceiveThreads, NEW buffer \in dataInFlight,
             SessionReceivesData(thread, buffer)
      PROVE  AnyStep
  BY <1>2 DEF SessionReceivesData, AnyStep, TransferNext
<1>3. ASSUME NEW thread \in ReceiveThreads, SessionReplies(thread)
      PROVE  AnyStep
  BY <1>3, SessionAnswers DEF AnyStep
<1>4. ASSUME NEW thread \in ReceiveThreads, SessionAnswersHandshake(thread)
      PROVE  LinkStep
  BY <1>4 DEF SessionAnswersHandshake, LinkStep
<1>5. ASSUME NEW thread \in ReceiveThreads, RecvfromFails(thread)
      PROVE  LinkStep
  BY <1>5 DEF RecvfromFails, LinkStep
<1>6. ASSUME NEW thread \in ReceiveThreads, SessionThreadTimesOut(thread)
      PROVE  AnyStep
  BY <1>6 DEF SessionThreadTimesOut, AnyStep, TransferNext
<1> QED
  BY <1>1, <1>2, <1>3, <1>4, <1>5, <1>6 DEF ReceiverNext, AnyStep

\* All steps of the session.
LEMMA SessionStep == [SessionNext]_sessionVars => [AnyStep]_transferVars
<1> SUFFICES ASSUME [SessionNext]_sessionVars
             PROVE  AnyStep \/ UNCHANGED transferVars
  OBVIOUS
<1>1. CASE SessionLoses
  BY <1>1 DEF SessionLoses, AnyStep, TransferNext, LinkStep
<1>2. CASE NobodyListens
  BY <1>2 DEF NobodyListens
<1>3. CASE UNCHANGED sessionVars
  BY <1>3 DEF sessionVars
<1> QED
  BY <1>1, <1>2, <1>3, SenderProgramStep, ReceiverProgramStep DEF SessionNext

\* In every session, only what was sent is in flight.
LEMMA SessionInFlight == SessionSpec => []InFlightWasSent
<1>1. SessionInit => InFlightWasSent
  BY DEF SessionInit, TransferInit, InFlightWasSent
<1>2. InFlightWasSent /\ [SessionNext]_sessionVars => InFlightWasSent'
  BY SessionStep, TransferStep
<1> QED
  BY <1>1, <1>2, PTL DEF SessionSpec

\* From their start to their end, the programs do nothing but what two
\* sliding windows over a link may do.
THEOREM SessionImplements == SessionSpec => SessionImplementsProtocol
<1>1. SessionInit => Init
  BY DEF SessionInit, TransferInit
<1>2. InFlightWasSent /\ [SessionNext]_sessionVars => [Next]_vars
  BY SessionStep, TransferStep
<1> QED
  BY <1>1, <1>2, SessionInFlight, PTL
     DEF SessionSpec, Spec, SessionImplementsProtocol

\* So all that is proved of the windows holds of the programs: among others,
\* they never corrupt the file nor take for delivered what is not.
THEOREM SessionSafety ==
  SessionSpec => [](FileIntact /\ AckedWasReceived /\ AcksWithinWindow)
  BY SessionImplements, FileSafety, WindowSafety, PTL
     DEF SessionImplementsProtocol

-----------------------------------------------------------------------------
(***************************************************************************)
(* What has ended has delivered.                                           *)
(***************************************************************************)

\* The receiver never expects a packet beyond the last one.
ExpectedInFile ==
  /\ nextExpectedPacketSeqNum \in Nat
  /\ nextExpectedPacketSeqNum <= LastPacketSeqNum + 1

\* That follows from the invariant: it has all packets before the one it
\* expects.
LEMMA ExpectedFacts == IInv => ExpectedInFile
<1> SUFFICES ASSUME IInv PROVE ExpectedInFile
  OBVIOUS
<1>1. nextExpectedPacketSeqNum \in Nat
  BY DEF IInv, TypeOK, ReceiverTypeOK
<1>2. ASSUME nextExpectedPacketSeqNum > LastPacketSeqNum + 1
      PROVE  FALSE
  <2>1. LastPacketSeqNum + 1 \in 0..(nextExpectedPacketSeqNum - 1)
    BY <1>1, <1>2, LastPacketSeqNumNat
  <2>2. LastPacketSeqNum + 1 \in DOMAIN file
    BY <2>1 DEF IInv, ReceiverInv, FileIsReceived
  <2>3. LastPacketSeqNum + 1 < slideWindowLeftBoundSeqNum + Len(senderWindow)
    BY <2>2 DEF IInv, ReceivedWasSent
  <2>4. /\ slideWindowLeftBoundSeqNum \in Nat
        /\ Len(senderWindow) \in Nat
        /\ slideWindowLeftBoundSeqNum + Len(senderWindow)
             <= LastPacketSeqNum + 1
    BY DEF IInv, TypeOK, SenderTypeOK, SenderInv, WindowInFile
  <2> QED
    BY <2>3, <2>4, LastPacketSeqNumNat
<1> QED
  BY <1>1, <1>2, LastPacketSeqNumNat DEF ExpectedInFile

LEMMA ExpectedFactsPrimed == IInv' => ExpectedInFile'
  BY ExpectedFacts, PTL

\* The receiver never expects less than it did.
LEMMA ExpectedGrows ==
  ASSUME IInv, [Next]_vars
  PROVE  nextExpectedPacketSeqNum' >= nextExpectedPacketSeqNum
<1>1. nextExpectedPacketSeqNum \in Nat
  BY DEF IInv, TypeOK, ReceiverTypeOK
<1>2. ASSUME NEW buffer \in dataWire, ReceiveDataReplyAck(buffer)
      PROVE  nextExpectedPacketSeqNum' >= nextExpectedPacketSeqNum
  <2>1. ReceiveDataPacket(ReadBufferDataPacket(buffer))
    BY <1>2 DEF ReceiveDataReplyAck
  <2>2. CASE InBuffer(ReadBufferDataPacket(buffer).seqNum)
    <3>1. PICK n \in 0..INIT_WINDOW_SIZE :
            nextExpectedPacketSeqNum' = nextExpectedPacketSeqNum + n
      BY <2>1, <2>2 DEF ReceiveDataPacket, BufferPacket, SlidePast
    <3> QED
      BY <1>1, <3>1, ReceiverAssumption
  <2>3. CASE ~InBuffer(ReadBufferDataPacket(buffer).seqNum)
    BY <1>1, <2>1, <2>3 DEF ReceiveDataPacket
  <2> QED
    BY <2>2, <2>3
<1>3. CASE ~\E buffer \in dataWire : ReceiveDataReplyAck(buffer)
  <2>1. UNCHANGED receiverVars
    BY <1>3
       DEF Next, vars, SendDataCheck, SendDataPrepare, SendDataSendTo,
           ReceiveAck, CheckTimeoutOf
  <2> QED
    BY <1>1, <2>1 DEF receiverVars
<1> QED
  BY <1>2, <1>3

\* A receiver that knows the last packet knows it for good.
LEMMA LastPacketKnownForGood ==
  ASSUME [Next]_vars, lastPacketSeqNumReceived
  PROVE  lastPacketSeqNumReceived'
<1>1. ASSUME NEW buffer \in dataWire, ReceiveDataReplyAck(buffer)
      PROVE  lastPacketSeqNumReceived'
  BY <1>1 DEF ReceiveDataReplyAck, ReceiveDataPacket, NoteLastPacket
<1>2. CASE ~\E buffer \in dataWire : ReceiveDataReplyAck(buffer)
  <2>1. UNCHANGED receiverVars
    BY <1>2
       DEF Next, vars, SendDataCheck, SendDataPrepare, SendDataSendTo,
           ReceiveAck, CheckTimeoutOf
  <2> QED
    BY <2>1 DEF receiverVars
<1> QED
  BY <1>1, <1>2

\* Once the receiver is finished it stays so.
LEMMA ReceiverFinishedStable ==
  ASSUME IInv, [Next]_vars, ReceiverFinished
  PROVE  ReceiverFinished'
<1>1. IInv'
  BY NextIInv
<1>2. lastPacketSeqNumReceived'
  BY LastPacketKnownForGood DEF ReceiverFinished
<1>3. /\ lastPacketSeqNum = LastPacketSeqNum
      /\ lastPacketSeqNum' = LastPacketSeqNum
  BY <1>1, <1>2, LastPacketKnownPrimed
     DEF IInv, LastPacketKnown, ReceiverFinished
<1>4. /\ nextExpectedPacketSeqNum' \in Nat
      /\ nextExpectedPacketSeqNum' <= LastPacketSeqNum + 1
  BY <1>1, ExpectedFactsPrimed DEF ExpectedInFile
<1>5. nextExpectedPacketSeqNum' >= LastPacketSeqNum + 1
  BY <1>3, ExpectedGrows DEF ReceiverFinished
<1> QED
  BY <1>2, <1>3, <1>4, <1>5, LastPacketSeqNumNat DEF ReceiverFinished

\* When the receiver is finished, its file is complete and unaltered.
LEMMA FinishedFileComplete ==
  ASSUME IInv, ReceiverFinished
  PROVE  FileComplete
<1>1. DOMAIN file = SeqNums
  BY FinishedHasAll
<1>2. \A s \in DOMAIN file : file[s] = "chunk"
  BY DEF IInv
<1> QED
  BY <1>1, <1>2 DEF FileComplete

\* `done` is never reset.
LEMMA DoneStable ==
  ASSUME [AnyStep]_transferVars, Done
  PROVE  Done'
<1>1. CASE SendData
  BY <1>1 DEF SendData, SendDataLoop, SendDataBlock, SendDataCheckOrPrepare,
              SendDataTransmit, SendDataNothingLeft, Done
<1>2. CASE SpuriousWakeup \/ Lose \/ LinkStep \/ UNCHANGED transferVars
  BY <1>2 DEF SpuriousWakeup, Lose, LinkStep, transferVars, Done
<1>3. ASSUME NEW answer \in ackInFlight, ReceiveAckAndNotify(answer[1], answer[2])
      PROVE  Done'
  BY <1>3 DEF ReceiveAckAndNotify, NotifyIf, Done
<1>4. ASSUME NEW expired \in SUBSET OutstandingPositions,
             CheckTimeoutAndNotify(expired)
      PROVE  Done'
  BY <1>4 DEF CheckTimeoutAndNotify, NotifyIf, Done
<1>5. CASE ReplyStep \/ \E thread \in ReceiveThreads : Reply(thread)
  BY <1>5 DEF ReplyStep, Reply, ReplyWith, Done
<1>6. ASSUME NEW thread \in ReceiveThreads, NEW buffer \in dataInFlight,
             ReceiveDataBy(thread, buffer)
      PROVE  Done'
  BY <1>6 DEF ReceiveDataBy, Done
<1>7. ASSUME NEW thread \in ReceiveThreads, ReceiverThreadTimesOut(thread)
      PROVE  Done'
  BY <1>7 DEF ReceiverThreadTimesOut, Done
<1> QED
  BY <1>1, <1>2, <1>3, <1>4, <1>5, <1>6, <1>7 DEF AnyStep, TransferNext

\* A thread of the receiver returns only when the receiver is finished.
LEMMA ReturnsFinished ==
  ASSUME [SessionNext]_sessionVars
  PROVE  listening' = listening \/ ReceiverFinished'
<1>1. CASE SessionSendsData \/ SessionWakesUp
  BY <1>1 DEF SessionSendsData, SessionWakesUp, SendData, SendDataLoop,
              SendDataBlock, SendDataCheckOrPrepare, SendDataTransmit,
              SendDataNothingLeft, SpuriousWakeup, linkVars
<1>2. ASSUME NEW answer \in ackInFlight, SessionReceivesAck(answer)
      PROVE  listening' = listening
  BY <1>2 DEF SessionReceivesAck, ReceiveAckAndNotify
<1>3. ASSUME NEW expired \in SUBSET OutstandingPositions,
             SessionChecksTimeout(expired)
      PROVE  listening' = listening
  BY <1>3 DEF SessionChecksTimeout, CheckTimeoutAndNotify, linkVars
<1>4. CASE \/ SessionHandshake \/ SessionReceivesHandshakeAck \/ StartTransfer
           \/ SessionDropsHandshakeAck \/ ReceiveAckReturns
           \/ CheckTimeoutReturns \/ SenderExits \/ StartReceiver
           \/ NobodyListens
  BY <1>4 DEF SessionHandshake, SessionReceivesHandshakeAck, StartTransfer,
              SessionDropsHandshakeAck, ReceiveAckReturns, CheckTimeoutReturns,
              SenderExits, StartReceiver, NobodyListens, transferVars, linkVars
<1>5. ASSUME NEW thread \in ReceiveThreads, NEW buffer \in dataInFlight,
             SessionReceivesData(thread, buffer)
      PROVE  listening' = listening
  BY <1>5 DEF SessionReceivesData, ReceiveDataBy
<1>6. ASSUME UNCHANGED vars, ReceiverFinished
      PROVE  ReceiverFinished'
  BY <1>6 DEF vars, receiverVars, ReceiverFinished
<1>7. ASSUME NEW thread \in ReceiveThreads, SessionAnswersHandshake(thread)
      PROVE  listening' = listening \/ ReceiverFinished'
  BY <1>6, <1>7 DEF SessionAnswersHandshake
<1>11. ASSUME NEW thread \in ReceiveThreads, SessionReplies(thread)
       PROVE  listening' = listening \/ ReceiverFinished'
  BY <1>6, <1>11 DEF SessionReplies, ReplyWith
<1>8. ASSUME NEW thread \in ReceiveThreads, RecvfromFails(thread)
      PROVE  listening' = listening
  BY <1>8 DEF RecvfromFails
<1>9. ASSUME NEW thread \in ReceiveThreads, SessionThreadTimesOut(thread)
      PROVE  ReceiverFinished'
  BY <1>6, <1>9 DEF SessionThreadTimesOut, ReceiverThreadTimesOut
<1>10. CASE SessionLoses \/ UNCHANGED sessionVars
  BY <1>10 DEF SessionLoses, Lose, sessionVars, transferVars, linkVars
<1> QED
  BY <1>1, <1>2, <1>3, <1>4, <1>5, <1>7, <1>8, <1>9, <1>10, <1>11
     DEF SessionNext, SenderNext, ReceiverNext

\* The sender program ends after all its threads, and no thread of the
\* receiver before its window is finished.
EndInv ==
  /\ senderPc = "exited" => WindowUnused
  /\ listening # ReceiveThreads => ReceiverFinished

\* The sender program ends only when all its threads have ended, and starts
\* none after that.
LEMMA ExitStep ==
  ASSUME [SessionNext]_sessionVars, senderPc' = "exited",
         senderPc = "exited" => WindowUnused
  PROVE  Done /\ receivingAck' = 0 /\ ~checkingTimeout'
<1>1. ASSUME UNCHANGED senderProgram
      PROVE  Done /\ receivingAck' = 0 /\ ~checkingTimeout'
  BY <1>1, Zenon DEF senderProgram, WindowUnused
<1>2. CASE SenderExits
  BY <1>2, Zenon DEF SenderExits
<1>3. CASE StartTransfer
  BY <1>3 DEF StartTransfer
<1>4. CASE ReceiveAckReturns
  BY <1>4 DEF ReceiveAckReturns, WindowUnused
<1>5. CASE CheckTimeoutReturns
  BY <1>5 DEF CheckTimeoutReturns, WindowUnused
<1>6. CASE SenderNext
  BY <1>1, <1>2, <1>3, <1>4, <1>5, <1>6
     DEF SenderNext, SessionHandshake, SessionReceivesHandshakeAck,
         SessionSendsData, SessionWakesUp, SessionReceivesAck,
         SessionDropsHandshakeAck, SessionChecksTimeout
<1>7. CASE ReceiverNext
  BY <1>1, <1>7
     DEF ReceiverNext, StartReceiver, SessionReceivesData, SessionReplies,
         SessionAnswersHandshake, RecvfromFails, SessionThreadTimesOut
<1>8. CASE SessionLoses \/ NobodyListens \/ UNCHANGED sessionVars
  BY <1>1, <1>8 DEF SessionLoses, NobodyListens, sessionVars
<1> QED
  BY <1>6, <1>7, <1>8 DEF SessionNext

\* Every step keeps that.
LEMMA EndStep ==
  IInv /\ InFlightWasSent /\ EndInv /\ [SessionNext]_sessionVars => EndInv'
<1> SUFFICES ASSUME IInv, InFlightWasSent, EndInv, [SessionNext]_sessionVars
             PROVE  EndInv'
  OBVIOUS
<1>1. [AnyStep]_transferVars
  BY SessionStep
<1>2. [Next]_vars
  BY <1>1, TransferStep
<1>3. senderPc' = "exited" => WindowUnused'
  BY <1>1, ExitStep, DoneStable, Zenon DEF EndInv, WindowUnused
<1>4. listening' # ReceiveThreads => ReceiverFinished'
  BY <1>2, ReturnsFinished, ReceiverFinishedStable DEF EndInv
<1> QED
  BY <1>3, <1>4 DEF EndInv

\* All that, together with what is known of the transfer, holds throughout.
LEMMA EndInvariance == SessionSpec => [](IInv /\ EndInv /\ SendDataInv)
<1>1. SessionInit => EndInv /\ SendDataInv
  BY DEF SessionInit, TransferInit, Init, EndInv, SendDataInv
<1>2. IInv /\ InFlightWasSent /\ SendDataInv /\ [SessionNext]_sessionVars
        => SendDataInv'
  BY SessionStep, SendDataStep
<1>3. SessionSpec => []IInv
  BY SessionImplements, Invariance, PTL DEF SessionImplementsProtocol
<1> QED
  BY <1>1, <1>2, <1>3, EndStep, SessionInFlight, PTL DEF SessionSpec

\* Which sides are finished when a program has ended.
LEMMA EndedFacts ==
  ASSUME IInv, EndInv, SendDataInv
  PROVE  /\ senderPc = "exited" => SenderFinished
         /\ ReceiverExited => ReceiverFinished
<1>1. senderPc = "exited" => SenderFinished
  BY DEF EndInv, WindowUnused, Done, SendDataInv
<1>2. ReceiverExited => ReceiverFinished
  BY TransferAssumption DEF EndInv, ReceiverExited
<1> QED
  BY <1>1, <1>2

\* A program that has ended, either of them, has done its work: the receiving
\* file is complete and unaltered, and no thread of the sender is left that
\* could use the window it deletes.
THEOREM ExitDelivered == SessionSpec => []ExitMeansDelivered
<1>1. IInv /\ EndInv /\ SendDataInv => ExitMeansDelivered
  <2>1. SUFFICES ASSUME IInv, EndInv, SendDataInv,
                        senderPc = "exited" \/ ReceiverExited
                 PROVE  FileComplete
    BY DEF ExitMeansDelivered, EndInv
  <2>2. ReceiverFinished
    BY <2>1, EndedFacts, FinishedFacts DEF FinishedMeansDelivered
  <2> QED
    BY <2>1, <2>2, FinishedFileComplete
<1> QED
  BY <1>1, EndInvariance, PTL

\* If the numbers fit, the session does to the file, byte by byte, what
\* LargeFile says, from the first handshake to the last join.
THEOREM SessionImplementsFile ==
  NumbersFit => (SessionSpec => ImplementsLargeFile)
<1>1. SUFFICES ASSUME NumbersFit PROVE SessionSpec => ImplementsLargeFile
  OBVIOUS
<1>2. Spec => ImplementsLargeFile
  BY <1>1, FileImplements
<1> QED
  BY <1>2, SessionImplements, PTL DEF SessionImplementsProtocol

\* What the programs are for: a receiver program that has ended leaves,
\* byte by byte, what was asked for as far as the file has it; and a sender
\* program that has ended, all that was asked for.
THEOREM ExitMeansCopied ==
  SessionSpec => [](/\ ReceiverExited => FileBytes = CopyOf(BytesThere)
                    /\ senderPc = "exited"
                         => FileBytes = CopyOf(bytesToSend))
<1>1. IInv /\ EndInv /\ SendDataInv
        => /\ ReceiverExited => FileBytes = CopyOf(BytesThere)
           /\ senderPc = "exited" => FileBytes = CopyOf(bytesToSend)
  BY EndedFacts, CopyFacts DEF CopyMade
<1> QED
  BY <1>1, EndInvariance, PTL

-----------------------------------------------------------------------------
(***************************************************************************)
(* The types.                                                              *)
(***************************************************************************)

\* The types of what the programs add to the transfer.
ProgramTypeOK ==
  /\ senderPc \in {"handshake", "transfer", "exited"}
  /\ receivingAck \in 0..RECEIVE_ACK_THREAD_NUM
  /\ checkingTimeout \in BOOLEAN
  /\ receiverUp \in BOOLEAN
  /\ theirAddrLen \in [ReceiveThreads -> {"enough", "short", "negative"}]

\* The steps of the sender program keep the types.
LEMMA SenderProgramTypes ==
  ASSUME LinkTypeOK, HandshakeTypeOK, ProgramTypeOK, SenderNext
  PROVE  LinkTypeOK' /\ HandshakeTypeOK' /\ ProgramTypeOK'
<1>1. ASSUME UNCHANGED transferVars
      PROVE  LinkTypeOK'
  BY <1>1 DEF transferVars, linkVars, LinkTypeOK
<1>2. ASSUME UNCHANGED handshakeVars
      PROVE  HandshakeTypeOK'
  BY <1>2 DEF handshakeVars, handshakeLink, HandshakeTypeOK
<1>3. ASSUME UNCHANGED <<senderProgram, receiverProgram>>
      PROVE  ProgramTypeOK'
  BY <1>3 DEF senderProgram, receiverProgram, ProgramTypeOK
<1>4. CASE \/ SessionHandshake \/ SessionReceivesHandshakeAck
           \/ SessionDropsHandshakeAck
  <2>1. UNCHANGED <<transferVars, senderProgram, receiverProgram>>
    BY <1>4 DEF SessionHandshake, SessionReceivesHandshakeAck,
                SessionDropsHandshakeAck
  <2>2. \/ SendHandshakes \/ HandshakeTimesOut \/ ReceiveHandshakeAck
        \/ DropHandshakeAck
    BY <1>4 DEF SessionHandshake, SessionReceivesHandshakeAck,
                SessionDropsHandshakeAck
  <2>3. HandshakeTypeOK'
    BY <2>2, HandshakeAssumption
       DEF SendHandshakes, HandshakeTimesOut, ReceiveHandshakeAck,
           DropHandshakeAck, HandshakeOver, Carried, handshakeLink,
           HandshakeTypeOK
  <2> QED
    BY <1>1, <1>3, <2>1, <2>3
<1>5. CASE StartTransfer \/ ReceiveAckReturns \/ CheckTimeoutReturns \/ SenderExits
  <2>1. UNCHANGED <<transferVars, handshakeVars>>
    BY <1>5 DEF StartTransfer, ReceiveAckReturns, CheckTimeoutReturns,
                SenderExits
  <2>2. checkingTimeout' \in BOOLEAN
    BY <1>5, Zenon
       DEF StartTransfer, ReceiveAckReturns, CheckTimeoutReturns, SenderExits,
           ProgramTypeOK
  <2>3. UNCHANGED receiverProgram
    BY <1>5 DEF StartTransfer, ReceiveAckReturns, CheckTimeoutReturns,
                SenderExits
  <2>4. /\ receivingAck' \in 0..RECEIVE_ACK_THREAD_NUM
        /\ senderPc' \in {"handshake", "transfer", "exited"}
    BY <1>5, SessionAssumption
       DEF StartTransfer, ReceiveAckReturns, CheckTimeoutReturns, SenderExits,
           ProgramTypeOK
  <2>5. ProgramTypeOK'
    BY <2>2, <2>3, <2>4, Zenon DEF receiverProgram, ProgramTypeOK
  <2> QED
    BY <1>1, <1>2, <2>1, <2>5
<1>6. CASE SessionSendsData \/ SessionWakesUp
  BY <1>2, <1>3, <1>6, LinkTypeStep
     DEF SessionSendsData, SessionWakesUp, TransferNext
<1>7. ASSUME NEW answer \in ackInFlight, SessionReceivesAck(answer)
      PROVE  LinkTypeOK' /\ HandshakeTypeOK' /\ ProgramTypeOK'
  BY <1>2, <1>3, <1>7, LinkTypeStep DEF SessionReceivesAck, TransferNext
<1>8. ASSUME NEW expired \in SUBSET OutstandingPositions,
             SessionChecksTimeout(expired)
      PROVE  LinkTypeOK' /\ HandshakeTypeOK' /\ ProgramTypeOK'
  BY <1>2, <1>3, <1>8, LinkTypeStep DEF SessionChecksTimeout, TransferNext
<1> QED
  BY <1>4, <1>5, <1>6, <1>7, <1>8 DEF SenderNext

\* The steps of the receiver program and of the link keep them.
LEMMA ReceiverProgramTypes ==
  ASSUME LinkTypeOK, HandshakeTypeOK, ProgramTypeOK,
         ReceiverNext \/ SessionLoses \/ NobodyListens
  PROVE  LinkTypeOK' /\ HandshakeTypeOK' /\ ProgramTypeOK'
<1>1. ASSUME NEW copies \in Nat, AnswerHandshake(copies)
      PROVE  HandshakeTypeOK'
  BY <1>1, HandshakeAssumption
     DEF AnswerHandshake, Carried, HandshakeTypeOK
<1>2. ASSUME UNCHANGED handshakeVars
      PROVE  HandshakeTypeOK'
  BY <1>2 DEF handshakeVars, handshakeLink, HandshakeTypeOK
<1>3. ASSUME UNCHANGED <<senderProgram, receiverProgram>>
      PROVE  ProgramTypeOK'
  BY <1>3 DEF senderProgram, receiverProgram, ProgramTypeOK
<1>4. ASSUME NEW thread \in ReceiveThreads, NextAddrLen(thread),
             UNCHANGED <<senderProgram, receiverUp>>
      PROVE  ProgramTypeOK'
  BY <1>4 DEF NextAddrLen, senderProgram, ProgramTypeOK
<1>5. CASE StartReceiver
  BY <1>2, <1>5
     DEF StartReceiver, transferVars, linkVars, senderProgram, LinkTypeOK,
         ProgramTypeOK
<1>6. ASSUME NEW thread \in ReceiveThreads, NEW buffer \in dataInFlight,
             SessionReceivesData(thread, buffer)
      PROVE  LinkTypeOK' /\ HandshakeTypeOK' /\ ProgramTypeOK'
  <2>1. LinkTypeOK'
    BY <1>6 DEF SessionReceivesData, ReceiveDataBy, LinkTypeOK
  <2> QED
    BY <1>2, <1>3, <1>6, <2>1 DEF SessionReceivesData
<1>13. ASSUME NEW thread \in ReceiveThreads, SessionReplies(thread)
       PROVE  LinkTypeOK' /\ HandshakeTypeOK' /\ ProgramTypeOK'
  <2>1. LinkTypeOK'
    BY <1>13 DEF SessionReplies, ReplyWith, LinkTypeOK
  <2> QED
    BY <1>2, <1>4, <1>13, <2>1 DEF SessionReplies
<1>7. ASSUME NEW thread \in ReceiveThreads, SessionAnswersHandshake(thread)
      PROVE  LinkTypeOK' /\ HandshakeTypeOK' /\ ProgramTypeOK'
  <2>1. HandshakeCopiesFrom(thread) \in Nat
    BY TransferAssumption DEF HandshakeCopiesFrom
  <2>2. HandshakeTypeOK'
    BY <1>1, <1>7, <2>1 DEF SessionAnswersHandshake
  <2>3. LinkTypeOK'
    BY <1>7 DEF SessionAnswersHandshake, LinkTypeOK
  <2> QED
    BY <1>4, <1>7, <2>2, <2>3 DEF SessionAnswersHandshake
<1>8. ASSUME NEW thread \in ReceiveThreads, RecvfromFails(thread)
      PROVE  LinkTypeOK' /\ HandshakeTypeOK' /\ ProgramTypeOK'
  <2>1. LinkTypeOK'
    BY <1>8 DEF RecvfromFails, LinkTypeOK
  <2>2. HandshakeTypeOK'
    BY <1>1, <1>2, <1>8 DEF RecvfromFails
  <2> QED
    BY <1>3, <1>8, <2>1, <2>2 DEF RecvfromFails
<1>9. ASSUME NEW thread \in ReceiveThreads, SessionThreadTimesOut(thread)
      PROVE  LinkTypeOK' /\ HandshakeTypeOK' /\ ProgramTypeOK'
  BY <1>2, <1>3, <1>9, LinkTypeStep DEF SessionThreadTimesOut, TransferNext
<1>10. CASE Lose /\ UNCHANGED <<handshakeVars, senderProgram, receiverProgram>>
  BY <1>2, <1>3, <1>10, LinkTypeStep DEF TransferNext
<1>11. CASE /\ lost < MaxLosses /\ lost' = lost + 1
            /\ LoseHandshake
            /\ UNCHANGED <<waitPc, listening, senderProgram, receiverProgram>>
  <2>1. LinkTypeOK'
    BY <1>11, TransferAssumption DEF LinkTypeOK
  <2>2. HandshakeTypeOK'
    <3>1. CASE AnswerHandshake(0)
      BY <1>1, <3>1
    <3>2. CASE DropHandshakeAck
      BY <3>2, HandshakeAssumption DEF DropHandshakeAck, HandshakeTypeOK
    <3> QED
      BY <1>11, <3>1, <3>2 DEF LoseHandshake
  <2> QED
    BY <1>3, <1>11, <2>1, <2>2
<1>12. CASE NobodyListens
  <2>1. LinkTypeOK'
    BY <1>12 DEF NobodyListens, transferVars, linkVars, LinkTypeOK
  <2> QED
    BY <1>1, <1>3, <1>12, <2>1 DEF NobodyListens
<1> QED
  BY <1>5, <1>6, <1>7, <1>8, <1>9, <1>10, <1>11, <1>12, <1>13
     DEF ReceiverNext, SessionLoses

\* Every variable of the session keeps its type.
THEOREM SessionTypes == SessionSpec => []SessionTypeOK
<1> DEFINE Types == LinkTypeOK /\ HandshakeTypeOK /\ ProgramTypeOK
<1>1. SessionInit => Types
  <2>1. SUFFICES ASSUME SessionInit PROVE Types
    OBVIOUS
  <2>2. LinkTypeOK
    BY <2>1, TransferAssumption DEF SessionInit, TransferInit, LinkTypeOK
  <2>3. HandshakeTypeOK
    BY <2>1, HandshakeAssumption
       DEF SessionInit, HandshakeInit, HandshakeTypeOK
  <2>4. checkingTimeout \in BOOLEAN /\ receiverUp \in BOOLEAN
    BY <2>1, Zenon DEF SessionInit
  <2>5. /\ senderPc = "handshake"
        /\ receivingAck \in 0..RECEIVE_ACK_THREAD_NUM
    BY <2>1, SessionAssumption DEF SessionInit
  <2>6. theirAddrLen \in [ReceiveThreads -> {"enough", "short", "negative"}]
    <3>1. theirAddrLen \in [ReceiveThreads -> UninitializedLens]
      BY <2>1 DEF SessionInit
    <3> QED
      BY <3>1, SessionAssumption
  <2>7. ProgramTypeOK
    BY <2>4, <2>5, <2>6, Zenon DEF ProgramTypeOK
  <2> QED
    BY <2>2, <2>3, <2>7
<1>2. Types /\ [SessionNext]_sessionVars => Types'
  <2>1. SUFFICES ASSUME Types, [SessionNext]_sessionVars
                 PROVE  Types'
    OBVIOUS
  <2>2. CASE SessionNext
    BY <2>1, <2>2, SenderProgramTypes, ReceiverProgramTypes DEF SessionNext
  <2>3. CASE UNCHANGED sessionVars
    BY <2>1, <2>3
       DEF sessionVars, transferVars, linkVars, handshakeVars, handshakeLink,
           senderProgram, receiverProgram, LinkTypeOK, HandshakeTypeOK,
           ProgramTypeOK
  <2> QED
    BY <2>1, <2>2, <2>3
<1>3. IInv /\ InFlightWasSent /\ Types => SessionTypeOK
  BY DEF IInv, InFlightWasSent, LinkTypeOK, ProgramTypeOK, SessionTypeOK,
         TransferTypeOK
<1>4. SessionSpec => []IInv
  BY SessionImplements, Invariance, PTL DEF SessionImplementsProtocol
<1> HIDE DEF Types
<1> QED
  BY <1>1, <1>2, <1>3, <1>4, SessionInFlight, PTL DEF SessionSpec

-----------------------------------------------------------------------------
(***************************************************************************)
(* The final acknowledgement, if theirAddrLen has room by chance.          *)
(***************************************************************************)

\* What AddressesFit says, as a type.
FittingLens == theirAddrLen \in [ReceiveThreads -> {"enough"}]

\* No recvfrom takes the room away.
LEMMA LensStayFitting ==
  FittingLens /\ [SessionNext]_sessionVars => FittingLens'
<1> SUFFICES ASSUME FittingLens, [SessionNext]_sessionVars
             PROVE  FittingLens'
  OBVIOUS
<1>1. ASSUME NEW thread, NextAddrLen(thread)
      PROVE  FittingLens'
  BY <1>1 DEF NextAddrLen, FittingLens
<1>2. CASE UNCHANGED theirAddrLen
  BY <1>2 DEF FittingLens
<1>3. CASE SenderNext
  BY <1>2, <1>3
     DEF SenderNext, SessionHandshake, SessionReceivesHandshakeAck,
         StartTransfer, SessionSendsData, SessionWakesUp, SessionReceivesAck,
         SessionDropsHandshakeAck, SessionChecksTimeout, ReceiveAckReturns,
         CheckTimeoutReturns, SenderExits, receiverProgram
<1>4. CASE ReceiverNext
  BY <1>1, <1>2, <1>4
     DEF ReceiverNext, StartReceiver, SessionReceivesData, SessionReplies,
         SessionAnswersHandshake, RecvfromFails, SessionThreadTimesOut,
         receiverProgram
<1>5. CASE SessionLoses \/ NobodyListens \/ UNCHANGED sessionVars
  BY <1>2, <1>5 DEF SessionLoses, NobodyListens, sessionVars, receiverProgram
<1> QED
  BY <1>3, <1>4, <1>5 DEF SessionNext

\* The handshake's part of a session touches nothing in flight but its own
\* packets, whose losses count as well, and no thread that has an answer to
\* send returns.
HandshakePart ==
  /\ UNCHANGED <<vars, ackInFlight>>
  /\ HoldersStay
  /\ lost' \in {lost, lost + 1}

\* With room for the address, every other step is one of the transfer.
LEMMA FittingStep ==
  FittingLens /\ [SessionNext]_sessionVars
    => [TransferNext]_transferVars \/ HandshakePart
<1> SUFFICES ASSUME FittingLens, [SessionNext]_sessionVars
             PROVE  TransferNext \/ UNCHANGED transferVars \/ HandshakePart
  OBVIOUS
<1>1. CASE SenderNext
  BY <1>1
     DEF SenderNext, SessionHandshake, SessionReceivesHandshakeAck,
         StartTransfer, SessionSendsData, SessionWakesUp, SessionReceivesAck,
         SessionDropsHandshakeAck, SessionChecksTimeout, ReceiveAckReturns,
         CheckTimeoutReturns, SenderExits, TransferNext
<1>2. CASE StartReceiver
  BY <1>2 DEF StartReceiver
<1>3. ASSUME NEW thread \in ReceiveThreads, NEW buffer \in dataInFlight,
             SessionReceivesData(thread, buffer)
      PROVE  TransferNext
  BY <1>3 DEF SessionReceivesData, TransferNext
<1>10. ASSUME NEW thread \in ReceiveThreads, SessionReplies(thread)
       PROVE  TransferNext
  <2>1. CopiesFrom(thread) = Copies
    BY DEF FittingLens, CopiesFrom
  <2>2. Reply(thread)
    BY <1>10, <2>1 DEF SessionReplies, Reply
  <2> QED
    BY <2>2 DEF TransferNext
<1>4. ASSUME NEW thread \in ReceiveThreads, SessionAnswersHandshake(thread)
      PROVE  HandshakePart
  BY <1>4 DEF SessionAnswersHandshake, Idle, HandshakePart, HoldersStay
<1>5. ASSUME NEW thread \in ReceiveThreads, RecvfromFails(thread)
      PROVE  FALSE
  BY <1>5 DEF RecvfromFails, FittingLens
<1>6. ASSUME NEW thread \in ReceiveThreads, SessionThreadTimesOut(thread)
      PROVE  TransferNext
  BY <1>6 DEF SessionThreadTimesOut, TransferNext
<1>7. CASE SessionLoses
  BY <1>7 DEF SessionLoses, TransferNext, HandshakePart, HoldersStay
<1>8. CASE NobodyListens
  BY <1>8 DEF NobodyListens
<1>9. CASE UNCHANGED sessionVars
  BY <1>9 DEF sessionVars
<1> QED
  BY <1>1, <1>2, <1>3, <1>4, <1>5, <1>6, <1>7, <1>8, <1>9, <1>10
     DEF SessionNext, ReceiverNext

\* The handshake's part keeps the invariant of the final acknowledgement.
LEMMA HandshakeKeepsFinalAck ==
  ASSUME FinalAckInv, HandshakePart, lost \in Nat
  PROVE  FinalAckInv'
<1>1. UNCHANGED vars /\ ackInFlight' = ackInFlight
  BY DEF HandshakePart
<1>2. /\ ReceiverFinished' <=> ReceiverFinished
      /\ ackWire' = ackWire
      /\ slideWindowLeftBoundSeqNum' = slideWindowLeftBoundSeqNum
  BY <1>1 DEF vars, receiverVars, senderVars, wireVars, ReceiverFinished
<1>3. CASE ~ReceiverFinished \/ slideWindowLeftBoundSeqNum = LastPacketSeqNum + 1
  BY <1>2, <1>3 DEF FinalAckInv
<1>5. CASE FinalAckHeld
  BY <1>5, FinalAckStaysHeld DEF HandshakePart, FinalAckInv
<1>4. ASSUME NEW answer \in ackWire, FinalAck(answer),
             lost + Cardinality(CopiesInFlight(answer)) >= FIN_ACK_NUM
      PROVE  FinalAckInv'
  <2>1. CopiesInFlight(answer)' = CopiesInFlight(answer)
    BY <1>1 DEF CopiesInFlight
  <2>2. lost' + Cardinality(CopiesInFlight(answer)') >= FIN_ACK_NUM
    BY <1>4, <2>1, CopiesFinite, TransferAssumption DEF HandshakePart
  <2> QED
    BY <1>2, <1>4, <2>2 DEF FinalAckInv, FinalAck, CopiesInFlight
<1> QED
  BY <1>3, <1>4, <1>5 DEF FinalAckInv

\* If theirAddrLen has room for the address by chance, then also with the
\* handshake and its losses, with a receiver that starts late and with
\* threads that return one by one, the sender is not left without a final
\* acknowledgement by fewer than FIN_ACK_NUM losses.
THEOREM SessionFinalAck == AddressesFit /\ SessionSpec => []FinalAckNotLost
<1>1. AddressesFit /\ SessionInit => FittingLens /\ FinalAckInv
  BY DEF AddressesFit, SessionInit, FittingLens, TransferInit, Init,
         ReceiverInit, ReceiverFinished, FinalAckInv
<1>2. SessionTypeOK => LinkTypeOK
  BY DEF SessionTypeOK, TransferTypeOK, LinkTypeOK
<1>3. IInv /\ InFlightWasSent /\ LinkTypeOK /\ FittingLens /\ FinalAckInv
        /\ [SessionNext]_sessionVars => FinalAckInv'
  <2>1. SUFFICES ASSUME IInv, InFlightWasSent, LinkTypeOK, FittingLens,
                        FinalAckInv, [SessionNext]_sessionVars
                 PROVE  FinalAckInv'
    OBVIOUS
  <2>2. lost \in Nat
    BY <2>1, TransferAssumption DEF LinkTypeOK
  <2> QED
    BY <2>1, <2>2, FittingStep, FinalAckStep, HandshakeKeepsFinalAck
<1>4. SessionSpec => []IInv
  BY SessionImplements, Invariance, PTL DEF SessionImplementsProtocol
<1> QED
  BY <1>1, <1>2, <1>3, <1>4, LensStayFitting, SessionInFlight, SessionTypes,
     FinalAckFacts, PTL DEF SessionSpec

=============================================================================
