----------------------- MODULE ReliableTransfer_proofs -----------------------
(***************************************************************************)
(* Proofs about the two programs: their threads do nothing the sliding     *)
(* windows over a link may not do, so that all that is proved of the       *)
(* windows holds of the programs; and sendData ends only when the file has *)
(* been delivered.                                                         *)
(***************************************************************************)
EXTENDS ReliableTransfer, SlideWindowProtocol_proofs, FiniteSetTheorems

\* What is in flight was sent, and a thread holds an answer of the window.
InFlightWasSent ==
  /\ dataInFlight \subseteq dataWire
  /\ ackInFlight \subseteq ackWire \X (1..FIN_ACK_NUM)
  /\ toReply \in [ReceiveThreads -> SUBSET ackWire]

\* A step of the window that leaves the links alone loses nothing that was
\* sent.
LEMMA SentStaysSent ==
  ASSUME InFlightWasSent, dataInFlight' \subseteq dataInFlight,
         ackInFlight' \subseteq ackInFlight, toReply' = toReply,
         dataWire \subseteq dataWire', ackWire \subseteq ackWire'
  PROVE  InFlightWasSent'
  BY DEF InFlightWasSent

(***************************************************************************)
(* What follows is proved of more steps than TransferNext has, so that it  *)
(* holds of ReliableSession as well: datagrams may vanish without being    *)
(* counted as lost, and any copies of an answer may get under way.         *)
(***************************************************************************)
LinkStep ==
  /\ UNCHANGED <<vars, waitPc, toReply>>
  /\ dataInFlight' \subseteq dataInFlight
  /\ ackInFlight' \subseteq ackInFlight

ReplyStep ==
  \E thread \in ReceiveThreads, copies \in SUBSET (1..FIN_ACK_NUM) :
    ReplyWith(thread, copies)

AnyStep == TransferNext \/ LinkStep \/ ReplyStep

\* Answers go out in no more than FIN_ACK_NUM copies.
LEMMA CopiesBounded == Copies \in SUBSET (1..FIN_ACK_NUM)
  BY TransferAssumption DEF Copies

\* Every step of the programs is a step of the sliding windows over the
\* link, or changes nothing of them.
LEMMA TransferStep ==
  ASSUME InFlightWasSent, [AnyStep]_transferVars
  PROVE  [Next]_vars /\ InFlightWasSent'
<1>1. ASSUME UNCHANGED <<vars, toReply>>, dataInFlight' \subseteq dataInFlight,
             ackInFlight' \subseteq ackInFlight
      PROVE  [Next]_vars /\ InFlightWasSent'
  <2>1. dataWire' = dataWire /\ ackWire' = ackWire
    BY <1>1 DEF vars, wireVars
  <2> QED
    BY <1>1, <2>1, SentStaysSent
<1>2. CASE SendDataLoop \/ SendDataBlock \/ SendDataNothingLeft \/ SpuriousWakeup
  BY <1>1, <1>2 DEF SendDataLoop, SendDataBlock, SendDataNothingLeft,
                    SpuriousWakeup, linkVars
<1>3. CASE SendDataCheckOrPrepare
  <2>1. SendDataCheck \/ SendDataPrepare
    BY <1>3 DEF SendDataCheckOrPrepare
  <2>2. UNCHANGED wireVars
    BY <2>1 DEF SendDataCheck, SendDataPrepare
  <2>3. UNCHANGED linkVars
    BY <1>3 DEF SendDataCheckOrPrepare
  <2> QED
    BY <2>1, <2>2, <2>3, SentStaysSent DEF Next, wireVars, linkVars
<1>4. ASSUME NEW dp \in prepared, SendDataTransmit(dp)
      PROVE  [Next]_vars /\ InFlightWasSent'
  <2>1. SendDataSendTo(dp)
    BY <1>4 DEF SendDataTransmit
  <2>2. dataWire' = dataWire \cup {DatagramOf(dp)} /\ ackWire' = ackWire
    BY <2>1 DEF SendDataSendTo
  <2>3. /\ dataInFlight' = dataInFlight \cup {DatagramOf(dp)}
        /\ ackInFlight' = ackInFlight /\ toReply' = toReply
    BY <1>4 DEF SendDataTransmit
  <2> QED
    BY <2>1, <2>2, <2>3 DEF Next, InFlightWasSent
<1>5. ASSUME NEW answer \in ackInFlight, ReceiveAckAndNotify(answer[1], answer[2])
      PROVE  [Next]_vars /\ InFlightWasSent'
  <2>1. answer[1] \in ackWire
    BY DEF InFlightWasSent
  <2>2. ReceiveAck(answer[1])
    BY <1>5 DEF ReceiveAckAndNotify
  <2>3. dataWire' = dataWire /\ ackWire' = ackWire
    BY <2>2 DEF ReceiveAck, wireVars
  <2>4. /\ dataInFlight' = dataInFlight /\ ackInFlight' \subseteq ackInFlight
        /\ toReply' = toReply
    BY <1>5 DEF ReceiveAckAndNotify
  <2> QED
    BY <2>1, <2>2, <2>3, <2>4, SentStaysSent DEF Next
<1>6. ASSUME NEW expired \in SUBSET OutstandingPositions,
             CheckTimeoutAndNotify(expired)
      PROVE  [Next]_vars /\ InFlightWasSent'
  <2>1. CheckTimeoutOf(expired) /\ UNCHANGED linkVars
    BY <1>6 DEF CheckTimeoutAndNotify
  <2>2. UNCHANGED wireVars
    BY <2>1 DEF CheckTimeoutOf
  <2> QED
    BY <2>1, <2>2, SentStaysSent DEF Next, wireVars, linkVars
<1>7. ASSUME NEW thread \in ReceiveThreads, NEW buffer \in dataInFlight,
             ReceiveDataBy(thread, buffer)
      PROVE  [Next]_vars /\ InFlightWasSent'
  <2>1. buffer \in dataWire
    BY DEF InFlightWasSent
  <2>2. ReceiveDataReplyAck(buffer)
    BY <1>7 DEF ReceiveDataBy
  <2>3. dataWire' = dataWire /\ ackWire' = ackWire \cup {Answer(buffer)}
    BY <2>2 DEF ReceiveDataReplyAck, Answer
  <2>4. /\ dataInFlight' \subseteq dataInFlight
        /\ ackInFlight' = ackInFlight
        /\ toReply' = [toReply EXCEPT ![thread] = {Answer(buffer)}]
    BY <1>7 DEF ReceiveDataBy
  <2> QED
    BY <2>1, <2>2, <2>3, <2>4 DEF Next, InFlightWasSent
<1>11. CASE ReplyStep
  <2>1. PICK thread \in ReceiveThreads, copies \in SUBSET (1..FIN_ACK_NUM) :
               ReplyWith(thread, copies)
    BY <1>11 DEF ReplyStep
  <2>2. /\ UNCHANGED <<vars, dataInFlight>>
        /\ ackInFlight' = ackInFlight \cup (toReply[thread] \X copies)
        /\ toReply' = [toReply EXCEPT ![thread] = {}]
    BY <2>1 DEF ReplyWith
  <2>3. dataWire' = dataWire /\ ackWire' = ackWire
    BY <2>2 DEF vars, wireVars
  <2>4. toReply[thread] \subseteq ackWire
    BY DEF InFlightWasSent
  <2> QED
    BY <2>2, <2>3, <2>4 DEF InFlightWasSent
<1>8. ASSUME NEW thread \in ReceiveThreads, ReceiverThreadTimesOut(thread)
      PROVE  [Next]_vars /\ InFlightWasSent'
  BY <1>1, <1>8 DEF ReceiverThreadTimesOut
<1>9. CASE Lose \/ LinkStep
  BY <1>1, <1>9 DEF Lose, LinkStep
<1>12. ASSUME NEW thread \in ReceiveThreads, Reply(thread)
       PROVE  ReplyStep
  BY <1>12, CopiesBounded DEF Reply, ReplyStep
<1>10. CASE UNCHANGED transferVars
  BY <1>1, <1>10 DEF transferVars, linkVars
<1> QED
  BY <1>2, <1>3, <1>4, <1>5, <1>6, <1>7, <1>8, <1>9, <1>10, <1>11, <1>12
     DEF AnyStep, TransferNext, SendData

\* In every execution, only what was sent is in flight.
LEMMA OnlySentInFlight == TransferSpec => []InFlightWasSent
<1>1. TransferInit => InFlightWasSent
  BY DEF TransferInit, InFlightWasSent
<1>2. InFlightWasSent /\ [TransferNext]_transferVars => InFlightWasSent'
  BY TransferStep DEF AnyStep
<1> QED
  BY <1>1, <1>2, PTL DEF TransferSpec

\* The threads of the two programs implement the sliding windows over a link.
THEOREM TransferImplements == TransferSpec => ImplementsSlideWindowProtocol
<1>1. TransferInit => Init
  BY DEF TransferInit
<1>2. InFlightWasSent /\ [TransferNext]_transferVars => [Next]_vars
  BY TransferStep DEF AnyStep
<1> QED
  BY <1>1, <1>2, OnlySentInFlight, PTL
     DEF TransferSpec, Spec, ImplementsSlideWindowProtocol

\* With all that follows: the programs never corrupt the receiving file, never
\* take for delivered what is not, and never pop an empty deque.
THEOREM TransferSafety ==
  TransferSpec => [](FileIntact /\ AckedWasReceived /\ AcksWithinWindow)
  BY TransferImplements, FileSafety, WindowSafety, PTL
     DEF ImplementsSlideWindowProtocol

-----------------------------------------------------------------------------
(***************************************************************************)
(* sendData ends only when the transfer is finished.                       *)
(***************************************************************************)

\* The more packets, the more bytes.
LEMMA BytesUpToMonotone ==
  ASSUME NEW m \in Nat, NEW n \in Nat, m <= n
  PROVE  BytesUpTo(m) <= BytesUpTo(n)
<1>1. /\ m * DATA_PACKET_DATA_SIZE <= n * DATA_PACKET_DATA_SIZE
      /\ m * DATA_PACKET_DATA_SIZE \in Nat
      /\ n * DATA_PACKET_DATA_SIZE \in Nat
  BY SenderAssumption
<1> QED
  BY <1>1, SenderAssumption DEF BytesUpTo, Smaller

\* The left bound of the sender's window never moves back.
LEMMA LeftBoundGrows ==
  ASSUME IInv, [Next]_vars
  PROVE  slideWindowLeftBoundSeqNum' >= slideWindowLeftBoundSeqNum
<1>1. slideWindowLeftBoundSeqNum \in Nat
  BY DEF IInv, TypeOK, SenderTypeOK
<1>2. CASE \E buffer \in ackWire : ReceiveAck(buffer)
  <2>1. PICK buffer \in ackWire : AckArrived(ReadBufferAckPacket(buffer))
    BY <1>2 DEF ReceiveAck
  <2>2. ReadBufferAckPacket(buffer).cumulativeSeqNum \in Nat
    BY ReadsAck DEF IInv, TypeOK
  <2> QED
    BY <1>1, <2>1, <2>2 DEF AckArrived, Larger
<1>3. CASE ~\E buffer \in ackWire : ReceiveAck(buffer)
  <2>1. slideWindowLeftBoundSeqNum' = slideWindowLeftBoundSeqNum
    BY <1>3
       DEF Next, vars, senderVars, SendDataCheck, SendDataPrepare,
           PrepareDataPacketsToSend, SendDataSendTo, CheckTimeoutOf,
           CheckTimeout, ReceiveDataReplyAck
  <2> QED
    BY <1>1, <2>1
<1> QED
  BY <1>2, <1>3

\* Once all bytes are acknowledged, they stay so.
LEMMA FinishedStable ==
  ASSUME IInv, [Next]_vars, SenderFinished
  PROVE  SenderFinished'
<1>1. IInv'
  BY NextIInv
<1>2. slideWindowLeftBoundSeqNum' >= slideWindowLeftBoundSeqNum
  BY LeftBoundGrows
<1> DEFINE left  == slideWindowLeftBoundSeqNum
           left1 == slideWindowLeftBoundSeqNum'
<1>3. /\ left \in Nat /\ left1 \in Nat
      /\ bytesSent = BytesUpTo(left)
      /\ bytesSent' = BytesUpTo(left1)
  BY <1>1 DEF IInv, TypeOK, SenderTypeOK, SenderInv, BytesUpTo
<1>4. bytesSent <= bytesSent' /\ bytesSent' \in 0..bytesToSend
  BY <1>2, <1>3, BytesUpToMonotone, BytesUpToBounds
<1> QED
  BY <1>4, SenderAssumption DEF SenderFinished

\* Where sendData is in its loop and what it has in hand.
SendDataInv ==
  /\ waitPc = "done" => SenderFinished
  /\ waitPc # "sending" => sendDataPc = "check"
  /\ sendDataPc # "send" => prepared = {}

\* sendData leaves its loop only when the sender is finished, with nothing
\* left to send.
LEMMA SendDataStep ==
  ASSUME IInv, InFlightWasSent, SendDataInv, [AnyStep]_transferVars
  PROVE  SendDataInv'
<1>1. [Next]_vars
  BY TransferStep
<1>2. SenderFinished => SenderFinished'
  BY <1>1, FinishedStable
<1>3. ASSUME UNCHANGED threadVars,
             waitPc' = "done" => waitPc = "done",
             waitPc' # "sending" => waitPc # "sending"
      PROVE  SendDataInv'
  BY <1>2, <1>3 DEF SendDataInv, threadVars
<1>4. CASE SendDataLoop
  BY <1>2, <1>4 DEF SendDataLoop, SendDataInv, vars, threadVars
<1>5. CASE SendDataBlock \/ SpuriousWakeup \/ Lose \/ LinkStep
           \/ UNCHANGED transferVars
  BY <1>3, <1>5
     DEF SendDataBlock, SpuriousWakeup, Lose, LinkStep, transferVars, vars
<1>6. CASE SendDataNothingLeft
  BY <1>6 DEF SendDataNothingLeft, SendDataInv, vars, threadVars
<1>7. CASE SendDataCheckOrPrepare
  <2>1. waitPc = "sending" /\ waitPc' = "sending"
    BY <1>7 DEF SendDataCheckOrPrepare
  <2>2. sendDataPc' # "send" => prepared' = {}
    BY <1>7 DEF SendDataCheckOrPrepare, SendDataCheck, SendDataPrepare,
                SendDataInv
  <2> QED
    BY <2>1, <2>2 DEF SendDataInv
<1>8. ASSUME NEW dp \in prepared, SendDataTransmit(dp)
      PROVE  SendDataInv'
  BY <1>8 DEF SendDataTransmit, SendDataSendTo, SendDataInv
<1>9. ASSUME NEW answer \in ackInFlight, ReceiveAckAndNotify(answer[1], answer[2])
      PROVE  SendDataInv'
  <2>1. UNCHANGED threadVars
    BY <1>9 DEF ReceiveAckAndNotify, ReceiveAck
  <2>2. waitPc' = waitPc \/ (waitPc = "waiting" /\ waitPc' = "loop")
    BY <1>9 DEF ReceiveAckAndNotify, NotifyIf
  <2> QED
    BY <1>3, <2>1, <2>2
<1>10. ASSUME NEW expired \in SUBSET OutstandingPositions,
              CheckTimeoutAndNotify(expired)
       PROVE  SendDataInv'
  <2>1. UNCHANGED threadVars
    BY <1>10 DEF CheckTimeoutAndNotify, CheckTimeoutOf
  <2>2. waitPc' = waitPc \/ (waitPc = "waiting" /\ waitPc' = "loop")
    BY <1>10 DEF CheckTimeoutAndNotify, NotifyIf
  <2> QED
    BY <1>3, <2>1, <2>2
<1>11. ASSUME NEW thread \in ReceiveThreads, NEW buffer \in dataInFlight,
              ReceiveDataBy(thread, buffer)
       PROVE  SendDataInv'
  BY <1>3, <1>11 DEF ReceiveDataBy, ReceiveDataReplyAck
<1>12. CASE ReplyStep \/ \E thread \in ReceiveThreads : Reply(thread)
  BY <1>3, <1>12 DEF ReplyStep, Reply, ReplyWith, vars
<1>13. ASSUME NEW thread \in ReceiveThreads, ReceiverThreadTimesOut(thread)
       PROVE  SendDataInv'
  BY <1>3, <1>13 DEF ReceiverThreadTimesOut, vars
<1> QED
  BY <1>4, <1>5, <1>6, <1>7, <1>8, <1>9, <1>10, <1>11, <1>12, <1>13
     DEF AnyStep, TransferNext, SendData

\* When sendData has set `done`, everything is delivered.
LEMMA DoneFacts == IInv /\ SendDataInv => DoneMeansDelivered
<1>1. SUFFICES ASSUME IInv, SendDataInv, waitPc = "done"
               PROVE  /\ FileComplete
                      /\ ReceiverFinished
                      /\ prepared = {}
  BY DEF DoneMeansDelivered
<1>2. SenderFinished /\ prepared = {}
  BY <1>1 DEF SendDataInv
<1>3. DOMAIN file = SeqNums /\ ReceiverFinished
  BY <1>1, <1>2, FinishedFacts DEF FinishedMeansDelivered
<1>4. \A s \in DOMAIN file : file[s] = "chunk"
  BY <1>1 DEF IInv
<1> QED
  BY <1>2, <1>3, <1>4 DEF FileComplete

\* When sendData sets `done`, the file has been delivered, whole and
\* unaltered, and nothing prepared is left unsent.
THEOREM DoneDelivered == TransferSpec => []DoneMeansDelivered
<1>1. TransferInit => SendDataInv
  BY DEF TransferInit, Init, SendDataInv
<1>2. IInv /\ InFlightWasSent /\ SendDataInv /\ [TransferNext]_transferVars
        => SendDataInv'
  BY SendDataStep DEF AnyStep
<1>3. IInv /\ SendDataInv => DoneMeansDelivered
  BY DoneFacts
<1>4. TransferSpec => []IInv
  BY TransferImplements, Invariance, PTL DEF ImplementsSlideWindowProtocol
<1> QED
  BY <1>1, <1>2, <1>3, <1>4, OnlySentInFlight, PTL DEF TransferSpec

-----------------------------------------------------------------------------
(***************************************************************************)
(* The types, and the final acknowledgement.                               *)
(***************************************************************************)

\* The losses are counted up to their bound.
LinkTypeOK ==
  /\ waitPc \in {"loop", "blocking", "waiting", "sending", "done"}
  /\ listening \subseteq ReceiveThreads
  /\ lost \in 0..MaxLosses

\* Every step keeps them.
LEMMA LinkTypeStep ==
  ASSUME LinkTypeOK, [TransferNext]_transferVars
  PROVE  LinkTypeOK'
<1>1. CASE SendData
  BY <1>1 DEF SendData, SendDataLoop, SendDataBlock, SendDataCheckOrPrepare,
              SendDataTransmit, SendDataNothingLeft, LinkTypeOK, linkVars
<1>2. CASE SpuriousWakeup \/ UNCHANGED transferVars
  BY <1>2 DEF SpuriousWakeup, LinkTypeOK, linkVars, transferVars
<1>3. ASSUME NEW answer \in ackInFlight, ReceiveAckAndNotify(answer[1], answer[2])
      PROVE  LinkTypeOK'
  BY <1>3 DEF ReceiveAckAndNotify, NotifyIf, LinkTypeOK
<1>4. ASSUME NEW expired \in SUBSET OutstandingPositions,
             CheckTimeoutAndNotify(expired)
      PROVE  LinkTypeOK'
  BY <1>4 DEF CheckTimeoutAndNotify, NotifyIf, LinkTypeOK, linkVars
<1>5. ASSUME NEW thread \in ReceiveThreads,
             \/ \E buffer \in dataInFlight : ReceiveDataBy(thread, buffer)
             \/ Reply(thread)
      PROVE  LinkTypeOK'
  BY <1>5 DEF ReceiveDataBy, Reply, ReplyWith, LinkTypeOK
<1>6. ASSUME NEW thread \in ReceiveThreads, ReceiverThreadTimesOut(thread)
      PROVE  LinkTypeOK'
  BY <1>6 DEF ReceiverThreadTimesOut, LinkTypeOK
<1>7. CASE Lose
  <2>1. UNCHANGED <<waitPc, listening>>
    BY <1>7 DEF Lose
  <2>2. lost' \in 0..MaxLosses
    BY <1>7, TransferAssumption DEF Lose, LinkTypeOK
  <2> QED
    BY <2>1, <2>2 DEF LinkTypeOK
<1> QED
  BY <1>1, <1>2, <1>3, <1>4, <1>5, <1>6, <1>7 DEF TransferNext

\* In every execution the losses and the threads have their types.
LEMMA LinkTypes == TransferSpec => []LinkTypeOK
<1>1. TransferInit => LinkTypeOK
  BY TransferAssumption DEF TransferInit, LinkTypeOK
<1> QED
  BY <1>1, LinkTypeStep, PTL DEF TransferSpec

\* Every variable of the programs keeps its type; what is in flight was sent.
THEOREM TransferTypes == TransferSpec => []TransferTypeOK
<1>1. IInv /\ InFlightWasSent /\ LinkTypeOK => TransferTypeOK
  BY DEF IInv, InFlightWasSent, LinkTypeOK, TransferTypeOK
<1>2. TransferSpec => []IInv
  BY TransferImplements, Invariance, PTL DEF ImplementsSlideWindowProtocol
<1> QED
  BY <1>1, <1>2, OnlySentInFlight, LinkTypes, PTL

\* The copies of an answer that are in flight.
CopiesInFlight(answer) ==
  {copy \in 1..FIN_ACK_NUM : <<answer, copy>> \in ackInFlight}

\* A thread that has not returned still has a final acknowledgement to send.
FinalAckHeld ==
  \E thread \in listening : \E answer \in toReply[thread] : FinalAck(answer)

\* The copies of one final acknowledgement are lost one by one: together with
\* the losses, those in flight make up FIN_ACK_NUM, until one has arrived.
\* Before, a thread holds it.
FinalAckInv ==
  ReceiverFinished =>
    \/ slideWindowLeftBoundSeqNum = LastPacketSeqNum + 1
    \/ FinalAckHeld
    \/ \E answer \in ackWire :
         /\ FinalAck(answer)
         /\ lost + Cardinality(CopiesInFlight(answer)) >= FIN_ACK_NUM

\* Copies are finitely many.
LEMMA CopiesFinite ==
  ASSUME NEW answer
  PROVE  /\ IsFiniteSet(CopiesInFlight(answer))
         /\ Cardinality(CopiesInFlight(answer)) \in Nat
<1>1. IsFiniteSet(1..FIN_ACK_NUM)
  BY FS_Interval, TransferAssumption
<1>2. CopiesInFlight(answer) \in SUBSET (1..FIN_ACK_NUM)
  BY DEF CopiesInFlight
<1>3. IsFiniteSet(CopiesInFlight(answer))
  BY <1>1, <1>2, FS_Subset
<1> QED
  BY <1>3, FS_CardinalityType

\* They are after a step as well.
LEMMA CopiesFinitePrimed ==
  ASSUME NEW answer
  PROVE  /\ IsFiniteSet(CopiesInFlight(answer)')
         /\ Cardinality(CopiesInFlight(answer)') \in Nat
<1>1. IsFiniteSet(1..FIN_ACK_NUM)
  BY FS_Interval, TransferAssumption
<1>2. CopiesInFlight(answer)' \in SUBSET (1..FIN_ACK_NUM)
  BY DEF CopiesInFlight
<1>3. IsFiniteSet(CopiesInFlight(answer)')
  BY <1>1, <1>2, FS_Subset
<1> QED
  BY <1>3, FS_CardinalityType

\* The left bound never passes the end of the file.
LeftBoundInFile ==
  /\ slideWindowLeftBoundSeqNum \in Nat
  /\ slideWindowLeftBoundSeqNum <= LastPacketSeqNum + 1

\* That is part of the invariant.
LEMMA LeftBoundFacts == IInv => LeftBoundInFile
<1> SUFFICES ASSUME IInv PROVE LeftBoundInFile
  OBVIOUS
<1>1. /\ slideWindowLeftBoundSeqNum \in Nat
      /\ Len(senderWindow) \in Nat
      /\ slideWindowLeftBoundSeqNum + Len(senderWindow) <= LastPacketSeqNum + 1
  BY DEF IInv, TypeOK, SenderTypeOK, SenderInv, WindowInFile
<1> QED
  BY <1>1, LastPacketSeqNumNat DEF LeftBoundInFile

\* It holds after a step as well.
LEMMA LeftBoundFactsPrimed == IInv' => LeftBoundInFile'
  BY LeftBoundFacts, PTL

\* The threads that hold an answer do not return.
HoldersStay ==
  /\ toReply' = toReply
  /\ \A thread \in listening : toReply[thread] # {} => thread \in listening'

\* Then what they hold is held on.
LEMMA FinalAckStaysHeld ==
  ASSUME HoldersStay, FinalAckHeld
  PROVE  FinalAckHeld'
<1>1. PICK thread \in listening : \E answer \in toReply[thread] : FinalAck(answer)
  BY DEF FinalAckHeld
<1>2. PICK answer \in toReply[thread] : FinalAck(answer)
  BY <1>1
<1>3. thread \in listening' /\ answer \in toReply'[thread]
  BY <1>1, <1>2 DEF HoldersStay
<1> QED
  BY <1>2, <1>3 DEF FinalAckHeld, FinalAck

\* Steps that leave the windows alone, and what acknowledges the whole file in
\* flight or in a thread's hands, keep the invariant.
LEMMA FinalAckFrame ==
  ASSUME IInv, FinalAckInv, [Next]_vars,
         ReceiverFinished' => ReceiverFinished, HoldersStay,
         ackWire \subseteq ackWire', lost' = lost, ackInFlight' = ackInFlight
  PROVE  FinalAckInv'
<1>1. SUFFICES ASSUME ReceiverFinished
               PROVE  \/ slideWindowLeftBoundSeqNum' = LastPacketSeqNum + 1
                      \/ FinalAckHeld'
                      \/ \E answer \in ackWire' :
                           /\ FinalAck(answer)
                           /\ lost' + Cardinality(CopiesInFlight(answer)')
                                >= FIN_ACK_NUM
  BY DEF FinalAckInv, FinalAck, CopiesInFlight
<1>2. CASE slideWindowLeftBoundSeqNum = LastPacketSeqNum + 1
  <2>1. IInv'
    BY NextIInv
  <2>2. /\ slideWindowLeftBoundSeqNum' \in Nat
        /\ slideWindowLeftBoundSeqNum' <= LastPacketSeqNum + 1
    BY <2>1, LeftBoundFactsPrimed DEF LeftBoundInFile
  <2> QED
    BY <1>2, <2>2, LeftBoundGrows, LastPacketSeqNumNat
<1>3. CASE \E answer \in ackWire :
             /\ FinalAck(answer)
             /\ lost + Cardinality(CopiesInFlight(answer)) >= FIN_ACK_NUM
  BY <1>3 DEF CopiesInFlight
<1>4. CASE FinalAckHeld
  BY <1>4, FinalAckStaysHeld
<1> QED
  BY <1>1, <1>2, <1>3, <1>4 DEF FinalAckInv

\* A loss takes at most one of the copies.
LEMMA LoseStep ==
  ASSUME IInv, FinalAckInv, Lose, lost \in Nat
  PROVE  FinalAckInv'
<1>1. UNCHANGED vars /\ lost' = lost + 1 /\ HoldersStay
  BY DEF Lose, HoldersStay
<1>2. (ReceiverFinished' <=> ReceiverFinished) /\ ackWire' = ackWire
      /\ slideWindowLeftBoundSeqNum' = slideWindowLeftBoundSeqNum
  BY <1>1 DEF vars, receiverVars, senderVars, wireVars, ReceiverFinished
<1>3. ASSUME NEW answer,
             lost + Cardinality(CopiesInFlight(answer)) >= FIN_ACK_NUM
      PROVE  lost' + Cardinality(CopiesInFlight(answer)') >= FIN_ACK_NUM
  <2>1. CASE ackInFlight' = ackInFlight
    <3>1. CopiesInFlight(answer)' = CopiesInFlight(answer)
      BY <2>1 DEF CopiesInFlight
    <3> QED
      BY <1>1, <1>3, <3>1, CopiesFinite, TransferAssumption
  <2>2. CASE \E gone \in ackInFlight : ackInFlight' = ackInFlight \ {gone}
    <3>1. PICK gone \in ackInFlight : ackInFlight' = ackInFlight \ {gone}
      BY <2>2
    <3>2. CASE \E copy \in 1..FIN_ACK_NUM : gone = <<answer, copy>>
      <4>1. PICK copy \in 1..FIN_ACK_NUM : gone = <<answer, copy>>
        BY <3>2
      <4>2. CopiesInFlight(answer)' = CopiesInFlight(answer) \ {copy}
        BY <3>1, <4>1 DEF CopiesInFlight
      <4>3. copy \in CopiesInFlight(answer)
        BY <3>1, <4>1 DEF CopiesInFlight
      <4>4. Cardinality(CopiesInFlight(answer)')
              = Cardinality(CopiesInFlight(answer)) - 1
        BY <4>2, <4>3, CopiesFinite, FS_RemoveElement
      <4> QED
        BY <1>1, <1>3, <4>4, CopiesFinite, TransferAssumption
    <3>3. CASE ~\E copy \in 1..FIN_ACK_NUM : gone = <<answer, copy>>
      <4>1. CopiesInFlight(answer)' = CopiesInFlight(answer)
        BY <3>1, <3>3 DEF CopiesInFlight
      <4> QED
        BY <1>1, <1>3, <4>1, CopiesFinite, TransferAssumption
    <3> QED
      BY <3>2, <3>3
  <2> QED
    BY <2>1, <2>2 DEF Lose
<1>4. SUFFICES ASSUME ReceiverFinished,
                      NEW answer \in ackWire, FinalAck(answer),
                      lost + Cardinality(CopiesInFlight(answer)) >= FIN_ACK_NUM
               PROVE  FinalAckInv'
  BY <1>1, <1>2, FinalAckStaysHeld DEF FinalAckInv
<1>5. /\ answer \in ackWire'
      /\ FinalAck(answer)'
      /\ lost' + Cardinality(CopiesInFlight(answer)') >= FIN_ACK_NUM
  BY <1>2, <1>3, <1>4 DEF FinalAck
<1> QED
  BY <1>5 DEF FinalAckInv, CopiesInFlight, FinalAck

\* An acknowledgement that arrives is no longer in flight; if it is a final
\* one, the sender's window is done.
LEMMA FinalAckArrives ==
  ASSUME IInv, InFlightWasSent, FinalAckInv,
         NEW buffer, NEW copy, ReceiveAckAndNotify(buffer, copy)
  PROVE  FinalAckInv'
<1>1. /\ <<buffer, copy>> \in ackInFlight
      /\ ackInFlight' = ackInFlight \ {<<buffer, copy>>}
      /\ ReceiveAck(buffer)
      /\ lost' = lost
      /\ HoldersStay
  BY DEF ReceiveAckAndNotify, HoldersStay
<1>2. buffer \in ackWire
  BY <1>1 DEF InFlightWasSent
<1>3. [Next]_vars
  BY <1>1, <1>2 DEF Next
<1>4. /\ slideWindowLeftBoundSeqNum' \in Nat
      /\ slideWindowLeftBoundSeqNum' <= LastPacketSeqNum + 1
  BY <1>3, NextIInv, LeftBoundFactsPrimed DEF LeftBoundInFile
<1>5. slideWindowLeftBoundSeqNum \in Nat
  BY LeftBoundFacts DEF LeftBoundInFile
<1>6. (ReceiverFinished' <=> ReceiverFinished) /\ ackWire' = ackWire
  BY <1>1 DEF ReceiveAck, receiverVars, wireVars, ReceiverFinished
<1>7. CASE slideWindowLeftBoundSeqNum = LastPacketSeqNum + 1
  <2>1. slideWindowLeftBoundSeqNum' = LastPacketSeqNum + 1
    BY <1>3, <1>4, <1>7, LeftBoundGrows, LastPacketSeqNumNat
  <2> QED
    BY <2>1 DEF FinalAckInv
<1>8. CASE FinalAck(buffer)
  <2>1. slideWindowLeftBoundSeqNum' =
          Larger(slideWindowLeftBoundSeqNum, LastPacketSeqNum + 1)
    BY <1>1, <1>2, <1>8, ReadsAck DEF ReceiveAck, AckArrived, FinalAck, IInv
  <2>2. slideWindowLeftBoundSeqNum' = LastPacketSeqNum + 1
    BY <1>4, <1>5, <2>1, LastPacketSeqNumNat DEF Larger
  <2> QED
    BY <2>2 DEF FinalAckInv
<1>9. CASE ~FinalAck(buffer) /\ slideWindowLeftBoundSeqNum # LastPacketSeqNum + 1
  <2>1. SUFFICES ASSUME ReceiverFinished,
                        NEW answer \in ackWire, FinalAck(answer),
                        lost + Cardinality(CopiesInFlight(answer)) >= FIN_ACK_NUM
                 PROVE  FinalAckInv'
    BY <1>1, <1>6, <1>9, FinalAckStaysHeld DEF FinalAckInv
  <2>2. answer # buffer
    BY <1>9, <2>1
  <2>3. CopiesInFlight(answer)' = CopiesInFlight(answer)
    BY <1>1, <2>2 DEF CopiesInFlight
  <2> QED
    BY <1>1, <1>6, <2>1, <2>3 DEF FinalAckInv, FinalAck, CopiesInFlight
<1> QED
  BY <1>7, <1>8, <1>9

\* After a step the receiver knows the last packet of the file.
LEMMA LastPacketKnownPrimed == IInv' => LastPacketKnown'
<1>1. IInv => LastPacketKnown
  BY DEF IInv
<1> QED
  BY <1>1, PTL

\* An answer of a finished receiver is a final one, and is held by a thread
\* that has not returned.
LEMMA FinalAckTaken ==
  ASSUME IInv, InFlightWasSent,
         NEW thread \in ReceiveThreads, NEW buffer \in dataInFlight,
         ReceiveDataBy(thread, buffer)
  PROVE  FinalAckInv'
<1>1. SUFFICES ASSUME ReceiverFinished' PROVE FinalAckHeld'
  BY DEF FinalAckInv
<1>2. /\ ReceiveDataReplyAck(buffer)
      /\ toReply' = [toReply EXCEPT ![thread] = {Answer(buffer)}]
      /\ thread \in listening'
  BY DEF ReceiveDataBy, Idle
<1>3. IInv'
  <2>1. buffer \in dataWire
    BY DEF InFlightWasSent
  <2> QED
    BY <1>2, <2>1, NextIInv DEF Next
<1>4. nextExpectedPacketSeqNum' = LastPacketSeqNum + 1
  BY <1>1, <1>3, LastPacketKnownPrimed DEF LastPacketKnown, ReceiverFinished
<1>5. PICK answer : answer = Answer(buffer)
  OBVIOUS
<1>6. answer.cumulativeSeqNum = LastPacketSeqNum + 1
  BY <1>4, <1>5 DEF Answer, AckFor, FillBufferAckPacket
<1>7. answer \in toReply'[thread]
  BY <1>2, <1>5 DEF InFlightWasSent
<1> QED
  BY <1>2, <1>6, <1>7 DEF FinalAckHeld, FinalAck

\* A final acknowledgement leaves a thread's hands in FIN_ACK_NUM copies; an
\* answer that another thread sends takes nothing from it.
LEMMA FinalAckSent ==
  ASSUME IInv, InFlightWasSent, FinalAckInv, lost \in Nat,
         NEW thread \in ReceiveThreads, Reply(thread)
  PROVE  FinalAckInv'
<1>1. /\ UNCHANGED vars /\ lost' = lost
      /\ ackInFlight' = ackInFlight \cup (toReply[thread] \X Copies)
      /\ toReply' = [toReply EXCEPT ![thread] = {}]
      /\ listening \ {thread} \subseteq listening'
  BY DEF Reply, ReplyWith
<1>2. (ReceiverFinished' <=> ReceiverFinished) /\ ackWire' = ackWire
      /\ slideWindowLeftBoundSeqNum' = slideWindowLeftBoundSeqNum
  BY <1>1 DEF vars, receiverVars, senderVars, wireVars, ReceiverFinished
<1>3. SUFFICES ASSUME ReceiverFinished PROVE FinalAckInv'
  BY <1>2 DEF FinalAckInv
<1>4. CASE slideWindowLeftBoundSeqNum = LastPacketSeqNum + 1
  BY <1>2, <1>4 DEF FinalAckInv
<1>5. ASSUME NEW holder \in listening, NEW answer \in toReply[holder],
             FinalAck(answer), holder # thread
      PROVE  FinalAckInv'
  <2>1. holder \in listening' /\ answer \in toReply'[holder]
    BY <1>1, <1>5 DEF InFlightWasSent
  <2> QED
    BY <1>5, <2>1 DEF FinalAckInv, FinalAckHeld, FinalAck
<1>6. ASSUME NEW answer \in toReply[thread], FinalAck(answer)
      PROVE  FinalAckInv'
  <2>1. Copies = 1..FIN_ACK_NUM
    BY <1>3 DEF Copies
  <2>2. CopiesInFlight(answer)' = 1..FIN_ACK_NUM
    BY <1>1, <2>1 DEF CopiesInFlight
  <2>3. Cardinality(CopiesInFlight(answer)') = FIN_ACK_NUM
    BY <2>2, FS_Interval, TransferAssumption
  <2>4. answer \in ackWire'
    BY <1>2 DEF InFlightWasSent
  <2> QED
    BY <1>1, <1>6, <2>3, <2>4, TransferAssumption DEF FinalAckInv, FinalAck
<1>7. ASSUME NEW answer \in ackWire, FinalAck(answer),
             lost + Cardinality(CopiesInFlight(answer)) >= FIN_ACK_NUM
      PROVE  FinalAckInv'
  <2>1. CopiesInFlight(answer) \subseteq CopiesInFlight(answer)'
    BY <1>1 DEF CopiesInFlight
  <2>2. /\ IsFiniteSet(CopiesInFlight(answer)')
        /\ Cardinality(CopiesInFlight(answer)') \in Nat
    BY CopiesFinitePrimed
  <2>3. Cardinality(CopiesInFlight(answer))
          <= Cardinality(CopiesInFlight(answer)')
    BY <2>1, <2>2, FS_Subset
  <2>4. lost' + Cardinality(CopiesInFlight(answer)') >= FIN_ACK_NUM
    BY <1>1, <1>7, <2>2, <2>3, CopiesFinite, TransferAssumption
  <2> QED
    BY <1>2, <1>7, <2>4 DEF FinalAckInv, FinalAck
<1> QED
  BY <1>3, <1>4, <1>5, <1>6, <1>7 DEF FinalAckInv, FinalAckHeld

\* Every step keeps the invariant of the final acknowledgement.
LEMMA FinalAckStep ==
  ASSUME IInv, InFlightWasSent, LinkTypeOK, FinalAckInv,
         [TransferNext]_transferVars
  PROVE  FinalAckInv'
<1>1. [Next]_vars
  BY TransferStep DEF AnyStep
<1>2. ASSUME UNCHANGED receiverVars, ackWire \subseteq ackWire',
             UNCHANGED <<lost, ackInFlight, listening, toReply>>
      PROVE  FinalAckInv'
  BY <1>1, <1>2, FinalAckFrame DEF receiverVars, ReceiverFinished, HoldersStay
<1>3. CASE SendDataLoop \/ SendDataBlock \/ SendDataNothingLeft \/ SpuriousWakeup
           \/ UNCHANGED transferVars
  BY <1>2, <1>3 DEF SendDataLoop, SendDataBlock, SendDataNothingLeft,
                    SpuriousWakeup, transferVars, vars, wireVars, linkVars
<1>4. CASE SendDataCheckOrPrepare
  <2>1. UNCHANGED <<receiverVars, wireVars>>
    BY <1>4 DEF SendDataCheckOrPrepare, SendDataCheck, SendDataPrepare
  <2> QED
    BY <1>2, <1>4, <2>1 DEF SendDataCheckOrPrepare, wireVars, linkVars
<1>5. ASSUME NEW dp \in prepared, SendDataTransmit(dp)
      PROVE  FinalAckInv'
  BY <1>2, <1>5 DEF SendDataTransmit, SendDataSendTo
<1>6. ASSUME NEW answer \in ackInFlight, ReceiveAckAndNotify(answer[1], answer[2])
      PROVE  FinalAckInv'
  BY <1>6, FinalAckArrives
<1>7. ASSUME NEW expired \in SUBSET OutstandingPositions,
             CheckTimeoutAndNotify(expired)
      PROVE  FinalAckInv'
  BY <1>2, <1>7 DEF CheckTimeoutAndNotify, CheckTimeoutOf, wireVars, linkVars
<1>8. ASSUME NEW thread \in ReceiveThreads, NEW buffer \in dataInFlight,
             ReceiveDataBy(thread, buffer)
      PROVE  FinalAckInv'
  BY <1>8, FinalAckTaken
<1>9. ASSUME NEW thread \in ReceiveThreads, Reply(thread)
      PROVE  FinalAckInv'
  BY <1>9, FinalAckSent, TransferAssumption DEF LinkTypeOK
<1>11. ASSUME NEW thread \in ReceiveThreads, ReceiverThreadTimesOut(thread)
       PROVE  FinalAckInv'
  BY <1>1, <1>11, FinalAckFrame
     DEF ReceiverThreadTimesOut, Idle, HoldersStay, vars, wireVars, receiverVars,
         ReceiverFinished
<1>10. CASE Lose
  BY <1>10, LoseStep, TransferAssumption DEF LinkTypeOK
<1> QED
  BY <1>3, <1>4, <1>5, <1>6, <1>7, <1>8, <1>9, <1>10, <1>11
     DEF TransferNext, SendData

\* So a final acknowledgement is to be sent, is in flight or has arrived, or
\* as many datagrams were lost as it has copies.
LEMMA FinalAckFacts == LinkTypeOK /\ FinalAckInv => FinalAckNotLost
<1>1. SUFFICES ASSUME LinkTypeOK,
                      NEW answer \in ackWire, FinalAck(answer),
                      lost + Cardinality(CopiesInFlight(answer)) >= FIN_ACK_NUM
               PROVE  \/ \E inFlight \in ackInFlight : FinalAck(inFlight[1])
                      \/ lost >= FIN_ACK_NUM
  BY DEF FinalAckInv, FinalAckHeld, FinalAckNotLost
<1>2. CASE CopiesInFlight(answer) = {}
  <2>1. lost + 0 >= FIN_ACK_NUM
    BY <1>1, <1>2, FS_EmptySet
  <2> QED
    BY <1>1, <2>1, TransferAssumption DEF LinkTypeOK
<1>3. CASE CopiesInFlight(answer) # {}
  <2>1. PICK copy \in 1..FIN_ACK_NUM : <<answer, copy>> \in ackInFlight
    BY <1>3 DEF CopiesInFlight
  <2> QED
    BY <1>1, <2>1
<1> QED
  BY <1>2, <1>3

\* Fewer than FIN_ACK_NUM losses do not keep the sender from learning that the
\* file is complete: a final acknowledgement has arrived, is in flight, or is
\* held by a thread that has not returned.
THEOREM FinalAckArrivesUnlessLost == TransferSpec => []FinalAckNotLost
<1>1. TransferInit => FinalAckInv
  BY DEF TransferInit, Init, ReceiverInit, ReceiverFinished, FinalAckInv
<1>2. TransferSpec => []IInv
  BY TransferImplements, Invariance, PTL DEF ImplementsSlideWindowProtocol
<1>3. LinkTypeOK /\ FinalAckInv => FinalAckNotLost
  BY FinalAckFacts
<1>4. IInv /\ InFlightWasSent /\ LinkTypeOK /\ FinalAckInv
        /\ [TransferNext]_transferVars => FinalAckInv'
  BY FinalAckStep
<1> QED
  BY <1>1, <1>2, <1>3, <1>4, OnlySentInFlight, LinkTypes, PTL DEF TransferSpec

=============================================================================
