---------------------- MODULE SlideWindowProtocol_proofs ----------------------
(***************************************************************************)
(* Proofs about the two windows and the link between them.                 *)
(***************************************************************************)
EXTENDS SlideWindowProtocol, SlideWindowSender_proofs,
        SlideWindowReceiver_proofs

\* One past the last packet of the sender's window.
WindowEnd == slideWindowLeftBoundSeqNum + Len(senderWindow)

\* Only datagrams of this protocol are on the link, so that every field of a
\* datagram is read.
LEMMA ReadsAck ==
  ASSUME TypeOK, NEW buffer \in ackWire
  PROVE  /\ ReadBufferAckPacket(buffer).cumulativeSeqNum
              = buffer.cumulativeSeqNum
         /\ ReadBufferAckPacket(buffer).selectiveSeqNum
              = buffer.selectiveSeqNum
<1>1. buffer.tag = "re"
  BY DEF TypeOK
<1>2. AckTypeOf(buffer.tag) # ACK_PACKET_TYPE_INVALID
  BY <1>1 DEF AckTypeOf, ACK_PACKET_TYPE_REGULAR, ACK_PACKET_TYPE_INVALID
<1> QED
  BY <1>2 DEF ReadBufferAckPacket

LEMMA ReadsData ==
  ASSUME TypeOK, NEW buffer \in dataWire
  PROVE  /\ ReadBufferDataPacket(buffer).seqNum = buffer.seqNum
         /\ ReadBufferDataPacket(buffer).data = buffer.data
         /\ ReadBufferDataPacket(buffer).type = DATA_PACKET_TYPE_FINISH
              <=> buffer.tag = "fi"
<1>1. buffer.tag \in {"re", "fi"}
  BY DEF TypeOK
<1>2. /\ DataTypeOf(buffer.tag) # DATA_PACKET_TYPE_INVALID
      /\ DataTypeOf(buffer.tag) = DATA_PACKET_TYPE_FINISH <=> buffer.tag = "fi"
  BY <1>1 DEF DataTypeOf, DATA_PACKET_TYPE_REGULAR, DATA_PACKET_TYPE_FINISH,
              DATA_PACKET_TYPE_INVALID
<1> QED
  BY <1>2 DEF ReadBufferDataPacket

\* The receiver never expects a packet beyond the sender's window.
LEMMA NextWithinWindow ==
  ASSUME TypeOK, ReceiverInv, ReceivedWasSent
  PROVE  nextExpectedPacketSeqNum <= WindowEnd
<1>1. /\ nextExpectedPacketSeqNum \in Nat
      /\ slideWindowLeftBoundSeqNum \in Nat
      /\ Len(senderWindow) \in Nat
  BY DEF TypeOK, SenderTypeOK, ReceiverTypeOK
<1>2. CASE nextExpectedPacketSeqNum = 0
  BY <1>1, <1>2 DEF WindowEnd
<1>3. CASE nextExpectedPacketSeqNum # 0
  <2>1. nextExpectedPacketSeqNum - 1 \in DOMAIN file
    BY <1>1, <1>3 DEF ReceiverInv, FileIsReceived
  <2> QED
    BY <1>1, <2>1 DEF ReceivedWasSent, WindowEnd
<1> QED
  BY <1>2, <1>3

\* Both windows start aligned, with nothing received and nothing in flight.
LEMMA InitIInv == Init => IInv
<1> SUFFICES ASSUME Init PROVE IInv
  OBVIOUS
<1>1. SenderTypeOK /\ SenderInv
  BY SenderInitInv DEF Init
<1>2. ReceiverTypeOK /\ ReceiverInv /\ DOMAIN file = {}
  BY ReceiverInitInv DEF Init
<1>3. /\ sendDataPc = "check" /\ prepared = {}
      /\ dataWire = {} /\ ackWire = {}
  BY DEF Init
<1>4. /\ slideWindowLeftBoundSeqNum = 0
      /\ nextExpectedPacketSeqNum = 0
      /\ lastPacketSeqNumReceived = FALSE
  BY DEF Init, SenderInit, ReceiverInit
<1>5. TypeOK
  BY <1>1, <1>2, <1>3 DEF TypeOK
<1>6. \A i \in 1..Len(senderWindow) : senderWindow[i].state # "ACKED"
  BY SenderInitInv DEF Init
<1>7. AcksInOrder
  BY <1>3, <1>6 DEF AcksInOrder, Sacked
<1> QED
  BY <1>1, <1>2, <1>3, <1>4, <1>5, <1>7
     DEF IInv, SenderBehindReceiver, ReceivedWasSent, DataPacketsInOrder,
         LastPacketKnown

-----------------------------------------------------------------------------
\* A step of the sender's window keeps the invariant if it moves the left
\* bound no farther than the receiver has come, and not onto a packet
\* acknowledged out of order.
LEMMA SenderStep ==
  ASSUME IInv,
         UNCHANGED <<receiverVars, wireVars>>,
         SenderTypeOK', SenderInv',
         slideWindowLeftBoundSeqNum' >= slideWindowLeftBoundSeqNum,
         slideWindowLeftBoundSeqNum' <= nextExpectedPacketSeqNum,
         slideWindowLeftBoundSeqNum' \notin Sacked,
         WindowEnd' >= WindowEnd,
         \A i \in 1..Len(senderWindow') :
           senderWindow'[i].state = "ACKED" => senderWindow'[i].seqNum \in Sacked,
         sendDataPc' \in {"check", "prepare", "send"},
         prepared' \subseteq
           [type : {DATA_PACKET_TYPE_REGULAR, DATA_PACKET_TYPE_FINISH},
            seqNum : SeqNums],
         \A dp \in prepared' :
           /\ dp.seqNum < WindowEnd'
           /\ dp.type = DATA_PACKET_TYPE_FINISH <=> dp.seqNum = LastPacketSeqNum
  PROVE  IInv'
<1>1. PICK left1, end1 : /\ left1 = slideWindowLeftBoundSeqNum'
                         /\ end1 = WindowEnd'
  OBVIOUS
<1>2. /\ left1 \in Nat /\ left1 >= slideWindowLeftBoundSeqNum
      /\ left1 <= nextExpectedPacketSeqNum
      /\ end1 \in Nat /\ end1 >= WindowEnd
      /\ WindowEnd \in Nat
      /\ slideWindowLeftBoundSeqNum \in Nat
  <2>1. left1 \in Nat /\ Len(senderWindow') \in Nat
    BY <1>1 DEF SenderTypeOK
  <2>2. end1 = left1 + Len(senderWindow')
    BY <1>1 DEF WindowEnd
  <2>3. end1 \in Nat
    BY <2>1, <2>2
  <2>4. WindowEnd \in Nat /\ slideWindowLeftBoundSeqNum \in Nat
    BY DEF IInv, TypeOK, SenderTypeOK, WindowEnd
  <2> QED
    BY <1>1, <2>1, <2>3, <2>4
<1>3. TypeOK'
  BY DEF IInv, TypeOK, ReceiverTypeOK, receiverVars, wireVars
<1>4. ReceiverInv'
  BY DEF IInv, ReceiverInv, ReceiverAligned, HeadNeverReceived,
         FileIsReceived, Buffered, receiverVars
<1>5. SenderBehindReceiver'
  BY DEF SenderBehindReceiver, receiverVars
<1>6. ReceivedWasSent'
  <2>1. ASSUME NEW s \in DOMAIN file
        PROVE  s < end1
    BY <1>2 DEF IInv, TypeOK, ReceiverTypeOK, ReceivedWasSent, WindowEnd
  <2> QED
    BY <1>1, <2>1 DEF ReceivedWasSent, WindowEnd, receiverVars
<1>7. DataPacketsInOrder'
  <2>1. ASSUME NEW b \in dataWire
        PROVE  /\ b.seqNum < end1
               /\ b.tag = "fi" <=> b.seqNum = LastPacketSeqNum
               /\ b.data = "stale" => b.seqNum < left1
    <3>1. b.seqNum \in Nat
      BY LastPacketSeqNumNat DEF IInv, TypeOK, SeqNums
    <3> QED
      BY <1>2, <3>1 DEF IInv, DataPacketsInOrder, WindowEnd
  <2> QED
    BY <1>1, <2>1 DEF DataPacketsInOrder, WindowEnd, wireVars
<1>8. AcksInOrder'
  BY DEF IInv, AcksInOrder, Sacked, receiverVars, wireVars
<1>9. LastPacketKnown' /\ (\A s \in DOMAIN file : file[s] = "chunk")'
  BY DEF IInv, LastPacketKnown, receiverVars
<1> QED
  BY <1>3, <1>4, <1>5, <1>6, <1>7, <1>8, <1>9 DEF IInv

\* Only the control of the sendData thread changes.
LEMMA FrameIInv ==
  ASSUME IInv,
         UNCHANGED <<senderVars, receiverVars, prepared, wireVars>>,
         sendDataPc' \in {"check", "prepare", "send"}
  PROVE  IInv'
<1>1. TypeOK'
  BY DEF IInv, TypeOK, SenderTypeOK, ReceiverTypeOK, senderVars, receiverVars,
         wireVars
<1>2. SenderInv'
  BY DEF IInv, SenderInv, SenderAligned, WindowInFile, CongestionBounded,
         GrowthPaced, WindowFilled, NoForgottenPacket, HasUnsent,
         LastAckIsLeftBound, senderVars, BytesUpTo
<1>3. ReceiverInv'
  BY DEF IInv, ReceiverInv, ReceiverAligned, HeadNeverReceived,
         FileIsReceived, Buffered, receiverVars
<1>4. SenderBehindReceiver' /\ ReceivedWasSent' /\ LastPacketKnown'
      /\ (\A s \in DOMAIN file : file[s] = "chunk")'
  BY DEF IInv, SenderBehindReceiver, ReceivedWasSent, LastPacketKnown,
         senderVars, receiverVars
<1>5. AcksInOrder' /\ DataPacketsInOrder'
  BY DEF IInv, AcksInOrder, Sacked, DataPacketsInOrder, senderVars,
         receiverVars, wireVars
<1> QED
  BY <1>1, <1>2, <1>3, <1>4, <1>5 DEF IInv

\* Preparing packets only turns unsent items into outstanding ones, and what
\* it prepares lies within the window, the last packet marked FINISH.
LEMMA PrepareStep == IInv /\ SendDataPrepare => IInv'
<1> SUFFICES ASSUME IInv, SendDataPrepare PROVE IInv'
  OBVIOUS
<1>1. /\ SenderTypeOK' /\ SenderInv'
      /\ Len(senderWindow') = Len(senderWindow)
      /\ \A i \in 1..Len(senderWindow) :
           /\ senderWindow'[i].seqNum = senderWindow[i].seqNum
           /\ senderWindow'[i].state = "ACKED"
                <=> senderWindow[i].state = "ACKED"
  BY PrepareInv DEF SendDataPrepare, IInv, TypeOK
<1>2. UNCHANGED <<slideWindowLeftBoundSeqNum, receiverVars, wireVars>>
  BY DEF SendDataPrepare, PrepareDataPacketsToSend
<1>3. /\ slideWindowLeftBoundSeqNum \in Nat
      /\ Len(senderWindow) \in Nat
      /\ senderWindow \in Seq(Item)
  BY DEF IInv, TypeOK, SenderTypeOK, Item
<1>4. WindowEnd' = WindowEnd
  BY <1>1, <1>2 DEF WindowEnd
<1>5. ASSUME NEW dp \in PreparedPackets
      PROVE  /\ dp \in [type : {DATA_PACKET_TYPE_REGULAR, DATA_PACKET_TYPE_FINISH},
                        seqNum : SeqNums]
             /\ dp.seqNum < WindowEnd
             /\ dp.type = DATA_PACKET_TYPE_FINISH <=> dp.seqNum = LastPacketSeqNum
  <2>1. PICK i \in 1..Len(senderWindow) : dp = DataPacketOf(senderWindow[i])
    BY <1>3 DEF PreparedPackets, ToSend, Sendable, Smaller, IInv, TypeOK,
                SenderTypeOK
  <2>2. /\ senderWindow[i].seqNum \in SeqNums
        /\ senderWindow[i].seqNum < WindowEnd
    <3>1. senderWindow[i] \in Item
      BY <1>3
    <3>2. senderWindow[i].seqNum = slideWindowLeftBoundSeqNum + i - 1
      BY DEF IInv, SenderInv, SenderAligned
    <3>3. slideWindowLeftBoundSeqNum + i - 1 < WindowEnd
      BY <1>3 DEF WindowEnd
    <3> QED
      BY <3>1, <3>2, <3>3 DEF Item
  <2>3. /\ dp = [type   |-> dp.type, seqNum |-> senderWindow[i].seqNum]
        /\ dp.type = IF senderWindow[i].seqNum = LastPacketSeqNum
                     THEN DATA_PACKET_TYPE_FINISH ELSE DATA_PACKET_TYPE_REGULAR
        /\ dp.seqNum = senderWindow[i].seqNum
    BY <2>1 DEF DataPacketOf
  <2>4. DATA_PACKET_TYPE_FINISH # DATA_PACKET_TYPE_REGULAR
    BY DEF DATA_PACKET_TYPE_REGULAR, DATA_PACKET_TYPE_FINISH
  <2> QED
    BY <2>2, <2>3, <2>4
<1>6. /\ prepared' = PreparedPackets
      /\ sendDataPc' \in {"check", "prepare", "send"}
  BY DEF SendDataPrepare
<1>7. \A i \in 1..Len(senderWindow') :
        senderWindow'[i].state = "ACKED" => senderWindow'[i].seqNum \in Sacked
  BY <1>1 DEF IInv, AcksInOrder
<1>8. slideWindowLeftBoundSeqNum \notin Sacked
  BY DEF IInv, AcksInOrder
<1>9. /\ slideWindowLeftBoundSeqNum' >= slideWindowLeftBoundSeqNum
      /\ slideWindowLeftBoundSeqNum' <= nextExpectedPacketSeqNum
  BY <1>2, <1>3 DEF IInv, SenderBehindReceiver
<1>10. WindowEnd' >= WindowEnd
  <2>1. WindowEnd \in Nat
    BY <1>3 DEF WindowEnd
  <2> QED
    BY <1>4, <2>1
<1> QED
  BY <1>1, <1>2, <1>4, <1>5, <1>6, <1>7, <1>8, <1>9, <1>10, SenderStep

\* A datagram carries stale data only if its item is gone, that is, if the
\* window has slid past its packet.
LEMMA SendToStep ==
  ASSUME IInv, NEW dp \in prepared, SendDataSendTo(dp)
  PROVE  IInv'
<1>1. /\ dataWire' = dataWire \cup {DatagramOf(dp)}
      /\ prepared' = prepared \ {dp}
  BY DEF SendDataSendTo
<1>2. /\ UNCHANGED <<senderVars, receiverVars, ackWire>>
      /\ sendDataPc' \in {"check", "prepare", "send"}
  BY DEF SendDataSendTo
<1> DEFINE buffer == DatagramOf(dp)
<1>3. /\ dp.type \in {DATA_PACKET_TYPE_REGULAR, DATA_PACKET_TYPE_FINISH}
      /\ dp.seqNum \in SeqNums
      /\ dp.seqNum \in Nat
      /\ dp.seqNum < slideWindowLeftBoundSeqNum + Len(senderWindow)
      /\ dp.type = DATA_PACKET_TYPE_FINISH <=> dp.seqNum = LastPacketSeqNum
  <2>1. /\ dp.type \in {DATA_PACKET_TYPE_REGULAR, DATA_PACKET_TYPE_FINISH}
        /\ dp.seqNum \in SeqNums
    BY DEF IInv, TypeOK
  <2> QED
    BY <2>1, LastPacketSeqNumNat DEF IInv, DataPacketsInOrder, SeqNums
<1>4. /\ buffer \in [tag : {"re", "fi"}, seqNum : SeqNums, data : Payload]
      /\ buffer.tag = "fi" <=> dp.type = DATA_PACKET_TYPE_FINISH
      /\ buffer.seqNum = dp.seqNum
      /\ buffer.data = "stale" => ~ItemAlive(dp)
  BY <1>3 DEF DatagramOf, FillBufferDataPacket, DataTag, Payload, DATA_PACKET_TYPE_REGULAR,
              DATA_PACKET_TYPE_FINISH, DATA_PACKET_TYPE_HANDSHAKE
<1>5. ~ItemAlive(dp) => dp.seqNum < slideWindowLeftBoundSeqNum
  <2>1. SUFFICES ASSUME ~(dp.seqNum < slideWindowLeftBoundSeqNum)
                 PROVE  ItemAlive(dp)
    OBVIOUS
  <2>2. slideWindowLeftBoundSeqNum \in Nat /\ Len(senderWindow) \in Nat
    BY DEF IInv, TypeOK, SenderTypeOK
  <2>3. PICK i \in 1..Len(senderWindow) :
          slideWindowLeftBoundSeqNum + i - 1 = dp.seqNum
    <3>1. /\ dp.seqNum - slideWindowLeftBoundSeqNum + 1 \in 1..Len(senderWindow)
          /\ slideWindowLeftBoundSeqNum
               + (dp.seqNum - slideWindowLeftBoundSeqNum + 1) - 1 = dp.seqNum
      BY <1>3, <2>1, <2>2
    <3> QED
      BY <3>1
  <2>4. senderWindow[i].seqNum = dp.seqNum
    BY <2>3 DEF IInv, SenderInv, SenderAligned
  <2> QED
    BY <2>3, <2>4 DEF ItemAlive
<1> HIDE DEF buffer
<1>6. TypeOK'
  BY <1>1, <1>2, <1>4
     DEF IInv, TypeOK, SenderTypeOK, ReceiverTypeOK, senderVars, receiverVars,
         buffer
<1>7. SenderInv' /\ ReceiverInv'
  BY <1>2
     DEF IInv, SenderInv, SenderAligned, WindowInFile, CongestionBounded,
         GrowthPaced, WindowFilled, NoForgottenPacket, HasUnsent,
         LastAckIsLeftBound, ReceiverInv, ReceiverAligned, HeadNeverReceived,
         FileIsReceived, Buffered, senderVars, receiverVars, BytesUpTo
<1>8. SenderBehindReceiver' /\ ReceivedWasSent' /\ LastPacketKnown'
      /\ (\A s \in DOMAIN file : file[s] = "chunk")'
  BY <1>2 DEF IInv, SenderBehindReceiver, ReceivedWasSent, LastPacketKnown,
              senderVars, receiverVars
<1>9. AcksInOrder'
  BY <1>2 DEF IInv, AcksInOrder, Sacked, senderVars, receiverVars
<1>10. DataPacketsInOrder'
  <2>1. ASSUME NEW b \in dataWire'
        PROVE  /\ b.seqNum < slideWindowLeftBoundSeqNum + Len(senderWindow)
               /\ b.tag = "fi" <=> b.seqNum = LastPacketSeqNum
               /\ b.data = "stale" => b.seqNum < slideWindowLeftBoundSeqNum
    <3>1. CASE b \in dataWire
      BY <3>1 DEF IInv, DataPacketsInOrder
    <3>2. CASE b = buffer
      BY <1>3, <1>4, <1>5, <3>2
    <3> QED
      BY <1>1, <3>1, <3>2 DEF buffer
  <2>2. ASSUME NEW d \in prepared'
        PROVE  /\ d.seqNum < slideWindowLeftBoundSeqNum + Len(senderWindow)
               /\ d.type = DATA_PACKET_TYPE_FINISH <=> d.seqNum = LastPacketSeqNum
    BY <1>1 DEF IInv, DataPacketsInOrder
  <2> QED
    BY <1>2, <2>1, <2>2 DEF DataPacketsInOrder, senderVars
<1> QED
  BY <1>6, <1>7, <1>8, <1>9, <1>10 DEF IInv

\* The threads of the sender that send nothing leave the prepared packets
\* in order if the window still ends where it did, or later.
LEMMA PreparedStaysInOrder ==
  ASSUME IInv, UNCHANGED threadVars,
         WindowEnd' \in Nat, WindowEnd' >= WindowEnd
  PROVE  /\ sendDataPc' \in {"check", "prepare", "send"}
         /\ prepared' \subseteq
              [type : {DATA_PACKET_TYPE_REGULAR, DATA_PACKET_TYPE_FINISH},
               seqNum : SeqNums]
         /\ \A dp \in prepared' :
              /\ dp.seqNum < WindowEnd'
              /\ dp.type = DATA_PACKET_TYPE_FINISH <=> dp.seqNum = LastPacketSeqNum
<1>1. /\ sendDataPc' = sendDataPc /\ prepared' = prepared
      /\ WindowEnd \in Nat
  BY DEF threadVars, IInv, TypeOK, SenderTypeOK, WindowEnd
<1>2. PICK end1 : end1 = WindowEnd'
  OBVIOUS
<1>3. end1 \in Nat /\ end1 >= WindowEnd
  BY <1>2
<1>4. ASSUME NEW dp \in prepared
      PROVE  /\ dp.seqNum < end1
             /\ dp.type = DATA_PACKET_TYPE_FINISH <=> dp.seqNum = LastPacketSeqNum
  <2>1. dp.seqNum \in SeqNums
    BY DEF IInv, TypeOK
  <2>2. dp.seqNum \in Nat
    BY <2>1, LastPacketSeqNumNat DEF SeqNums
  <2>3. dp.seqNum < WindowEnd
    BY DEF IInv, DataPacketsInOrder, WindowEnd
  <2> QED
    BY <1>1, <1>3, <2>2, <2>3 DEF IInv, DataPacketsInOrder
<1> QED
  BY <1>1, <1>2, <1>4 DEF IInv, TypeOK

\* A timeout moves no bound and acknowledges nothing, whichever items expire.
LEMMA TimeoutStep ==
  ASSUME IInv, NEW expired, CheckTimeoutOf(expired)
  PROVE  IInv'
<1>1. /\ SenderTypeOK' /\ SenderInv'
      /\ slideWindowLeftBoundSeqNum' = slideWindowLeftBoundSeqNum
      /\ Len(senderWindow') = Len(senderWindow)
      /\ \A i \in 1..Len(senderWindow) :
           /\ senderWindow'[i].seqNum = senderWindow[i].seqNum
           /\ senderWindow'[i].state = "ACKED"
                <=> senderWindow[i].state = "ACKED"
  BY TimeoutInv DEF CheckTimeoutOf, IInv, TypeOK
<1>2. UNCHANGED <<receiverVars, wireVars>> /\ UNCHANGED threadVars
  BY DEF CheckTimeoutOf
<1>3. WindowEnd \in Nat /\ slideWindowLeftBoundSeqNum \in Nat
  BY DEF IInv, TypeOK, SenderTypeOK, WindowEnd
<1>4. WindowEnd' = WindowEnd
  BY <1>1 DEF WindowEnd
<1>5. WindowEnd' \in Nat /\ WindowEnd' >= WindowEnd
  BY <1>3, <1>4
<1>6. /\ slideWindowLeftBoundSeqNum' >= slideWindowLeftBoundSeqNum
      /\ slideWindowLeftBoundSeqNum' <= nextExpectedPacketSeqNum
      /\ slideWindowLeftBoundSeqNum' \notin Sacked
  BY <1>1, <1>3 DEF IInv, SenderBehindReceiver, AcksInOrder
<1>7. \A i \in 1..Len(senderWindow') :
        senderWindow'[i].state = "ACKED" => senderWindow'[i].seqNum \in Sacked
  BY <1>1 DEF IInv, AcksInOrder
<1> QED
  BY <1>1, <1>2, <1>5, <1>6, <1>7, PreparedStaysInOrder, SenderStep

\* An acknowledgement moves the left bound to what the receiver expected
\* when it sent it; a packet marked by its selective field was acknowledged
\* out of order, unless the window has slid past it.
LEMMA AckStep ==
  ASSUME IInv, NEW buffer \in ackWire, ReceiveAck(buffer)
  PROVE  IInv'
<1> DEFINE ack == ReadBufferAckPacket(buffer)
<1>1. /\ ack.cumulativeSeqNum = buffer.cumulativeSeqNum
      /\ ack.selectiveSeqNum = buffer.selectiveSeqNum
  BY ReadsAck DEF IInv
<1>2. AckArrived(ack) /\ UNCHANGED <<receiverVars, wireVars>> /\ UNCHANGED threadVars
  BY DEF ReceiveAck
<1> HIDE DEF ack
<1>3. /\ buffer.cumulativeSeqNum \in Nat
      /\ buffer.selectiveSeqNum \in Nat
      /\ buffer.cumulativeSeqNum <= nextExpectedPacketSeqNum
      /\ nextExpectedPacketSeqNum \in Nat
      /\ slideWindowLeftBoundSeqNum \in Nat
      /\ Len(senderWindow) \in Nat
      /\ slideWindowLeftBoundSeqNum <= nextExpectedPacketSeqNum
  BY DEF IInv, TypeOK, SenderTypeOK, ReceiverTypeOK, AcksInOrder,
         SenderBehindReceiver
<1>4. nextExpectedPacketSeqNum <= slideWindowLeftBoundSeqNum + Len(senderWindow)
  BY NextWithinWindow DEF IInv, WindowEnd
<1>5. ack.cumulativeSeqNum
        \in 0..(slideWindowLeftBoundSeqNum + Len(senderWindow))
  BY <1>1, <1>3, <1>4
<1>6. /\ SenderTypeOK' /\ SenderInv'
      /\ slideWindowLeftBoundSeqNum'
           = Larger(slideWindowLeftBoundSeqNum, ack.cumulativeSeqNum)
      /\ WindowEnd' >= WindowEnd
      /\ \A i \in 1..Len(senderWindow') :
           senderWindow'[i].state = "ACKED" =>
             \/ \E j \in 1..Len(senderWindow) :
                  /\ senderWindow[j].state = "ACKED"
                  /\ senderWindow[j].seqNum = senderWindow'[i].seqNum
             \/ /\ ack.cumulativeSeqNum # ack.selectiveSeqNum
                /\ senderWindow'[i].seqNum = ack.selectiveSeqNum
  BY <1>2, <1>5, AckInv DEF IInv, TypeOK, WindowEnd
<1>7. PICK left1 : left1 = slideWindowLeftBoundSeqNum'
  OBVIOUS
<1>8. /\ left1 = Larger(slideWindowLeftBoundSeqNum, buffer.cumulativeSeqNum)
      /\ left1 \in Nat
      /\ left1 >= slideWindowLeftBoundSeqNum
      /\ left1 >= buffer.cumulativeSeqNum
      /\ left1 <= nextExpectedPacketSeqNum
      /\ left1 \notin Sacked
  <2>1. left1 = Larger(slideWindowLeftBoundSeqNum, buffer.cumulativeSeqNum)
    BY <1>1, <1>6, <1>7
  <2>2. \A s \in Sacked : s # slideWindowLeftBoundSeqNum
                           /\ s # buffer.cumulativeSeqNum
    BY DEF IInv, AcksInOrder
  <2> QED
    BY <1>3, <2>1, <2>2 DEF Larger
<1>9. ASSUME NEW i \in 1..Len(senderWindow'), senderWindow'[i].state = "ACKED"
      PROVE  senderWindow'[i].seqNum \in Sacked
  <2>1. CASE \E j \in 1..Len(senderWindow) :
               /\ senderWindow[j].state = "ACKED"
               /\ senderWindow[j].seqNum = senderWindow'[i].seqNum
    BY <2>1 DEF IInv, AcksInOrder
  <2>2. CASE /\ ack.cumulativeSeqNum # ack.selectiveSeqNum
             /\ senderWindow'[i].seqNum = ack.selectiveSeqNum
    <3>1. /\ buffer.cumulativeSeqNum # buffer.selectiveSeqNum
          /\ senderWindow'[i].seqNum = buffer.selectiveSeqNum
      BY <1>1, <2>2
    <3>2. senderWindow'[i].seqNum = left1 + i - 1 /\ i >= 1 /\ i \in Nat
      BY <1>6, <1>7 DEF SenderInv, SenderAligned
    <3>3. buffer.selectiveSeqNum >= buffer.cumulativeSeqNum
      BY <1>3, <1>8, <3>1, <3>2
    <3> QED
      BY <1>3, <3>1, <3>3 DEF Sacked
  <2> QED
    BY <1>6, <1>9, <2>1, <2>2
<1>10. WindowEnd' \in Nat
  <2>1. left1 + Len(senderWindow') \in Nat
    BY <1>6, <1>8 DEF SenderTypeOK
  <2> QED
    BY <1>7, <2>1 DEF WindowEnd
<1>11. /\ slideWindowLeftBoundSeqNum' >= slideWindowLeftBoundSeqNum
       /\ slideWindowLeftBoundSeqNum' <= nextExpectedPacketSeqNum
       /\ slideWindowLeftBoundSeqNum' \notin Sacked
  BY <1>7, <1>8
<1> QED
  BY <1>2, <1>6, <1>9, <1>10, <1>11, PreparedStaysInOrder, SenderStep

\* The receiver answers a packet: it writes only what it does not have,
\* hence never stale data, and what it acknowledges out of order is ahead of
\* everything it has expected so far.
LEMMA ReceiveStep ==
  ASSUME IInv, NEW buffer \in dataWire, ReceiveDataReplyAck(buffer)
  PROVE  IInv'
<1> DEFINE dp == ReadBufferDataPacket(buffer)
           reply == FillBufferAckPacket(AckFor(dp))
<1>1. /\ buffer.tag \in {"re", "fi"}
      /\ buffer.seqNum \in SeqNums
      /\ buffer.seqNum \in Nat
      /\ buffer.data \in Payload
      /\ buffer.seqNum < slideWindowLeftBoundSeqNum + Len(senderWindow)
      /\ buffer.tag = "fi" <=> buffer.seqNum = LastPacketSeqNum
      /\ buffer.data = "stale" => buffer.seqNum < slideWindowLeftBoundSeqNum
  <2>1. /\ buffer.tag \in {"re", "fi"}
        /\ buffer.seqNum \in SeqNums
        /\ buffer.data \in Payload
    BY DEF IInv, TypeOK
  <2> QED
    BY <2>1, LastPacketSeqNumNat DEF IInv, DataPacketsInOrder, SeqNums
<1>2. /\ dp.seqNum = buffer.seqNum
      /\ dp.data = buffer.data
      /\ dp.type = DATA_PACKET_TYPE_FINISH <=> buffer.tag = "fi"
  BY ReadsData DEF IInv
<1>3. /\ ReceiveDataPacket(dp)
      /\ ackWire' = ackWire \cup {reply}
      /\ UNCHANGED <<senderVars, threadVars, dataWire>>
  BY DEF ReceiveDataReplyAck
<1>4. /\ reply.tag = "re"
      /\ reply.cumulativeSeqNum = AckFor(dp).cumulativeSeqNum
      /\ reply.selectiveSeqNum = AckFor(dp).selectiveSeqNum
      /\ reply = [tag |-> "re", cumulativeSeqNum |-> reply.cumulativeSeqNum,
                  selectiveSeqNum |-> reply.selectiveSeqNum]
  BY DEF FillBufferAckPacket, AckFor, AckTag, ACK_PACKET_TYPE_REGULAR,
         ACK_PACKET_TYPE_HANDSHAKE
<1> HIDE DEF dp, reply
<1>5. /\ ReceiverTypeOK' /\ ReceiverInv'
      /\ nextExpectedPacketSeqNum' >= nextExpectedPacketSeqNum
      /\ nextExpectedPacketSeqNum' \notin DOMAIN file'
      /\ \/ UNCHANGED file
         \/ /\ dp.seqNum \notin DOMAIN file
            /\ WriteAt(dp.seqNum, dp.data)
      /\ AckFor(dp).cumulativeSeqNum = nextExpectedPacketSeqNum'
      /\ AckFor(dp).selectiveSeqNum \in Nat
      /\ AckFor(dp).selectiveSeqNum # AckFor(dp).cumulativeSeqNum =>
           /\ AckFor(dp).selectiveSeqNum = dp.seqNum
           /\ dp.seqNum \in DOMAIN file'
  BY <1>1, <1>2, <1>3, ReceiveInv DEF IInv, TypeOK
<1>6. PICK next1 : next1 = nextExpectedPacketSeqNum'
  OBVIOUS
<1>7. /\ next1 \in Nat /\ next1 >= nextExpectedPacketSeqNum
      /\ next1 \notin DOMAIN file'
      /\ nextExpectedPacketSeqNum \in Nat
      /\ slideWindowLeftBoundSeqNum \in Nat
      /\ slideWindowLeftBoundSeqNum <= nextExpectedPacketSeqNum
  <2>1. next1 \in Nat
    BY <1>5, <1>6 DEF ReceiverTypeOK
  <2> QED
    BY <1>5, <1>6, <2>1
       DEF IInv, TypeOK, ReceiverTypeOK, SenderTypeOK, SenderBehindReceiver
<1>8. /\ reply.cumulativeSeqNum = next1
      /\ reply.selectiveSeqNum \in Nat
      /\ reply.selectiveSeqNum # next1 =>
           /\ reply.selectiveSeqNum = buffer.seqNum
           /\ buffer.seqNum \in DOMAIN file'
  BY <1>2, <1>4, <1>5, <1>6
\* The file grows by the packet, unless it has it.
<1>9. /\ DOMAIN file \subseteq DOMAIN file'
      /\ DOMAIN file' \subseteq DOMAIN file \cup {buffer.seqNum}
      /\ \A s \in DOMAIN file' : file'[s] = "chunk"
  <2>1. CASE UNCHANGED file
    BY <2>1 DEF IInv
  <2>2. CASE dp.seqNum \notin DOMAIN file /\ WriteAt(dp.seqNum, dp.data)
    <3>1. buffer.seqNum \notin DOMAIN file
      BY <1>2, <2>2
    <3>2. ~(buffer.seqNum < slideWindowLeftBoundSeqNum)
      BY <1>1, <1>7, <3>1 DEF IInv, ReceiverInv, FileIsReceived
    <3>3. buffer.data = "chunk"
      BY <1>1, <3>2 DEF Payload
    <3>4. file' = [s \in DOMAIN file \cup {buffer.seqNum} |->
                     IF s = buffer.seqNum THEN "chunk" ELSE file[s]]
      BY <1>2, <2>2, <3>3 DEF WriteAt
    <3> QED
      BY <3>4 DEF IInv
  <2> QED
    BY <1>5, <2>1, <2>2
<1>10. TypeOK'
  <2>1. reply \in [tag : {"re"}, cumulativeSeqNum : Nat, selectiveSeqNum : Nat]
    BY <1>4, <1>7, <1>8
  <2> QED
    BY <1>3, <1>5, <2>1
       DEF IInv, TypeOK, SenderTypeOK, senderVars, threadVars
<1>11. SenderInv'
  BY <1>3
     DEF IInv, SenderInv, SenderAligned, WindowInFile, CongestionBounded,
         GrowthPaced, WindowFilled, NoForgottenPacket, HasUnsent,
         LastAckIsLeftBound, senderVars, BytesUpTo
<1>12. SenderBehindReceiver'
  <2>1. slideWindowLeftBoundSeqNum <= next1
    BY <1>7
  <2> QED
    BY <1>3, <1>6, <2>1 DEF SenderBehindReceiver, senderVars
<1>13. ReceivedWasSent'
  BY <1>1, <1>3, <1>9 DEF IInv, ReceivedWasSent, senderVars
<1>14. DataPacketsInOrder'
  BY <1>3 DEF IInv, DataPacketsInOrder, senderVars, threadVars
<1>15. AcksInOrder'
  <2>1. ASSUME NEW a \in ackWire'
        PROVE  /\ a.cumulativeSeqNum <= next1
               /\ a.selectiveSeqNum # a.cumulativeSeqNum =>
                    a.selectiveSeqNum \in DOMAIN file'
    <3>1. CASE a \in ackWire
      <4>1. a.cumulativeSeqNum \in Nat
        BY <3>1 DEF IInv, TypeOK
      <4>2. a.cumulativeSeqNum <= nextExpectedPacketSeqNum
        BY <3>1 DEF IInv, AcksInOrder
      <4>3. a.selectiveSeqNum # a.cumulativeSeqNum =>
              a.selectiveSeqNum \in DOMAIN file
        BY <3>1 DEF IInv, AcksInOrder
      <4> QED
        BY <1>7, <1>9, <4>1, <4>2, <4>3
    <3>2. CASE a = reply
      BY <1>7, <1>8, <3>2
    <3> QED
      BY <1>3, <3>1, <3>2
  <2>2. ASSUME NEW s \in Sacked'
        PROVE  s \in Sacked \/ s > next1
    <3>1. PICK a \in ackWire' : /\ a.cumulativeSeqNum < a.selectiveSeqNum
                               /\ s = a.selectiveSeqNum
      BY DEF Sacked
    <3>2. CASE a \in ackWire
      BY <3>1, <3>2 DEF Sacked
    <3>3. CASE a = reply
      BY <1>7, <1>8, <3>1, <3>3
    <3> QED
      BY <1>3, <3>1, <3>2, <3>3
  <2>3. ASSUME NEW s \in Sacked
        PROVE  /\ s # slideWindowLeftBoundSeqNum
               /\ s \in DOMAIN file
               /\ \A a \in ackWire : a.cumulativeSeqNum # s
    <3>1. PICK a \in ackWire : /\ a.cumulativeSeqNum < a.selectiveSeqNum
                              /\ s = a.selectiveSeqNum
      BY DEF Sacked
    <3>2. a.selectiveSeqNum # a.cumulativeSeqNum
      BY <3>1 DEF IInv, TypeOK
    <3> QED
      BY <3>1, <3>2 DEF IInv, AcksInOrder
  <2>4. ASSUME NEW s \in Sacked'
        PROVE  /\ s # slideWindowLeftBoundSeqNum
               /\ \A a \in ackWire' : a.cumulativeSeqNum # s
    <3>1. CASE s \in Sacked
      <4>1. s # next1
        BY <1>7, <1>9, <2>3, <3>1
      <4> QED
        BY <1>3, <1>8, <2>3, <3>1, <4>1
    <3>2. CASE s > next1
      <4>1. s \in Nat
        BY <1>10 DEF Sacked, TypeOK
      <4>2. s # slideWindowLeftBoundSeqNum
        BY <1>7, <3>2, <4>1
      <4>3. ASSUME NEW a \in ackWire'
            PROVE  a.cumulativeSeqNum # s
        <5>1. a.cumulativeSeqNum \in Nat
          BY <1>10 DEF TypeOK
        <5> QED
          BY <1>7, <2>1, <3>2, <4>1, <5>1
      <4> QED
        BY <4>2, <4>3
    <3> QED
      BY <2>2, <3>1, <3>2
  <2>5. Sacked \subseteq Sacked'
    BY <1>3 DEF Sacked
  <2> QED
    BY <1>3, <1>6, <2>1, <2>4, <2>5 DEF IInv, AcksInOrder, senderVars
<1>16. LastPacketKnown'
  <2>1. CASE dp.type = DATA_PACKET_TYPE_FINISH
    <3>1. lastPacketSeqNum' = dp.seqNum /\ lastPacketSeqNumReceived' = TRUE
      BY <1>3, <2>1 DEF ReceiveDataPacket, NoteLastPacket
    <3> QED
      BY <1>1, <1>2, <2>1, <3>1 DEF LastPacketKnown
  <2>2. CASE dp.type # DATA_PACKET_TYPE_FINISH
    <3>1. UNCHANGED <<lastPacketSeqNum, lastPacketSeqNumReceived>>
      BY <1>3, <2>2 DEF ReceiveDataPacket, NoteLastPacket
    <3>2. buffer.seqNum # LastPacketSeqNum
      BY <1>1, <1>2, <2>2
    <3> QED
      BY <1>9, <3>1, <3>2 DEF IInv, LastPacketKnown
  <2> QED
    BY <2>1, <2>2
<1> QED
  BY <1>5, <1>9, <1>10, <1>11, <1>12, <1>13, <1>14, <1>15, <1>16 DEF IInv

-----------------------------------------------------------------------------
\* Every step of every thread keeps the inductive invariant.
LEMMA NextIInv == IInv /\ [Next]_vars => IInv'
<1> SUFFICES ASSUME IInv, [Next]_vars PROVE IInv'
  OBVIOUS
<1>1. CASE SendDataCheck
  <2>1. /\ UNCHANGED <<senderVars, receiverVars, prepared, wireVars>>
        /\ sendDataPc' = "prepare"
    BY <1>1 DEF SendDataCheck
  <2> QED
    BY <2>1, FrameIInv
<1>2. CASE SendDataPrepare
  BY <1>2, PrepareStep
<1>3. CASE \E dp \in prepared : SendDataSendTo(dp)
  BY <1>3, SendToStep
<1>4. CASE \E buffer \in ackWire : ReceiveAck(buffer)
  BY <1>4, AckStep
<1>5. CASE \E expired \in SUBSET OutstandingPositions : CheckTimeoutOf(expired)
  BY <1>5, TimeoutStep
<1>6. CASE \E buffer \in dataWire : ReceiveDataReplyAck(buffer)
  BY <1>6, ReceiveStep
<1>7. CASE UNCHANGED vars
  <2>1. /\ UNCHANGED <<senderVars, receiverVars, prepared, wireVars>>
        /\ sendDataPc' = sendDataPc
    BY <1>7 DEF vars, threadVars
  <2> QED
    BY <2>1, FrameIInv DEF IInv, TypeOK
<1> QED
  BY <1>1, <1>2, <1>3, <1>4, <1>5, <1>6, <1>7 DEF Next

\* Every reachable state satisfies the inductive invariant, and with it the
\* types and the sender's bookkeeping: no packet forgotten, growth paced.
THEOREM Invariance == Spec => []IInv
<1>1. Init => IInv
  BY InitIInv
<1>2. IInv /\ [Next]_vars => IInv'
  BY NextIInv
<1> QED
  BY <1>1, <1>2, PTL DEF Spec

-----------------------------------------------------------------------------
(***************************************************************************)
(* What follows from the invariant.                                        *)
(***************************************************************************)

\* The file holds what the receiver took in, which is within the sender's
\* file and includes all the sender takes for delivered.
LEMMA FileFacts == IInv => FileIntact /\ AckedWasReceived
<1> SUFFICES ASSUME IInv PROVE FileIntact /\ AckedWasReceived
  OBVIOUS
<1>1. /\ slideWindowLeftBoundSeqNum \in Nat
      /\ nextExpectedPacketSeqNum \in Nat
      /\ Len(senderWindow) \in Nat
      /\ LastPacketSeqNum \in Nat
      /\ DOMAIN file \subseteq Nat
      /\ slideWindowLeftBoundSeqNum <= nextExpectedPacketSeqNum
      /\ slideWindowLeftBoundSeqNum + Len(senderWindow) <= LastPacketSeqNum + 1
  BY LastPacketSeqNumNat
     DEF IInv, TypeOK, SenderTypeOK, ReceiverTypeOK, SenderBehindReceiver,
         SenderInv, WindowInFile
<1>2. DOMAIN file \subseteq SeqNums
  <2>1. ASSUME NEW s \in DOMAIN file
        PROVE  s \in SeqNums
    <3>1. s \in Nat /\ s < slideWindowLeftBoundSeqNum + Len(senderWindow)
      BY <1>1 DEF IInv, ReceivedWasSent
    <3> QED
      BY <1>1, <3>1 DEF SeqNums
  <2> QED
    BY <2>1
<1>3. FileIntact
  BY <1>2 DEF IInv, FileIntact, ReceiverInv
<1>4. 0..(slideWindowLeftBoundSeqNum - 1) \subseteq DOMAIN file
  <2>1. 0..(slideWindowLeftBoundSeqNum - 1) \subseteq
          0..(nextExpectedPacketSeqNum - 1)
    BY <1>1
  <2> QED
    BY <2>1 DEF IInv, ReceiverInv, FileIsReceived
<1>5. ASSUME NEW i \in 1..Len(senderWindow), senderWindow[i].state = "ACKED"
      PROVE  senderWindow[i].seqNum \in DOMAIN file
  <2>1. PICK a \in ackWire : /\ a.cumulativeSeqNum < a.selectiveSeqNum
                            /\ senderWindow[i].seqNum = a.selectiveSeqNum
    BY <1>5 DEF IInv, AcksInOrder, Sacked
  <2>2. a.selectiveSeqNum # a.cumulativeSeqNum
    BY <2>1 DEF IInv, TypeOK
  <2> QED
    BY <2>1, <2>2 DEF IInv, AcksInOrder
<1> QED
  BY <1>3, <1>4, <1>5 DEF AckedWasReceived

\* The same of the state after a step.
LEMMA FileFactsPrimed == IInv' => FileIntact' /\ AckedWasReceived'
  BY FileFacts, PTL

\* The receiver never asks for a packet beyond the sender's window, and
\* never for one it has acknowledged out of order.
LEMMA WindowFacts == IInv => WindowsAligned /\ AcksWithinWindow /\ HeadNeverAcked
<1> SUFFICES ASSUME IInv
             PROVE  WindowsAligned /\ AcksWithinWindow /\ HeadNeverAcked
  OBVIOUS
<1>1. WindowsAligned
  BY DEF IInv, SenderInv, ReceiverInv, WindowsAligned
<1>2. AcksWithinWindow
  <2>1. nextExpectedPacketSeqNum
          <= slideWindowLeftBoundSeqNum + Len(senderWindow)
    BY NextWithinWindow DEF IInv, WindowEnd
  <2>2. ASSUME NEW a \in ackWire
        PROVE  a.cumulativeSeqNum
                 <= slideWindowLeftBoundSeqNum + Len(senderWindow)
    <3>1. /\ a.cumulativeSeqNum \in Nat
          /\ nextExpectedPacketSeqNum \in Nat
          /\ slideWindowLeftBoundSeqNum \in Nat
          /\ Len(senderWindow) \in Nat
      BY DEF IInv, TypeOK, SenderTypeOK, ReceiverTypeOK
    <3>2. a.cumulativeSeqNum <= nextExpectedPacketSeqNum
      BY DEF IInv, AcksInOrder
    <3> QED
      BY <2>1, <3>1, <3>2
  <2> QED
    BY <2>2 DEF AcksWithinWindow
<1>3. HeadNeverAcked
  <2>1. SUFFICES ASSUME senderWindow # <<>>, senderWindow[1].state = "ACKED"
                 PROVE  FALSE
    BY DEF HeadNeverAcked
  <2>2. senderWindow \in Seq(Item) /\ slideWindowLeftBoundSeqNum \in Nat
    BY DEF IInv, TypeOK, SenderTypeOK, Item
  <2>3. 1 \in 1..Len(senderWindow)
    BY <2>1, <2>2
  <2>4. senderWindow[1].seqNum \in Sacked
    BY <2>1, <2>3 DEF IInv, AcksInOrder
  <2>5. senderWindow[1].seqNum = slideWindowLeftBoundSeqNum + 1 - 1
    BY <2>3 DEF IInv, SenderInv, SenderAligned
  <2>6. senderWindow[1].seqNum = slideWindowLeftBoundSeqNum
    BY <2>2, <2>5
  <2> QED
    BY <2>4, <2>6 DEF IInv, AcksInOrder
<1> QED
  BY <1>1, <1>2, <1>3

\* All bytes are acknowledged only when the left bound has passed the last
\* packet, and then the receiver has passed it too.
LEMMA FinishedFacts == IInv => FinishedMeansDelivered
<1> SUFFICES ASSUME IInv, SenderFinished
             PROVE  DOMAIN file = SeqNums /\ ReceiverFinished
  BY DEF FinishedMeansDelivered
<1>1. /\ slideWindowLeftBoundSeqNum \in Nat
      /\ nextExpectedPacketSeqNum \in Nat
      /\ LastPacketSeqNum \in Nat
      /\ slideWindowLeftBoundSeqNum <= nextExpectedPacketSeqNum
      /\ bytesToSend = BytesUpTo(slideWindowLeftBoundSeqNum)
  BY LastPacketSeqNumNat
     DEF IInv, TypeOK, SenderTypeOK, ReceiverTypeOK, SenderBehindReceiver,
         SenderInv, SenderFinished
<1>2. bytesToSend \in Nat /\ bytesToSend > 0
  BY SenderAssumption, NonEmptyTransfer
\* All bytes are acknowledged, so the left bound is past the last packet.
<1>3. slideWindowLeftBoundSeqNum >= LastPacketSeqNum + 1
  <2>1. bytesToSend <= slideWindowLeftBoundSeqNum * DATA_PACKET_DATA_SIZE
    BY <1>1, <1>2, SenderAssumption DEF BytesUpTo, Smaller
  <2>2. LastPacketSeqNum * DATA_PACKET_DATA_SIZE < bytesToSend
    BY <1>2, LastPacketSeqNumNat
  <2>3. ASSUME slideWindowLeftBoundSeqNum <= LastPacketSeqNum
        PROVE  slideWindowLeftBoundSeqNum * DATA_PACKET_DATA_SIZE
                 <= LastPacketSeqNum * DATA_PACKET_DATA_SIZE
    BY <1>1, <2>3, SenderAssumption
  <2>4. /\ slideWindowLeftBoundSeqNum * DATA_PACKET_DATA_SIZE \in Nat
        /\ LastPacketSeqNum * DATA_PACKET_DATA_SIZE \in Nat
    BY <1>1, SenderAssumption
  <2> QED
    BY <1>1, <1>2, <2>1, <2>2, <2>3, <2>4
<1>4. DOMAIN file = SeqNums
  <2>1. SeqNums \subseteq DOMAIN file
    BY <1>1, <1>3 DEF IInv, ReceiverInv, FileIsReceived, SeqNums
  <2> QED
    BY <2>1, FileFacts DEF FileIntact
<1>5. lastPacketSeqNumReceived /\ lastPacketSeqNum = LastPacketSeqNum
  BY <1>1, <1>4 DEF IInv, LastPacketKnown, SeqNums
<1>6. nextExpectedPacketSeqNum = LastPacketSeqNum + 1
  <2>1. nextExpectedPacketSeqNum - 1 \in DOMAIN file
    BY <1>1, <1>3 DEF IInv, ReceiverInv, FileIsReceived
  <2> QED
    BY <1>1, <1>3, <1>4, <2>1 DEF SeqNums
<1> QED
  BY <1>4, <1>5, <1>6 DEF ReceiverFinished

\* Every state has the types of the model.
THEOREM TypeCorrect == Spec => []TypeOK
<1>1. IInv => TypeOK
  BY DEF IInv
<1> QED
  BY <1>1, Invariance, PTL

\* Both deques stay aligned with their left bounds, no acknowledgement pops
\* an empty deque, and the oldest packet is never taken for acknowledged, in
\* whatever order, how late and how often acknowledgements arrive.
THEOREM WindowSafety ==
  Spec => [](WindowsAligned /\ AcksWithinWindow /\ HeadNeverAcked)
  BY WindowFacts, Invariance, PTL

\* The receiving file is never corrupted, and what the sender takes for
\* delivered is in it.
THEOREM FileSafety == Spec => [](FileIntact /\ AckedWasReceived)
  BY FileFacts, Invariance, PTL

\* No packet waiting to be sent is forgotten, the left bound is the newest
\* acknowledgement, the window is as full as it may be, and the congestion
\* window grows at most once per window of acknowledged data.
THEOREM SenderSafety ==
  Spec => [](NoForgottenPacket /\ LastAckIsLeftBound /\ WindowFilled
             /\ GrowthPaced)
<1>1. IInv => NoForgottenPacket /\ LastAckIsLeftBound /\ WindowFilled
              /\ GrowthPaced
  BY DEF IInv, SenderInv
<1> QED
  BY <1>1, Invariance, PTL

\* When the sender's main thread leaves, the whole file has been delivered
\* and the receiver knows it.
THEOREM Delivered == Spec => []FinishedMeansDelivered
  BY FinishedFacts, Invariance, PTL

\* Until the bytes counted are those asked for there is a first item, it is
\* not marked ACKED, and if it is to be sent then sendData is told.
LEMMA NeverStuckFacts == IInv => NeverStuck
<1> SUFFICES ASSUME IInv, bytesToSend <= fileSize, ~SenderFinished
             PROVE  1 \in OutstandingPositions \/ (HasDataToSend /\ 1 \in ToSend)
  BY DEF NeverStuck
<1>1. PICK left, len : /\ left = slideWindowLeftBoundSeqNum
                       /\ len = Len(senderWindow)
  OBVIOUS
<1>2. /\ left \in Nat /\ len \in Nat
      /\ curCongestionWindow \in Nat
      /\ LastPacketSeqNum \in Nat
      /\ bytesSent = BytesUpTo(left)
      /\ left + len <= LastPacketSeqNum + 1
      /\ curCongestionWindow >= CONGESTION_WINDOW_MIN
      /\ len >= Smaller(curCongestionWindow, LastPacketSeqNum + 1 - left)
  BY <1>1, LastPacketSeqNumNat
     DEF IInv, TypeOK, SenderTypeOK, SenderInv, WindowInFile,
         CongestionBounded, WindowFilled
<1>3. left <= LastPacketSeqNum
  <2>1. ASSUME left = LastPacketSeqNum + 1 PROVE FALSE
    <3>1. bytesToSend <= (LastPacketSeqNum + 1) * DATA_PACKET_DATA_SIZE
      BY NonEmptyTransfer, SenderAssumption DEF LastPacketSeqNum
    <3>2. BytesUpTo(left) = bytesToSend
      BY <2>1, <3>1, SenderAssumption DEF BytesUpTo, Smaller
    <3> QED
      BY <1>2, <3>2 DEF SenderFinished
  <2> QED
    BY <1>2, <2>1
<1>4. len >= 1 /\ curCongestionWindow >= 1
  BY <1>2, <1>3, SenderAssumption DEF Smaller
<1>5. /\ 1 \in 1..Len(senderWindow)
      /\ senderWindow # <<>>
      /\ 1 \in Sendable(senderWindow, curCongestionWindow)
  BY <1>1, <1>2, <1>4 DEF Sendable, Smaller, IInv, TypeOK, SenderTypeOK
<1>6. /\ senderWindow[1].state \in ItemState
      /\ senderWindow[1].state # "ACKED"
  <2>1. senderWindow \in Seq(Item)
    BY DEF IInv, TypeOK, SenderTypeOK, Item
  <2>2. senderWindow[1] \in Item
    BY <1>5, <2>1
  <2>3. senderWindow[1].state # "ACKED"
    BY <1>5, WindowFacts DEF HeadNeverAcked
  <2> QED
    BY <2>2, <2>3 DEF Item
<1>7. CASE Outstanding(senderWindow[1])
  BY <1>5, <1>7 DEF OutstandingPositions
<1>8. CASE ~Outstanding(senderWindow[1])
  <2>1. Unsent(senderWindow[1])
    BY <1>6, <1>8 DEF Outstanding, Unsent, ItemState
  <2>2. 1 \in ToSend
    BY <1>5, <2>1 DEF ToSend
  <2>3. newDataReady
    BY <1>5, <2>1 DEF IInv, SenderInv, NoForgottenPacket, HasUnsent
  <2> QED
    BY <2>2, <2>3 DEF HasDataToSend
<1> QED
  BY <1>7, <1>8

\* The sender never waits in vain: what it waits for is under way or about to
\* be sent again.
THEOREM NotStuck == Spec => []NeverStuck
  BY NeverStuckFacts, Invariance, PTL

-----------------------------------------------------------------------------
(***************************************************************************)
(* Action properties and the refinement.                                   *)
(***************************************************************************)

\* Only the first punishment since packets were prepared shrinks the window,
\* and only preparing packets allows the next one.
LEMMA StepPunishes ==
  ASSUME IInv, [Next]_vars
  PROVE  /\ curCongestionWindow' < curCongestionWindow
              => ~curCongestionWindowTimeouted /\ curCongestionWindowTimeouted'
         /\ curCongestionWindowTimeouted /\ ~curCongestionWindowTimeouted'
              => sendDataPc = "prepare"
<1>1. SenderTypeOK
  BY DEF IInv, TypeOK
<1>2. ~(curCongestionWindow < curCongestionWindow)
  BY <1>1 DEF SenderTypeOK
<1>3. CASE UNCHANGED senderVars
  BY <1>2, <1>3 DEF senderVars
<1>4. CASE SendDataPrepare
  BY <1>2, <1>4 DEF SendDataPrepare, PrepareDataPacketsToSend
<1>5. CASE \E buffer \in ackWire : ReceiveAck(buffer)
  BY <1>1, <1>5, AckPunishes DEF ReceiveAck
<1>6. CASE \E expired \in SUBSET OutstandingPositions : CheckTimeoutOf(expired)
  BY <1>1, <1>6, TimeoutPunishes DEF CheckTimeoutOf
<1> QED
  BY <1>3, <1>4, <1>5, <1>6
     DEF Next, vars, SendDataCheck, SendDataSendTo, ReceiveDataReplyAck

\* Every step leaves an item marked ACKED as it is, or slides past it.
LEMMA StepKeepsAcked ==
  ASSUME IInv, [Next]_vars,
         NEW i \in 1..Len(senderWindow), senderWindow[i].state = "ACKED"
  PROVE  \/ senderWindow[i].seqNum < slideWindowLeftBoundSeqNum'
         \/ \E j \in 1..Len(senderWindow') :
              /\ senderWindow'[j].seqNum = senderWindow[i].seqNum
              /\ senderWindow'[j].state = "ACKED"
<1>1. SenderTypeOK /\ SenderInv
  BY DEF IInv, TypeOK
<1>2. CASE UNCHANGED senderVars
  BY <1>2 DEF senderVars
<1>3. CASE SendDataPrepare
  BY <1>1, <1>3, PrepareInv DEF SendDataPrepare
<1>4. CASE \E buffer \in ackWire : ReceiveAck(buffer)
  <2>1. PICK buffer \in ackWire : ReceiveAck(buffer)
    BY <1>4
  <2>2. PICK ack : ack = ReadBufferAckPacket(buffer)
    OBVIOUS
  <2>3. AckArrived(ack)
    BY <2>1, <2>2 DEF ReceiveAck
  <2>4. ack.cumulativeSeqNum
          \in 0..(slideWindowLeftBoundSeqNum + Len(senderWindow))
    <3>1. /\ buffer.cumulativeSeqNum \in Nat
          /\ slideWindowLeftBoundSeqNum + Len(senderWindow) \in Nat
      BY DEF IInv, TypeOK, SenderTypeOK
    <3>2. buffer.cumulativeSeqNum
            <= slideWindowLeftBoundSeqNum + Len(senderWindow)
      BY WindowFacts DEF AcksWithinWindow
    <3>3. ack.cumulativeSeqNum = buffer.cumulativeSeqNum
      BY <2>2, ReadsAck DEF IInv
    <3> QED
      BY <3>1, <3>2, <3>3
  <2>5. \A j \in 1..Len(senderWindow) :
          senderWindow[j].state = "ACKED" =>
            \/ senderWindow[j].seqNum < slideWindowLeftBoundSeqNum'
            \/ \E k \in 1..Len(senderWindow') :
                 /\ senderWindow'[k].state = "ACKED"
                 /\ senderWindow'[k].seqNum = senderWindow[j].seqNum
    BY <1>1, <2>3, <2>4, AckInv
  <2> QED
    BY <2>5
<1>5. CASE \E expired \in SUBSET OutstandingPositions : CheckTimeoutOf(expired)
  BY <1>1, <1>5, TimeoutInv DEF CheckTimeoutOf
<1> QED
  BY <1>2, <1>3, <1>4, <1>5
     DEF Next, vars, SendDataCheck, SendDataSendTo, ReceiveDataReplyAck

\* Every step delivers one chunk, confirms a longer prefix of the file, or
\* is invisible to the abstract specification.
LEMMA StepRefines == IInv /\ [Next]_vars => [Delivery!Next]_(Delivery!vars)
<1> SUFFICES ASSUME IInv, [Next]_vars
             PROVE  Delivery!Next \/ UNCHANGED Delivery!vars
  OBVIOUS
<1>1. CASE UNCHANGED <<slideWindowLeftBoundSeqNum, file>>
  BY <1>1 DEF Delivery!vars
<1>2. CASE \E buffer \in ackWire : ReceiveAck(buffer)
  <2>1. IInv'
    BY NextIInv
  <2>2. AckedWasReceived'
    BY <2>1, FileFactsPrimed
  <2>3. PICK left1 : left1 = slideWindowLeftBoundSeqNum'
    OBVIOUS
  <2>4. /\ file' = file
        /\ 0..(left1 - 1) \subseteq DOMAIN file
    BY <1>2, <2>2, <2>3 DEF ReceiveAck, receiverVars, AckedWasReceived
  <2>5. /\ left1 \in Nat /\ left1 <= LastPacketSeqNum + 1
        /\ slideWindowLeftBoundSeqNum \in Nat
        /\ left1 = slideWindowLeftBoundSeqNum \/ left1 > slideWindowLeftBoundSeqNum
    <3>1. left1 \in Nat
      BY <2>1, <2>3 DEF IInv, TypeOK, SenderTypeOK
    <3>2. PICK len : len = Len(senderWindow')
      OBVIOUS
    <3>3. len \in Nat /\ left1 + len <= LastPacketSeqNum + 1
      BY <2>1, <2>3, <3>2
         DEF IInv, TypeOK, SenderTypeOK, SenderInv, WindowInFile
    <3>4. \E c \in Nat : left1 = Larger(slideWindowLeftBoundSeqNum, c)
      BY <1>2, <2>3, ReadsAck DEF ReceiveAck, AckArrived, IInv, TypeOK
    <3>5. slideWindowLeftBoundSeqNum \in Nat
      BY DEF IInv, TypeOK, SenderTypeOK
    <3>6. left1 <= LastPacketSeqNum + 1
      BY <3>1, <3>3, LastPacketSeqNumNat
    <3>7. left1 >= slideWindowLeftBoundSeqNum
      BY <3>4, <3>5 DEF Larger
    <3> QED
      BY <3>1, <3>5, <3>6, <3>7
  <2>6. CASE left1 = slideWindowLeftBoundSeqNum
    BY <2>3, <2>4, <2>6 DEF Delivery!vars
  <2>7. CASE left1 > slideWindowLeftBoundSeqNum
    <3>1. left1 \in 1..(LastPacketSeqNum + 1)
      BY <2>5, <2>7, LastPacketSeqNumNat
    <3>2. Delivery!Confirm(left1)
      BY <2>3, <2>4, <2>7 DEF Delivery!Confirm
    <3> QED
      BY <3>1, <3>2 DEF Delivery!Next
  <2> QED
    BY <2>5, <2>6, <2>7
<1>3. CASE \E buffer \in dataWire : ReceiveDataReplyAck(buffer)
  <2>1. PICK buffer \in dataWire : ReceiveDataReplyAck(buffer)
    BY <1>3
  <2>2. PICK dp : dp = ReadBufferDataPacket(buffer)
    OBVIOUS
  <2>3. /\ dp.seqNum = buffer.seqNum /\ dp.data = buffer.data
        /\ buffer.seqNum \in SeqNums /\ buffer.data \in Payload
        /\ dp.seqNum \in Nat /\ dp.seqNum \in 0..((LastPacketSeqNum + 1) - 1)
    BY <2>2, ReadsData, LastPacketSeqNumNat DEF IInv, TypeOK, SeqNums
  <2>4. \/ UNCHANGED file
        \/ /\ dp.seqNum \notin DOMAIN file
           /\ WriteAt(dp.seqNum, dp.data)
    BY <2>1, <2>2, <2>3, ReceiveInv DEF ReceiveDataReplyAck, IInv, TypeOK
  <2>5. slideWindowLeftBoundSeqNum' = slideWindowLeftBoundSeqNum
    BY <2>1 DEF ReceiveDataReplyAck, senderVars
  <2>6. CASE UNCHANGED file
    BY <2>5, <2>6 DEF Delivery!vars
  <2>7. CASE dp.seqNum \notin DOMAIN file /\ WriteAt(dp.seqNum, dp.data)
    <3>1. FileIntact'
      BY NextIInv, FileFactsPrimed
    <3>2. file' = [s \in DOMAIN file \cup {dp.seqNum} |->
                     IF s = dp.seqNum THEN dp.data ELSE file[s]]
      BY <2>7 DEF WriteAt
    <3>3. dp.data = "chunk"
      BY <3>1, <3>2 DEF FileIntact
    <3>4. file' = [s \in DOMAIN file \cup {dp.seqNum} |->
                     IF s = dp.seqNum THEN "chunk" ELSE file[s]]
      BY <3>2, <3>3
    <3>5. Delivery!Deliver(dp.seqNum)
      BY <2>5, <2>7, <3>4 DEF Delivery!Deliver
    <3> QED
      <4>1. dp.seqNum \in 0..((LastPacketSeqNum + 1) - 1)
        BY <2>3
      <4>2. \E s \in 0..((LastPacketSeqNum + 1) - 1) : Delivery!Deliver(s)
        BY <3>5, <4>1, Zenon
      <4> QED
        BY <4>2, Zenon DEF Delivery!Next
  <2> QED
    BY <2>4, <2>6, <2>7
<1> QED
  BY <1>1, <1>2, <1>3
     DEF Next, vars, SendDataCheck, SendDataPrepare, PrepareDataPacketsToSend,
         SendDataSendTo, CheckTimeoutOf, CheckTimeout, Punishes, senderVars, receiverVars

\* A congestion window is punished once per round of sending.
THEOREM PunishedOnce == Spec => PunishedOncePerRound
<1>1. IInv /\ [Next]_vars =>
        [/\ curCongestionWindow' < curCongestionWindow
             => ~curCongestionWindowTimeouted /\ curCongestionWindowTimeouted'
         /\ curCongestionWindowTimeouted /\ ~curCongestionWindowTimeouted'
             => sendDataPc = "prepare"]_vars
  BY StepPunishes
<1> QED
  BY <1>1, Invariance, PTL DEF Spec, PunishedOncePerRound

\* A packet acknowledged out of order is not revived.
THEOREM AckedForGood == Spec => AckedStaysAcked
<1>1. IInv /\ [Next]_vars =>
        [\A i \in 1..Len(senderWindow) :
           senderWindow[i].state = "ACKED" =>
             \/ senderWindow[i].seqNum < slideWindowLeftBoundSeqNum'
             \/ \E j \in 1..Len(senderWindow') :
                  /\ senderWindow'[j].seqNum = senderWindow[i].seqNum
                  /\ senderWindow'[j].state = "ACKED"]_vars
  BY StepKeepsAcked
<1> QED
  BY <1>1, Invariance, PTL DEF Spec, AckedStaysAcked

\* The two windows and the link implement reliable delivery.
THEOREM Refinement == Spec => ImplementsReliableDelivery
<1>1. Init => Delivery!Init
  BY DEF Init, SenderInit, ReceiverInit, Delivery!Init
<1>2. IInv /\ [Next]_vars => [Delivery!Next]_(Delivery!vars)
  BY StepRefines
<1> QED
  BY <1>1, <1>2, Invariance, PTL
     DEF Spec, ImplementsReliableDelivery, Delivery!Spec

=============================================================================
