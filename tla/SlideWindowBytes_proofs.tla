----------------------- MODULE SlideWindowBytes_proofs -----------------------
(***************************************************************************)
(* Proof that the windows over a link implement LargeFile.  The lemmas     *)
(* about sizes and places are those proved about LargeFile.                *)
(***************************************************************************)
EXTENDS SlideWindowBytes, SlideWindowProtocol_proofs

Proved == INSTANCE LargeFile_proofs
            WITH FileSizes <- {fileSize},
                 MaxBytes <- bytesToSend,
                 receivedAhead <- Buffered,
                 file <- FileBytes

\* What LargeFile assumes holds.
LEMMA AssumptionHolds ==
  ASSUME NumbersFit
  PROVE  /\ Proved!LargeFileAssumption
         /\ Proved!RequestOK
<1>1. /\ UINT_MAX \in Nat
      /\ DATA_PACKET_DATA_SIZE \in 2..UINT_MAX
      /\ bytesToSend \in Nat /\ bytesToSend <= UINT_MAX
      /\ fileSize \in Nat
      /\ INIT_WINDOW_SIZE \in Nat \ {0}
      /\ LastPacketSeqNum \in Nat
      /\ LastPacketSeqNum + 1 + INIT_WINDOW_SIZE <= UINT_MAX
  BY SenderAssumption, ReceiverAssumption, LastPacketSeqNumNat DEF NumbersFit
<1>2. INIT_WINDOW_SIZE \in 1..UINT_MAX
  BY <1>1
<1>3. bytesToSend \in 0..((UINT_MAX + 1) * DATA_PACKET_DATA_SIZE)
  <2>1. UINT_MAX + 1 <= (UINT_MAX + 1) * DATA_PACKET_DATA_SIZE
    BY <1>1
  <2>2. (UINT_MAX + 1) * DATA_PACKET_DATA_SIZE \in Nat
    BY <1>1
  <2> QED
    BY <1>1, <2>1, <2>2
<1> QED
  BY <1>1, <1>2, <1>3
     DEF Proved!LargeFileAssumption, Proved!RequestOK

\* Both modules cut the file into the same packets.
LEMMA SameCut ==
  ASSUME NumbersFit
  PROVE  /\ Large!LastPacketSeqNum = LastPacketSeqNum
         /\ \A s \in SeqNums :
              /\ Large!ReadOffset(s) = s * DATA_PACKET_DATA_SIZE
              /\ Large!WriteOffset(s) = s * DATA_PACKET_DATA_SIZE
              /\ Large!DataSize(s) = DataSize(s)
              /\ Large!PlacesOf(s) = PlacesOfPacket[s]
<1> DEFINE D == DATA_PACKET_DATA_SIZE
<1>1. /\ UINT_MAX \in Nat
      /\ D \in Nat /\ D >= 2
      /\ bytesToSend \in Nat /\ bytesToSend <= UINT_MAX /\ bytesToSend > 0
      /\ fileSize \in Nat
      /\ LastPacketSeqNum \in Nat
      /\ LastPacketSeqNum <= UINT_MAX
  BY SenderAssumption, ReceiverAssumption, LastPacketSeqNumNat,
     NonEmptyTransfer DEF NumbersFit
<1>2. \A n \in 0..UINT_MAX : Large!Uint(n) = n
  BY <1>1 DEF Large!Uint
<1>3. Large!LastPacketSeqNum = LastPacketSeqNum
  <2>1. CASE bytesToSend % D = 0
    <3>1. LastPacketSeqNum = bytesToSend \div D - 1
      BY <1>1, <2>1 DEF LastPacketSeqNum
    <3>2. Large!LastPacketSeqNum = Large!Uint(bytesToSend \div D - 1)
      BY <2>1 DEF Large!LastPacketSeqNum
    <3> QED
      BY <1>1, <1>2, <3>1, <3>2
  <2>2. CASE bytesToSend % D # 0
    <3>1. LastPacketSeqNum = bytesToSend \div D
      BY <1>1, <2>2 DEF LastPacketSeqNum
    <3>2. Large!LastPacketSeqNum = Large!Uint(bytesToSend \div D)
      BY <2>2 DEF Large!LastPacketSeqNum
    <3> QED
      BY <1>1, <1>2, <3>1, <3>2
  <2> QED
    BY <2>1, <2>2
<1>4. LastPacketSeqNum * D \in Nat /\ LastPacketSeqNum * D < bytesToSend
  BY <1>1 DEF LastPacketSeqNum
<1>5. Large!LastPacketSize = LastPacketSize
  <2>1. Large!Uint(LastPacketSeqNum * D) = LastPacketSeqNum * D
    BY <1>1, <1>2, <1>4
  <2>2. Large!Uint(bytesToSend - LastPacketSeqNum * D)
          = bytesToSend - LastPacketSeqNum * D
    BY <1>1, <1>2, <1>4
  <2> QED
    BY <1>3, <2>1, <2>2 DEF Large!LastPacketSize, LastPacketSize
<1>6. ASSUME NEW s \in SeqNums
      PROVE  /\ Large!ReadOffset(s) = s * D
             /\ Large!WriteOffset(s) = s * D
             /\ Large!DataSize(s) = DataSize(s)
             /\ Large!PlacesOf(s) = PlacesOfPacket[s]
  <2>1. s \in Nat /\ s <= LastPacketSeqNum
    BY <1>1 DEF SeqNums
  <2>2. s * D <= LastPacketSeqNum * D /\ s * D \in Nat
    BY <1>1, <2>1
  <2>3. Large!Uint(s * D) = s * D
    BY <1>1, <1>2, <1>4, <2>2
  <2>4. Large!ReadOffset(s) = s * D /\ Large!WriteOffset(s) = s * D
    BY <2>3 DEF Large!ReadOffset, Large!WriteOffset
  <2>5. Large!DataSize(s) = DataSize(s)
    BY <1>3, <1>5, <2>4
       DEF Large!DataSize, Large!SizeAsked, Large!Larger, Large!Smaller,
           DataSize, Larger, Smaller
  <2> QED
    BY <2>4, <2>5 DEF Large!PlacesOf, PlacesOfPacket
<1> QED
  BY <1>3, <1>6

\* The sum of the sizes of packets is BytesUpTo.
LEMMA SameSums ==
  ASSUME NumbersFit, NEW n \in 0..(LastPacketSeqNum + 1)
  PROVE  Large!SizesUpTo[n] = BytesUpTo(n)
<1>1. Proved!LargeFileAssumption /\ Proved!RequestOK /\ bytesToSend > 0
  BY AssumptionHolds, NonEmptyTransfer
<1>2. Proved!LastPacketSeqNum = LastPacketSeqNum
  <2>1. Proved!LastPacketSeqNum = Large!LastPacketSeqNum
    BY DEF Proved!LastPacketSeqNum, Large!LastPacketSeqNum, Proved!Uint,
           Large!Uint
  <2> QED
    BY <2>1, SameCut
<1>3. Proved!OffsetsFit
  <2>1. /\ LastPacketSeqNum * DATA_PACKET_DATA_SIZE < bytesToSend
        /\ LastPacketSeqNum * DATA_PACKET_DATA_SIZE \in Nat
    BY SenderAssumption, NonEmptyTransfer DEF LastPacketSeqNum
  <2> QED
    BY <1>2, <2>1, SenderAssumption DEF Proved!OffsetsFit
<1>4. Proved!SizesUpTo[n]
        = Proved!Smaller(n * DATA_PACKET_DATA_SIZE,
                         Proved!Smaller(bytesToSend, fileSize))
  BY <1>1, <1>2, <1>3, Proved!SumsOfSizes
<1>5. Large!SizesUpTo = Proved!SizesUpTo
  BY DEF Large!SizesUpTo, Large!DataSize, Large!SizeAsked, Large!ReadOffset,
         Large!LastPacketSize, Large!LastPacketSeqNum, Large!Uint,
         Large!Larger, Large!Smaller,
         Proved!SizesUpTo, Proved!DataSize, Proved!SizeAsked,
         Proved!ReadOffset, Proved!LastPacketSize, Proved!LastPacketSeqNum,
         Proved!Uint, Proved!Larger, Proved!Smaller
<1> QED
  BY <1>4, <1>5 DEF Proved!Smaller, BytesUpTo, Smaller

-----------------------------------------------------------------------------
\* What is buffered are the received packets ahead of the next expected one.
BufferedAhead ==
  /\ nextExpectedPacketSeqNum \in Nat
  /\ nextExpectedPacketSeqNum \notin DOMAIN file
  /\ \A s \in 0..(nextExpectedPacketSeqNum - 1) : s \in DOMAIN file
  /\ Buffered = {s \in DOMAIN file : s > nextExpectedPacketSeqNum}

LEMMA BufferedFacts == IInv => BufferedAhead
<1> SUFFICES ASSUME IInv PROVE BufferedAhead
  OBVIOUS
<1> DEFINE next == nextExpectedPacketSeqNum
<1>1. /\ next \in Nat
      /\ INIT_WINDOW_SIZE \in Nat /\ INIT_WINDOW_SIZE >= 1
      /\ \A i \in 1..INIT_WINDOW_SIZE : receiverWindow[i].seqNum = next + i - 1
      /\ receiverWindow[1].state = "NOT_RECEIVED"
      /\ DOMAIN file = (0..(next - 1)) \cup Buffered
  BY ReceiverAssumption
     DEF IInv, TypeOK, ReceiverTypeOK, ReceiverInv, ReceiverAligned,
         HeadNeverReceived, FileIsReceived
<1>2. ASSUME NEW s \in Buffered
      PROVE  s \in Nat /\ s > next
  <2>1. PICK i \in 1..INIT_WINDOW_SIZE :
          receiverWindow[i].state = "RECEIVED" /\ s = receiverWindow[i].seqNum
    BY <1>2 DEF Buffered
  <2>2. i # 1
    BY <1>1, <2>1
  <2> QED
    BY <1>1, <2>1, <2>2
<1> QED
  BY <1>1, <1>2 DEF BufferedAhead

LEMMA BufferedFactsPrimed == IInv' => BufferedAhead'
  BY BufferedFacts, PTL

\* The receiver expects no packet after the one that would follow the last.
LEMMA NextInFile == IInv => nextExpectedPacketSeqNum <= LastPacketSeqNum + 1
<1> SUFFICES ASSUME IInv
             PROVE  nextExpectedPacketSeqNum <= LastPacketSeqNum + 1
  OBVIOUS
<1>1. nextExpectedPacketSeqNum <= WindowEnd
  BY NextWithinWindow DEF IInv
<1>2. /\ WindowEnd <= LastPacketSeqNum + 1
      /\ WindowEnd \in Nat
      /\ nextExpectedPacketSeqNum \in Nat
  BY DEF IInv, TypeOK, SenderTypeOK, ReceiverTypeOK, SenderInv, WindowInFile,
         WindowEnd
<1> QED
  BY <1>1, <1>2, LastPacketSeqNumNat

LEMMA NextInFilePrimed ==
  IInv' => nextExpectedPacketSeqNum' <= LastPacketSeqNum + 1
<1>1. IInv' => (nextExpectedPacketSeqNum <= LastPacketSeqNum + 1)'
  BY NextInFile, PTL
<1> QED
  BY <1>1

\* There is something to send, so a packet received is one delivered.
LEMMA DeliveredLarge ==
  ASSUME NumbersFit, NEW s \in SeqNums, Large!ReceiveDataPacket(s)
  PROVE  Large!LargeNext
<1>1. bytesToSend > 0
  BY NonEmptyTransfer
<1>2. s \in 0..Large!LastPacketSeqNum
  BY SameCut DEF SeqNums
<1> QED
  BY <1>1, <1>2 DEF Large!LargeNext, Large!Deliver

\* As every chunk is right, every byte is where it belongs.
BytesRight ==
  FileBytes = [place \in UNION {PlacesOfPacket[s] : s \in DOMAIN file} |-> place]

LEMMA BytesFacts == IInv => BytesRight
  BY DEF IInv, FileBytes, BytesRight

LEMMA BytesFactsPrimed == IInv' => BytesRight'
  BY BytesFacts, PTL

\* Nothing is written at first.
LEMMA InitLarge == NumbersFit /\ Init => Large!LargeInit
<1> SUFFICES ASSUME NumbersFit, Init PROVE Large!LargeInit
  OBVIOUS
<1>1. /\ slideWindowLeftBoundSeqNum = 0
      /\ bytesSent = 0
      /\ nextExpectedPacketSeqNum = 0
      /\ lastPacketSeqNumReceived = FALSE
      /\ DOMAIN file = {}
      /\ receiverWindow = [i \in 1..INIT_WINDOW_SIZE |-> NewReceiverItem(i - 1)]
  BY DEF Init, SenderInit, ReceiverInit
<1>2. Buffered = {}
  BY <1>1 DEF Buffered, NewReceiverItem
<1>3. FileBytes = [place \in {} |-> 0]
  <2>1. UNION {PlacesOfPacket[s] : s \in DOMAIN file} = {}
    BY <1>1
  <2>2. FileBytes = [place \in {} |-> place]
    BY <2>1, InitIInv, BytesFacts DEF BytesRight
  <2> QED
    BY <2>2
<1>4. bytesToSend \in 0..bytesToSend
  BY SenderAssumption
<1> QED
  BY <1>1, <1>2, <1>3, <1>4 DEF Large!LargeInit

\* A step that moves neither window's bounds nor the buffer is invisible.
LEMMA Invisible ==
  ASSUME UNCHANGED <<slideWindowLeftBoundSeqNum, bytesSent>>,
         UNCHANGED receiverVars
  PROVE  UNCHANGED Large!largeVars
<1>1. Buffered' = Buffered /\ FileBytes' = FileBytes
  BY DEF receiverVars, Buffered, FileBytes
<1> QED
  BY <1>1 DEF receiverVars, Large!largeVars, Large!request, Large!senderSide,
              Large!receiverSide

\* An acknowledgement that slides the window counts the sizes of the packets
\* it slides past; any other is invisible.
LEMMA AckLarge ==
  ASSUME NumbersFit, IInv, NEW buffer \in ackWire, ReceiveAck(buffer)
  PROVE  Large!LargeNext \/ UNCHANGED Large!largeVars
<1> DEFINE left == slideWindowLeftBoundSeqNum
           c    == buffer.cumulativeSeqNum
<1>1. /\ left' = Larger(left, c)
      /\ bytesSent' = bytesSent + BytesUpTo(left') - BytesUpTo(left)
      /\ UNCHANGED receiverVars
  BY ReadsAck DEF ReceiveAck, AckArrived, IInv
<1>2. /\ left \in Nat /\ c \in Nat
      /\ c <= nextExpectedPacketSeqNum
      /\ nextExpectedPacketSeqNum \in Nat
      /\ left <= nextExpectedPacketSeqNum
      /\ LastPacketSeqNum \in Nat
      /\ bytesSent \in Nat
  BY LastPacketSeqNumNat
     DEF IInv, TypeOK, SenderTypeOK, ReceiverTypeOK, AcksInOrder,
         SenderBehindReceiver
<1>3. nextExpectedPacketSeqNum <= LastPacketSeqNum + 1
  BY NextInFile
<1>4. CASE c <= left
  <2>1. left' = left
    BY <1>1, <1>2, <1>4 DEF Larger
  <2>2. bytesSent' = bytesSent + BytesUpTo(left) - BytesUpTo(left)
    BY <1>1, <2>1
  <2>3. BytesUpTo(left) \in Nat
    BY <1>2, BytesUpToBounds
  <2>4. bytesSent' = bytesSent
    BY <1>2, <2>2, <2>3
  <2> QED
    BY <1>1, <2>1, <2>4, Invisible
<1>5. CASE c > left
  <2>1. left' = c
    BY <1>1, <1>2, <1>5 DEF Larger
  <2>2. /\ Large!SizesUpTo[c] = BytesUpTo(c)
        /\ Large!SizesUpTo[left] = BytesUpTo(left)
    BY <1>2, <1>3, SameSums
  <2>3. bytesSent' = bytesSent + Large!SizesUpTo[c] - Large!SizesUpTo[left]
    BY <1>1, <2>1, <2>2
  <2>4. UNCHANGED Large!receiverSide
    BY <1>1 DEF receiverVars, Buffered, FileBytes, Large!receiverSide
  <2>5. UNCHANGED Large!request
    BY DEF Large!request
  <2>6. Large!AckArrived(c)
    BY <1>5, <2>1, <2>3, <2>4, <2>5 DEF Large!AckArrived
  <2>7. c \in 0..nextExpectedPacketSeqNum
    BY <1>2
  <2> QED
    BY <2>6, <2>7 DEF Large!LargeNext, Large!SomeAckArrived
<1> QED
  BY <1>2, <1>4, <1>5

\* The packets the receiver slides past are those of LargeFile, as both are
\* told by which packets are in the file.
LEMMA SlideLarge ==
  ASSUME NumbersFit, BufferedAhead, BufferedAhead', DOMAIN file \subseteq Nat,
         NEW s \in Nat, s >= nextExpectedPacketSeqNum,
         DOMAIN file' = DOMAIN file \cup {s},
         nextExpectedPacketSeqNum' >= nextExpectedPacketSeqNum,
         nextExpectedPacketSeqNum'
           <= nextExpectedPacketSeqNum + INIT_WINDOW_SIZE,
         nextExpectedPacketSeqNum' <= UINT_MAX
  PROVE  Large!SlidePast(Buffered \cup {s})
<1> DEFINE next     == nextExpectedPacketSeqNum
           received == Buffered \cup {s}
<1>1. PICK next1 : next1 = next'
  OBVIOUS
<1>2. /\ next \in Nat /\ next1 \in Nat
      /\ next1 >= next /\ next1 <= next + INIT_WINDOW_SIZE
      /\ next1 <= UINT_MAX
      /\ INIT_WINDOW_SIZE \in Nat /\ UINT_MAX \in Nat
      /\ next \notin DOMAIN file /\ next1 \notin DOMAIN file'
      /\ \A i \in 0..(next1 - 1) : i \in DOMAIN file'
      /\ Buffered = {i \in DOMAIN file : i > next}
      /\ Buffered' = {i \in DOMAIN file' : i > next1}
  BY <1>1, ReceiverAssumption, SenderAssumption DEF BufferedAhead
<1> DEFINE n == next1 - next
<1>3. n \in 0..INIT_WINDOW_SIZE /\ next + n = next1
  BY <1>2
<1>4. ASSUME NEW i \in 0..(n - 1)
      PROVE  next + i \in received
  <2>1. next + i \in 0..(next1 - 1)
    BY <1>2, <1>3
  <2>2. next + i \in DOMAIN file \cup {s}
    BY <1>2, <2>1
  <2>3. CASE next + i \in DOMAIN file
    <3>1. next + i # next
      BY <1>2, <2>3
    <3>2. next + i > next
      BY <1>2, <1>3, <3>1
    <3> QED
      BY <1>2, <2>3, <3>2
  <2> QED
    BY <2>2, <2>3
<1>5. next + n \notin received
  BY <1>2, <1>3
<1>6. next' = Large!Uint(next + n)
  <2>1. next1 % (UINT_MAX + 1) = next1
    BY <1>2
  <2>2. Large!Uint(next + n) = next1
    BY <1>3, <2>1 DEF Large!Uint
  <2> QED
    BY <1>1, <2>2
<1>7. Buffered' = {i \in received : i > next + n}
  <2>1. ASSUME NEW i
        PROVE  i \in Buffered' <=> i \in received /\ i > next + n
    <3>1. i \in Buffered' <=> (i \in DOMAIN file \/ i = s) /\ i > next1
      BY <1>2
    <3>2. i \in received <=> (i \in DOMAIN file /\ i > next) \/ i = s
      BY <1>2
    <3>3. i \in DOMAIN file /\ i > next1 => i > next
      BY <1>2
    <3> QED
      BY <1>3, <3>1, <3>2, <3>3
  <2> QED
    BY <2>1
<1> QED
  BY <1>3, <1>4, <1>5, <1>6, <1>7 DEF Large!SlidePast

\* A packet in the buffer that was missing fills its places with its bytes;
\* one that is there already, or out of the buffer, fills none.
LEMMA WriteLarge ==
  ASSUME NumbersFit, NEW s \in SeqNums,
         BytesRight, BytesRight', DOMAIN file' = DOMAIN file \cup {s}
  PROVE  Large!WritePacket(s)
<1>1. /\ Large!ReadOffset(s) = s * DATA_PACKET_DATA_SIZE
      /\ Large!WriteOffset(s) = s * DATA_PACKET_DATA_SIZE
      /\ Large!PlacesOf(s) = PlacesOfPacket[s]
  BY SameCut
<1> DEFINE offset == s * DATA_PACKET_DATA_SIZE
           places == UNION {PlacesOfPacket[i] : i \in DOMAIN file}
<1>2. FileBytes = [place \in places |-> place]
  BY DEF BytesRight
<1>3. FileBytes' = [place \in places \cup PlacesOfPacket[s] |-> place]
  <2>1. UNION {PlacesOfPacket[i] : i \in DOMAIN file'}
          = places \cup PlacesOfPacket[s]
    OBVIOUS
  <2> QED
    BY <2>1 DEF BytesRight
<1>4. \A place \in PlacesOfPacket[s] : offset + (place - offset) = place
  <2>1. PlacesOfPacket[s] = offset..(offset + DataSize(s) - 1)
    BY DEF PlacesOfPacket
  <2>2. offset \in Nat
    BY SenderAssumption, LastPacketSeqNumNat DEF SeqNums
  <2> QED
    BY <2>1, <2>2
<1> HIDE DEF places, offset
<1>5. FileBytes' = [place \in DOMAIN FileBytes \cup PlacesOfPacket[s] |->
                      IF place \in PlacesOfPacket[s]
                      THEN offset + (place - offset)
                      ELSE FileBytes[place]]
  BY <1>2, <1>3, <1>4
<1> QED
  BY <1>1, <1>5 DEF Large!WritePacket, offset

\* What the receiver does with a datagram is what LargeFile does with its
\* packet.
LEMMA ReceiveLarge ==
  ASSUME NumbersFit, IInv, IInv',
         NEW buffer \in dataWire, ReceiveDataReplyAck(buffer)
  PROVE  Large!LargeNext
<1> DEFINE dp   == ReadBufferDataPacket(buffer)
           s    == buffer.seqNum
           next == nextExpectedPacketSeqNum
<1>1. /\ buffer.tag \in {"re", "fi"}
      /\ s \in SeqNums
      /\ buffer.data \in Payload
      /\ buffer.tag = "fi" <=> s = LastPacketSeqNum
  BY DEF IInv, TypeOK, DataPacketsInOrder
<1>2. /\ dp.seqNum = s /\ dp.data = buffer.data
      /\ dp.type = DATA_PACKET_TYPE_FINISH <=> s = LastPacketSeqNum
  BY <1>1, ReadsData DEF IInv
<1>3. /\ ReceiveDataPacket(dp)
      /\ UNCHANGED senderVars
  BY DEF ReceiveDataReplyAck
<1> HIDE DEF dp
<1>4. /\ LastPacketSeqNum \in Nat
      /\ LastPacketSeqNum + 1 + INIT_WINDOW_SIZE <= UINT_MAX
      /\ INIT_WINDOW_SIZE \in Nat /\ INIT_WINDOW_SIZE >= 1
      /\ UINT_MAX \in Nat
      /\ s \in Nat /\ s <= LastPacketSeqNum
      /\ next \in Nat
      /\ DOMAIN file \subseteq Nat
      /\ lastPacketSeqNumReceived \in BOOLEAN
      /\ ReceiverTypeOK /\ ReceiverInv
  BY <1>1, SenderAssumption, ReceiverAssumption, LastPacketSeqNumNat
     DEF NumbersFit, SeqNums, IInv, TypeOK, ReceiverTypeOK
<1>5. BufferedAhead /\ BufferedAhead' /\ BytesRight /\ BytesRight'
  BY BufferedFacts, BufferedFactsPrimed, BytesFacts, BytesFactsPrimed
<1>6. next <= LastPacketSeqNum + 1 /\ next' <= LastPacketSeqNum + 1
  BY NextInFile, NextInFilePrimed
<1>7. lastPacketSeqNumReceived' =
        (lastPacketSeqNumReceived \/ s = Large!LastPacketSeqNum)
  <2>1. Large!LastPacketSeqNum = LastPacketSeqNum
    BY SameCut
  <2>2. NoteLastPacket(dp)
    BY <1>3 DEF ReceiveDataPacket
  <2>3. CASE s = LastPacketSeqNum
    <3>1. lastPacketSeqNumReceived' = TRUE
      BY <1>2, <2>2, <2>3 DEF NoteLastPacket
    <3> QED
      BY <2>1, <2>3, <3>1
  <2>4. CASE s # LastPacketSeqNum
    <3>1. lastPacketSeqNumReceived' = lastPacketSeqNumReceived
      BY <1>2, <2>2, <2>4 DEF NoteLastPacket
    <3> QED
      BY <1>4, <2>1, <2>4, <3>1, Zenon
  <2> QED
    BY <2>3, <2>4
<1>8. UNCHANGED <<Large!request, Large!senderSide>>
  BY <1>3 DEF senderVars, Large!request, Large!senderSide
<1>9. Large!InBuffer(s) <=> InBuffer(s)
  <2>1. next + INIT_WINDOW_SIZE \in 0..UINT_MAX
    BY <1>4, <1>6
  <2>2. Large!Uint(next + INIT_WINDOW_SIZE) = next + INIT_WINDOW_SIZE
    BY <1>4, <2>1 DEF Large!Uint
  <2> QED
    BY <2>2 DEF Large!InBuffer, InBuffer
<1>10. CASE ~InBuffer(s)
  <2>1. UNCHANGED <<receiverWindow, next, file>>
    BY <1>2, <1>3, <1>10 DEF ReceiveDataPacket
  <2>2. UNCHANGED <<next, Buffered, FileBytes>>
    BY <2>1 DEF Buffered, FileBytes
  <2>3. Large!ReceiveDataPacket(s)
    BY <1>7, <1>8, <1>9, <1>10, <2>2 DEF Large!ReceiveDataPacket
  <2> QED
    BY <2>3, DeliveredLarge, <1>1
<1>11. CASE InBuffer(s)
  <2>1. BufferPacket(dp)
    BY <1>2, <1>3, <1>11 DEF ReceiveDataPacket
  <2>2. /\ next' >= next
        /\ \/ s \in DOMAIN file /\ UNCHANGED file
           \/ s \notin DOMAIN file /\ WriteAt(s, dp.data)
    BY <1>1, <1>2, <1>4, <1>11, <2>1, BufferPacketInv
  <2>3. DOMAIN file' = DOMAIN file \cup {s}
    BY <2>2 DEF WriteAt
  <2>4. next' <= next + INIT_WINDOW_SIZE
    <3>1. PICK n \in 0..INIT_WINDOW_SIZE : next' = next + n
      BY <2>1 DEF BufferPacket, SlidePast
    <3> QED
      BY <1>4, <3>1
  <2>5. s >= next
    BY <1>11 DEF InBuffer
  <2>6. next' <= UINT_MAX
    <3>1. next' \in Nat
      BY <1>5 DEF BufferedAhead
    <3> QED
      BY <1>4, <1>6, <3>1
  <2>7. Large!SlidePast(Buffered \cup {s})
    BY <1>4, <1>5, <2>2, <2>3, <2>4, <2>5, <2>6, SlideLarge
  <2>8. IF s \in Buffered THEN UNCHANGED FileBytes ELSE Large!WritePacket(s)
    <3>1. CASE s \in Buffered
      <4>1. s \in DOMAIN file
        BY <1>5, <3>1 DEF BufferedAhead
      <4>2. UNCHANGED file
        BY <2>2, <4>1
      <4> QED
        BY <3>1, <4>2 DEF FileBytes
    <3>2. CASE s \notin Buffered
      BY <1>1, <1>5, <2>3, <3>2, WriteLarge
    <3> QED
      BY <3>1, <3>2
  <2>9. Large!ReceiveDataPacket(s)
    BY <1>7, <1>8, <1>9, <1>11, <2>7, <2>8 DEF Large!ReceiveDataPacket
  <2> QED
    BY <2>9, DeliveredLarge, <1>1
<1> QED
  BY <1>10, <1>11

\* Every step of the protocol is a step of LargeFile or invisible to it.
LEMMA StepLarge ==
  NumbersFit /\ IInv /\ IInv' /\ [Next]_vars =>
    [Large!LargeNext]_(Large!largeVars)
<1> SUFFICES ASSUME NumbersFit, IInv, IInv', [Next]_vars
             PROVE  Large!LargeNext \/ UNCHANGED Large!largeVars
  OBVIOUS
<1>1. CASE /\ UNCHANGED <<slideWindowLeftBoundSeqNum, bytesSent>>
           /\ UNCHANGED receiverVars
  BY <1>1, Invisible
<1>2. CASE \E buffer \in ackWire : ReceiveAck(buffer)
  BY <1>2, AckLarge
<1>3. CASE \E buffer \in dataWire : ReceiveDataReplyAck(buffer)
  BY <1>3, ReceiveLarge
<1>4. CASE SendDataCheck
  BY <1>1, <1>4 DEF SendDataCheck, senderVars
<1>5. CASE SendDataPrepare
  BY <1>1, <1>5 DEF SendDataPrepare, PrepareDataPacketsToSend
<1>6. CASE \E dp \in prepared : SendDataSendTo(dp)
  BY <1>1, <1>6 DEF SendDataSendTo, senderVars
<1>7. CASE \E expired \in SUBSET OutstandingPositions : CheckTimeoutOf(expired)
  BY <1>1, <1>7 DEF CheckTimeoutOf, CheckTimeout
<1>8. CASE UNCHANGED vars
  BY <1>1, <1>8 DEF vars, senderVars
<1> QED
  BY <1>2, <1>3, <1>4, <1>5, <1>6, <1>7, <1>8 DEF Next

\* If the numbers fit, the windows over a link do to the file what LargeFile
\* says, byte by byte: what is proved of LargeFile for a file of this size
\* holds of the protocol.
THEOREM FileImplements == NumbersFit => (Spec => ImplementsLargeFile)
<1>1. NumbersFit /\ Init => Large!LargeInit
  BY InitLarge
<1>2. NumbersFit /\ IInv /\ IInv' /\ [Next]_vars =>
        [Large!LargeNext]_(Large!largeVars)
  BY StepLarge
<1>3. NumbersFit => []NumbersFit
  BY DEF NumbersFit
<1> QED
  BY <1>1, <1>2, <1>3, Invariance, PTL
     DEF Spec, ImplementsLargeFile, Large!LargeSpec

-----------------------------------------------------------------------------
(***************************************************************************)
(* The receiving file is a copy, byte by byte.                             *)
(***************************************************************************)

\* What the packets carry together.
BytesThere == Smaller(bytesToSend, fileSize)

\* What a quotient is.
LEMMA QuotientFacts ==
  ASSUME NEW a \in Nat, NEW d \in Nat \ {0}
  PROVE  /\ a \div d \in Nat
         /\ a % d \in 0..(d - 1)
         /\ a = d * (a \div d) + (a % d)
  OBVIOUS

\* The bytes of the packets are consecutive, and the last of them is the last
\* byte asked for, or the last the file has.
LEMMA PlacesCover ==
  UNION {PlacesOfPacket[s] : s \in SeqNums} = 0..(BytesThere - 1)
<1> DEFINE D     == DATA_PACKET_DATA_SIZE
           total == BytesThere
<1>1. /\ D \in Nat \ {0}
      /\ total \in Nat /\ total <= bytesToSend
      /\ bytesToSend \in Nat /\ bytesToSend > 0
      /\ LastPacketSeqNum \in Nat
      /\ bytesToSend <= (LastPacketSeqNum + 1) * D
  BY SenderAssumption, NonEmptyTransfer, LastPacketSeqNumNat
     DEF BytesThere, Smaller
<1>2. \A n \in Nat : BytesUpTo(n) = IF n * D <= total THEN n * D ELSE total
  BY DEF BytesUpTo, BytesThere, Smaller
<1>3. ASSUME NEW s \in SeqNums
      PROVE  /\ s \in Nat /\ s * D \in Nat
             /\ BytesUpTo(s + 1) = BytesUpTo(s) + DataSize(s)
             /\ BytesUpTo(s) \in Nat
             /\ BytesUpTo(s + 1) \in Nat
             /\ DataSize(s) \in Int
             /\ PlacesOfPacket[s] = (s * D)..(s * D + DataSize(s) - 1)
  <2>1. s \in Nat /\ s * D \in Nat
    BY <1>1 DEF SeqNums
  <2>2. s + 1 \in Nat /\ BytesUpTo(s + 1) = BytesUpTo(s) + DataSize(s)
    BY <1>1, <2>1, BytesUpToStep
  <2>3. BytesUpTo(s) \in Nat /\ BytesUpTo(s + 1) \in Nat
    BY <2>1, <2>2, BytesUpToBounds
  <2>4. DataSize(s) \in Int
    BY <2>1, SenderAssumption, LastPacketSeqNumNat
       DEF DataSize, LastPacketSize, Larger, Smaller
  <2> QED
    BY <2>1, <2>2, <2>3, <2>4 DEF PlacesOfPacket
<1> HIDE DEF total, D
<1>4. ASSUME NEW s \in SeqNums, NEW b \in PlacesOfPacket[s]
      PROVE  b \in 0..(total - 1)
  <2>1. /\ b \in Int /\ s * D <= b /\ b <= s * D + DataSize(s) - 1
        /\ s * D \in Nat
    BY <1>3
  <2>2. BytesUpTo(s + 1) <= total
    <3>1. s + 1 \in Nat
      BY <1>3
    <3>2. (s + 1) * D \in Nat
      BY <1>1, <3>1
    <3>3. BytesUpTo(s + 1)
            = IF (s + 1) * D <= total THEN (s + 1) * D ELSE total
      BY <1>2, <3>1
    <3> QED
      BY <1>1, <3>2, <3>3
  <2>3. s * D < total
    <3>1. SUFFICES ASSUME s * D >= total PROVE FALSE
      BY <1>1, <2>1
    <3>2. BytesUpTo(s) = total
      BY <1>1, <1>2, <1>3, <2>1, <3>1
    <3>3. DataSize(s) <= 0
      BY <1>1, <1>3, <2>2, <3>2
    <3> QED
      BY <1>3, <2>1, <3>3
  <2>4. BytesUpTo(s) = s * D
    BY <1>1, <1>2, <1>3, <2>1, <2>3
  <2>5. b <= BytesUpTo(s + 1) - 1
    BY <1>3, <2>1, <2>4
  <2>6. BytesUpTo(s + 1) \in Nat
    BY <1>3
  <2>7. b >= 0
    BY <2>1
  <2> QED
    BY <1>1, <2>1, <2>2, <2>5, <2>6, <2>7
<1>5. ASSUME NEW b \in 0..(total - 1)
      PROVE  \E s \in SeqNums : b \in PlacesOfPacket[s]
  <2>1. b \in Nat /\ b < total
    BY <1>1
  <2>2. PICK q \in Nat : q * D <= b /\ b < q * D + D
    <3>1. /\ b \div D \in Nat
          /\ b % D \in 0..(D - 1)
          /\ b = D * (b \div D) + (b % D)
      BY <1>1, <2>1, QuotientFacts, Zenon
    <3>2. PICK quotient, rest : quotient = b \div D /\ rest = b % D
      OBVIOUS
    <3>3. /\ quotient \in Nat /\ rest \in 0..(D - 1)
          /\ b = D * quotient + rest
      BY <3>1, <3>2
    <3>4. quotient * D = D * quotient
      BY <1>1, <3>3
    <3>5. quotient * D <= b /\ b < quotient * D + D
      BY <1>1, <2>1, <3>3, <3>4
    <3> QED
      BY <3>3, <3>5
  <2>3. q <= LastPacketSeqNum
    <3>1. SUFFICES ASSUME q >= LastPacketSeqNum + 1 PROVE FALSE
      BY <1>1, <2>2
    <3>2. (LastPacketSeqNum + 1) * D <= q * D
      BY <1>1, <2>2, <3>1
    <3>3. /\ (LastPacketSeqNum + 1) * D \in Nat
          /\ q * D \in Nat
      BY <1>1, <2>2
    <3> QED
      BY <1>1, <2>1, <2>2, <3>2, <3>3 DEF D
  <2>4. q \in SeqNums
    BY <1>1, <2>3 DEF SeqNums
  <2>5. q * D \in Nat /\ (q + 1) * D = q * D + D
    BY <1>1, <2>2
  <2>6. BytesUpTo(q) = q * D
    BY <1>1, <1>2, <2>1, <2>2, <2>5
  <2>7. BytesUpTo(q + 1) > b
    BY <1>1, <1>2, <2>1, <2>2, <2>5
  <2>8. b <= q * D + DataSize(q) - 1
    BY <1>3, <2>1, <2>4, <2>5, <2>6, <2>7
  <2>9. b \in PlacesOfPacket[q]
    BY <1>3, <2>1, <2>2, <2>4, <2>5, <2>8
  <2> QED
    BY <2>4, <2>9
<1> QED
  BY <1>4, <1>5 DEF total

\* A finished receiver has all packets.
LEMMA FinishedHasAll == IInv /\ ReceiverFinished => DOMAIN file = SeqNums
<1> SUFFICES ASSUME IInv, ReceiverFinished PROVE DOMAIN file = SeqNums
  OBVIOUS
<1>1. nextExpectedPacketSeqNum = LastPacketSeqNum + 1
  BY DEF IInv, LastPacketKnown, ReceiverFinished
<1>2. SeqNums \subseteq DOMAIN file
  BY <1>1, LastPacketSeqNumNat DEF IInv, ReceiverInv, FileIsReceived, SeqNums
<1>3. DOMAIN file \subseteq SeqNums
  BY FileFacts DEF FileIntact
<1> QED
  BY <1>2, <1>3

\* The first n bytes of the file sent, each at its place.
CopyOf(n) == [place \in 0..(n - 1) |-> place]

\* What is in the file of a side that is finished.
CopyMade ==
  /\ ReceiverFinished => FileBytes = CopyOf(BytesThere)
  /\ SenderFinished => FileBytes = CopyOf(bytesToSend)

\* That follows from the invariant.
LEMMA CopyFacts == IInv => CopyMade
<1> SUFFICES ASSUME IInv
             PROVE  /\ ReceiverFinished => FileBytes = CopyOf(BytesThere)
                    /\ SenderFinished => FileBytes = CopyOf(bytesToSend)
  BY DEF CopyMade
<1>1. ASSUME DOMAIN file = SeqNums
      PROVE  FileBytes = CopyOf(BytesThere)
  <2>1. BytesRight
    BY BytesFacts
  <2>2. UNION {PlacesOfPacket[s] : s \in DOMAIN file} = 0..(BytesThere - 1)
    BY <1>1, PlacesCover
  <2> QED
    BY <2>1, <2>2, Zenon DEF BytesRight, CopyOf
<1>2. ASSUME ReceiverFinished
      PROVE  FileBytes = CopyOf(BytesThere)
  BY <1>1, <1>2, FinishedHasAll
<1>3. ASSUME SenderFinished
      PROVE  FileBytes = CopyOf(bytesToSend)
  <2>1. DOMAIN file = SeqNums
    BY <1>3, FinishedFacts DEF FinishedMeansDelivered
  <2>2. /\ bytesToSend = BytesUpTo(slideWindowLeftBoundSeqNum)
        /\ slideWindowLeftBoundSeqNum \in Nat
    BY <1>3 DEF IInv, SenderInv, TypeOK, SenderTypeOK, SenderFinished
  <2>3. BytesThere = bytesToSend
    BY <2>2, SenderAssumption DEF BytesUpTo, BytesThere, Smaller
  <2> QED
    BY <1>1, <2>1, <2>3
<1> QED
  BY <1>2, <1>3

\* A finished receiver has, byte by byte, what was asked for as far as the
\* file has it; and when the sender is finished, too, that is all of it.
THEOREM ExactCopy == Spec => []CopyMade
  BY Invariance, CopyFacts, PTL

=============================================================================
