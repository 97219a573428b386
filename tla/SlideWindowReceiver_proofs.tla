---------------------- MODULE SlideWindowReceiver_proofs ----------------------
(***************************************************************************)
(* Proofs about the receiver's window.                                     *)
(***************************************************************************)
EXTENDS SlideWindowReceiver, TLAPS

BufferItem == [seqNum : Nat, state : {"RECEIVED", "NOT_RECEIVED"}]

\* The buffer starts aligned and empty, like the file.
LEMMA ReceiverInitInv ==
  ASSUME ReceiverInit
  PROVE  /\ ReceiverTypeOK /\ ReceiverInv
         /\ DOMAIN file = {}
<1>1. INIT_WINDOW_SIZE \in Nat /\ INIT_WINDOW_SIZE >= 1
  BY ReceiverAssumption
<1>2. /\ nextExpectedPacketSeqNum = 0
      /\ lastPacketSeqNumReceived = FALSE
      /\ lastPacketSeqNum = 0
      /\ DOMAIN file = {}
  BY DEF ReceiverInit
<1>3. receiverWindow \in [1..INIT_WINDOW_SIZE -> BufferItem]
  BY <1>1 DEF ReceiverInit, NewReceiverItem, BufferItem
<1>4. \A i \in 1..INIT_WINDOW_SIZE :
        /\ receiverWindow[i].seqNum = i - 1
        /\ receiverWindow[i].state = "NOT_RECEIVED"
  BY <1>1 DEF ReceiverInit, NewReceiverItem
<1>5. ReceiverTypeOK
  BY <1>2, <1>3 DEF ReceiverTypeOK, BufferItem
<1>6. ReceiverAligned /\ HeadNeverReceived
  BY <1>1, <1>2, <1>4 DEF ReceiverAligned, HeadNeverReceived
<1>7. FileIsReceived
  <2>1. Buffered = {}
    BY <1>4 DEF Buffered
  <2> QED
    BY <1>2, <2>1 DEF FileIsReceived
<1> QED
  BY <1>2, <1>5, <1>6, <1>7 DEF ReceiverInv

-----------------------------------------------------------------------------
\* Marking the item of an arriving packet, then sliding past the received
\* items: the buffer stays aligned and its first item is missing, and the
\* packets slid past or buffered are those of before and the arriving one.
LEMMA BufferPacketInv ==
  ASSUME ReceiverTypeOK, ReceiverInv,
         NEW dp, dp.seqNum \in Nat, dp.data \in Payload,
         InBuffer(dp.seqNum), BufferPacket(dp)
  PROVE  /\ receiverWindow' \in [1..INIT_WINDOW_SIZE -> BufferItem]
         /\ nextExpectedPacketSeqNum' \in Nat
         /\ nextExpectedPacketSeqNum' >= nextExpectedPacketSeqNum
         /\ ReceiverInv'
         /\ \/ /\ dp.seqNum \in DOMAIN file
               /\ UNCHANGED file
            \/ /\ dp.seqNum \notin DOMAIN file
               /\ WriteAt(dp.seqNum, dp.data)
<1> DEFINE next     == nextExpectedPacketSeqNum
           position == dp.seqNum - next + 1
           window   == [receiverWindow EXCEPT ![position].state = "RECEIVED"]
<1>1. /\ INIT_WINDOW_SIZE \in Nat /\ INIT_WINDOW_SIZE >= 1
      /\ next \in Nat
      /\ receiverWindow \in [1..INIT_WINDOW_SIZE -> BufferItem]
      /\ position \in 1..INIT_WINDOW_SIZE
      /\ dp.seqNum = next + position - 1
  BY ReceiverAssumption DEF ReceiverTypeOK, BufferItem, InBuffer
<1>2. \A i \in 1..INIT_WINDOW_SIZE : receiverWindow[i].seqNum = next + i - 1
  BY DEF ReceiverInv, ReceiverAligned
<1>3. PICK n \in 0..INIT_WINDOW_SIZE : SlidePast(window, n)
  BY DEF BufferPacket
<1>4. /\ window \in [1..INIT_WINDOW_SIZE -> BufferItem]
      /\ \A i \in 1..INIT_WINDOW_SIZE :
           /\ window[i].seqNum = next + i - 1
           /\ window[i].state = "RECEIVED" <=>
                receiverWindow[i].state = "RECEIVED" \/ i = position
  BY <1>1, <1>2 DEF BufferItem
<1> HIDE DEF window
<1>5. PICK next1 : next1 = next'
  OBVIOUS
<1>6. next1 = next + n /\ next1 \in Nat
  BY <1>1, <1>3, <1>5 DEF SlidePast
<1>7. /\ \A i \in 1..n : window[i].state = "RECEIVED"
      /\ n < INIT_WINDOW_SIZE => window[n + 1].state = "NOT_RECEIVED"
      /\ receiverWindow' =
           [i \in 1..INIT_WINDOW_SIZE |->
              IF i + n <= INIT_WINDOW_SIZE THEN window[i + n]
              ELSE NewReceiverItem(next + n + i - 1)]
  BY <1>3 DEF SlidePast
<1>8. ASSUME NEW i \in 1..INIT_WINDOW_SIZE
      PROVE  /\ receiverWindow'[i] \in BufferItem
             /\ receiverWindow'[i].seqNum = next1 + i - 1
             /\ i + n <= INIT_WINDOW_SIZE => receiverWindow'[i] = window[i + n]
             /\ ~(i + n <= INIT_WINDOW_SIZE) =>
                  receiverWindow'[i].state = "NOT_RECEIVED"
  <2>1. CASE i + n <= INIT_WINDOW_SIZE
    <3>1. i + n \in 1..INIT_WINDOW_SIZE /\ next + (i + n) - 1 = next1 + i - 1
      BY <1>1, <1>6, <2>1
    <3>2. receiverWindow'[i] = window[i + n]
      BY <1>7, <2>1
    <3> QED
      BY <1>4, <2>1, <3>1, <3>2
  <2>2. CASE ~(i + n <= INIT_WINDOW_SIZE)
    <3>1. receiverWindow'[i] = NewReceiverItem(next + n + i - 1)
      BY <1>7, <2>2
    <3>2. next + n + i - 1 \in Nat /\ next + n + i - 1 = next1 + i - 1
      BY <1>1, <1>6
    <3> QED
      BY <2>2, <3>1, <3>2 DEF NewReceiverItem, BufferItem
  <2> QED
    BY <2>1, <2>2
<1>9. receiverWindow' \in [1..INIT_WINDOW_SIZE -> BufferItem]
  BY <1>7, <1>8
<1>10. ReceiverAligned'
  BY <1>5, <1>8 DEF ReceiverAligned
<1>11. HeadNeverReceived'
  <2>1. CASE n < INIT_WINDOW_SIZE
    BY <1>1, <1>7, <1>8, <2>1 DEF HeadNeverReceived
  <2>2. CASE ~(n < INIT_WINDOW_SIZE)
    BY <1>1, <1>8, <2>2 DEF HeadNeverReceived
  <2> QED
    BY <2>1, <2>2
\* What is received afterwards is what was received before, and dp.
<1>12. (0..(next1 - 1)) \cup Buffered'
         = (0..(next - 1)) \cup Buffered \cup {dp.seqNum}
  <2>1. ASSUME NEW s \in (0..(next1 - 1)) \cup Buffered'
        PROVE  s \in (0..(next - 1)) \cup Buffered \cup {dp.seqNum}
    <3>1. CASE s \in 0..(next - 1)
      BY <3>1
    <3>2. CASE s \in next..(next1 - 1)
      <4>1. s - next + 1 \in 1..n
        BY <1>1, <1>6, <3>2
      <4>2. /\ s - next + 1 \in 1..INIT_WINDOW_SIZE
            /\ window[s - next + 1].state = "RECEIVED"
            /\ next + (s - next + 1) - 1 = s
        BY <1>1, <1>7, <3>2, <4>1
      <4> QED
        BY <1>1, <1>2, <1>4, <4>2 DEF Buffered
    <3>3. CASE s \in Buffered'
      <4>1. PICK i \in 1..INIT_WINDOW_SIZE :
              /\ receiverWindow'[i].state = "RECEIVED"
              /\ s = receiverWindow'[i].seqNum
        BY <3>3 DEF Buffered
      <4>2. /\ i + n \in 1..INIT_WINDOW_SIZE
            /\ window[i + n].state = "RECEIVED"
            /\ window[i + n].seqNum = s
        BY <1>1, <1>8, <4>1
      <4>3. CASE i + n = position
        BY <1>1, <1>4, <4>2, <4>3
      <4>4. CASE i + n # position
        BY <1>2, <1>4, <4>2, <4>4 DEF Buffered
      <4> QED
        BY <4>3, <4>4
    <3> QED
      BY <1>1, <1>6, <2>1, <3>1, <3>2, <3>3
  <2>2. ASSUME NEW j \in 1..INIT_WINDOW_SIZE, window[j].state = "RECEIVED"
        PROVE  next + j - 1 \in (0..(next1 - 1)) \cup Buffered'
    <3>1. CASE j <= n
      BY <1>1, <1>6, <3>1
    <3>2. CASE ~(j <= n)
      <4>1. /\ j - n \in 1..INIT_WINDOW_SIZE
            /\ (j - n) + n = j
            /\ next1 + (j - n) - 1 = next + j - 1
        BY <1>1, <1>6, <3>2
      <4>2. /\ receiverWindow'[j - n].state = "RECEIVED"
            /\ receiverWindow'[j - n].seqNum = next + j - 1
        BY <1>8, <2>2, <4>1
      <4> QED
        BY <4>1, <4>2 DEF Buffered
    <3> QED
      BY <3>1, <3>2
  <2>3. (0..(next - 1)) \subseteq 0..(next1 - 1)
    BY <1>1, <1>6
  <2>4. Buffered \subseteq (0..(next1 - 1)) \cup Buffered'
    BY <1>2, <1>4, <2>2 DEF Buffered
  <2>5. dp.seqNum \in (0..(next1 - 1)) \cup Buffered'
    BY <1>1, <1>4, <2>2
  <2> QED
    BY <2>1, <2>3, <2>4, <2>5
\* The packet is written unless it is in the file already.
<1>13. \/ /\ dp.seqNum \in DOMAIN file
          /\ UNCHANGED file
       \/ /\ dp.seqNum \notin DOMAIN file
          /\ WriteAt(dp.seqNum, dp.data)
  <2>1. receiverWindow[position].seqNum = dp.seqNum
    BY <1>1, <1>2
  <2>2. CASE receiverWindow[position].state = "RECEIVED"
    <3>1. dp.seqNum \in DOMAIN file
      BY <1>1, <2>1, <2>2 DEF ReceiverInv, FileIsReceived, Buffered
    <3> QED
      BY <2>2, <3>1 DEF BufferPacket
  <2>3. CASE receiverWindow[position].state = "NOT_RECEIVED"
    <3>1. WriteAt(dp.seqNum, dp.data)
      BY <2>1, <2>3 DEF BufferPacket
    <3>2. dp.seqNum \notin 0..(next - 1)
      BY <1>1
    <3>3. dp.seqNum \notin Buffered
      <4>1. ASSUME NEW i \in 1..INIT_WINDOW_SIZE,
                   receiverWindow[i].seqNum = dp.seqNum
            PROVE  i = position
        <5>1. next + i - 1 = next + position - 1
          BY <1>1, <1>2, <4>1
        <5> QED
          BY <1>1, <5>1
      <4> QED
        BY <2>3, <4>1 DEF Buffered
    <3> QED
      BY <3>1, <3>2, <3>3 DEF ReceiverInv, FileIsReceived
  <2> QED
    BY <1>1, <2>2, <2>3 DEF BufferItem
<1>14. FileIsReceived'
  <2>1. DOMAIN file' = DOMAIN file \cup {dp.seqNum}
    BY <1>13 DEF WriteAt
  <2> QED
    BY <1>5, <1>12, <2>1 DEF ReceiverInv, FileIsReceived
<1> QED
  BY <1>1, <1>5, <1>6, <1>9, <1>10, <1>11, <1>13, <1>14 DEF ReceiverInv

\* What receiveDataPacket does to the window and the file, and what it
\* answers: the next packet it expects is never one it has.
LEMMA ReceiveInv ==
  ASSUME ReceiverTypeOK, ReceiverInv,
         NEW dp, dp.seqNum \in Nat, dp.data \in Payload,
         ReceiveDataPacket(dp)
  PROVE  /\ ReceiverTypeOK' /\ ReceiverInv'
         /\ nextExpectedPacketSeqNum' >= nextExpectedPacketSeqNum
         /\ nextExpectedPacketSeqNum' \notin DOMAIN file'
         /\ \/ UNCHANGED file
            \/ /\ dp.seqNum \notin DOMAIN file
               /\ WriteAt(dp.seqNum, dp.data)
         /\ AckFor(dp).cumulativeSeqNum = nextExpectedPacketSeqNum'
         /\ AckFor(dp).selectiveSeqNum \in Nat
         /\ AckFor(dp).selectiveSeqNum # AckFor(dp).cumulativeSeqNum =>
              /\ AckFor(dp).selectiveSeqNum = dp.seqNum
              /\ dp.seqNum \in DOMAIN file'
<1>1. /\ receiverWindow' \in [1..INIT_WINDOW_SIZE -> BufferItem]
      /\ nextExpectedPacketSeqNum' \in Nat
      /\ nextExpectedPacketSeqNum' >= nextExpectedPacketSeqNum
      /\ ReceiverInv'
      /\ \/ UNCHANGED file
         \/ /\ dp.seqNum \notin DOMAIN file
            /\ WriteAt(dp.seqNum, dp.data)
      /\ InBuffer(dp.seqNum) => dp.seqNum \in DOMAIN file'
  <2>1. CASE InBuffer(dp.seqNum)
    <3>1. BufferPacket(dp)
      BY <2>1 DEF ReceiveDataPacket
    <3>2. /\ receiverWindow' \in [1..INIT_WINDOW_SIZE -> BufferItem]
          /\ nextExpectedPacketSeqNum' \in Nat
          /\ nextExpectedPacketSeqNum' >= nextExpectedPacketSeqNum
          /\ ReceiverInv'
          /\ \/ /\ dp.seqNum \in DOMAIN file
                /\ UNCHANGED file
             \/ /\ dp.seqNum \notin DOMAIN file
                /\ WriteAt(dp.seqNum, dp.data)
      BY <2>1, <3>1, BufferPacketInv
    <3>3. dp.seqNum \in DOMAIN file'
      BY <3>2 DEF WriteAt
    <3> QED
      BY <3>2, <3>3
  <2>2. CASE ~InBuffer(dp.seqNum)
    <3>1. UNCHANGED <<receiverWindow, nextExpectedPacketSeqNum, file>>
      BY <2>2 DEF ReceiveDataPacket
    <3>2. ReceiverInv'
      BY <3>1
         DEF ReceiverInv, ReceiverAligned, HeadNeverReceived, FileIsReceived,
             Buffered
    <3> QED
      BY <2>2, <3>1, <3>2 DEF ReceiverTypeOK, BufferItem
  <2> QED
    BY <2>1, <2>2
<1>2. lastPacketSeqNumReceived' \in BOOLEAN /\ lastPacketSeqNum' \in Nat
  BY DEF ReceiveDataPacket, NoteLastPacket, ReceiverTypeOK
<1>3. /\ DOMAIN file' \subseteq Nat
      /\ \A s \in DOMAIN file' : file'[s] \in Payload
  <2>1. CASE UNCHANGED file
    BY <2>1 DEF ReceiverTypeOK
  <2>2. CASE WriteAt(dp.seqNum, dp.data)
    BY <2>2 DEF ReceiverTypeOK, WriteAt
  <2> QED
    BY <1>1, <2>1, <2>2
<1>4. ReceiverTypeOK'
  BY <1>1, <1>2, <1>3 DEF ReceiverTypeOK, BufferItem
<1>5. nextExpectedPacketSeqNum' \notin DOMAIN file'
  <2>1. PICK next1 : next1 = nextExpectedPacketSeqNum'
    OBVIOUS
  <2>2. /\ next1 \in Nat
        /\ DOMAIN file' = (0..(next1 - 1)) \cup Buffered'
        /\ receiverWindow'[1].state = "NOT_RECEIVED"
        /\ \A i \in 1..INIT_WINDOW_SIZE :
             receiverWindow'[i].seqNum = next1 + i - 1
    BY <1>1, <2>1
       DEF ReceiverInv, FileIsReceived, HeadNeverReceived, ReceiverAligned
  <2>3. ASSUME NEW i \in 1..INIT_WINDOW_SIZE,
               receiverWindow'[i].seqNum = next1
        PROVE  i = 1
    BY <2>2, <2>3, ReceiverAssumption
  <2>4. next1 \notin Buffered'
    BY <2>2, <2>3 DEF Buffered
  <2> QED
    BY <2>1, <2>2, <2>4
<1> QED
  BY <1>1, <1>4, <1>5 DEF AckFor

=============================================================================
