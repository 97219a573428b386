----------------------- MODULE SlideWindowSender_proofs -----------------------
(***************************************************************************)
(* Proofs about the sender's window.                                       *)
(***************************************************************************)
EXTENDS SlideWindowSender, TLAPS

Item == [seqNum : SeqNums, state : ItemState]

\* The bytes to send end in the last packet.
LEMMA LastPacketSeqNumNat ==
  /\ LastPacketSeqNum \in Nat
  /\ bytesToSend > 0 => LastPacketSeqNum * DATA_PACKET_DATA_SIZE < bytesToSend
  /\ bytesToSend > 0 =>
       bytesToSend <= (LastPacketSeqNum + 1) * DATA_PACKET_DATA_SIZE
  BY SenderAssumption DEF LastPacketSeqNum

\* BytesUpTo is the sum of the items' data sizes: popping packet n adds its
\* dataSize to bytesSent.
LEMMA BytesUpToStep ==
  ASSUME NEW n \in SeqNums, bytesToSend > 0
  PROVE  BytesUpTo(n + 1) = BytesUpTo(n) + DataSize(n)
  BY SenderAssumption, LastPacketSeqNumNat
     DEF BytesUpTo, DataSize, SeqNums, LastPacketSize, Smaller, Larger,
         LastPacketSeqNum

\* A function constructor over 1..n is a sequence of length n.
LEMMA SeqOf ==
  ASSUME NEW S, NEW n \in Nat, NEW f \in [1..n -> S]
  PROVE  f \in Seq(S) /\ Len(f) = n
  OBVIOUS

\* The number of items SlideAndFill leaves in a window of len items.
FilledSize(len, n, leftBound, congestionWindow) ==
  Larger(len - n, Smaller(congestionWindow, LastPacketSeqNum + 1 - leftBound))

\* What the window looks like afterwards.
Filled(filled, window, n, leftBound, size) ==
  /\ filled \in Seq(Item)
  /\ Len(filled) = size
  /\ \A i \in 1..size :
       filled[i] = IF i <= Len(window) - n THEN window[i + n]
                   ELSE NewSenderItem(leftBound + i - 1)

\* Sliding and refilling keeps the items in line with the left bound, fills
\* the congestion window, and never passes the last packet.
LEMMA SlideAndFillShape ==
  ASSUME NEW window \in Seq(Item), NEW n \in 0..Len(window),
         NEW leftBound \in Nat, NEW congestionWindow \in Nat,
         leftBound <= LastPacketSeqNum + 1
  PROVE  Filled(SlideAndFill(window, n, leftBound, congestionWindow),
                window, n, leftBound,
                FilledSize(Len(window), n, leftBound, congestionWindow))
<1> DEFINE filled == SlideAndFill(window, n, leftBound, congestionWindow)
           size   == FilledSize(Len(window), n, leftBound, congestionWindow)
<1>1. LastPacketSeqNum \in Nat
  BY LastPacketSeqNumNat
<1>2. size \in Nat
  BY <1>1 DEF FilledSize, Larger, Smaller
<1>3. filled = [i \in 1..size |-> IF i <= Len(window) - n THEN window[i + n]
                                   ELSE NewSenderItem(leftBound + i - 1)]
  BY DEF SlideAndFill, FilledSize
<1> HIDE DEF filled
<1>4. ASSUME NEW i \in 1..size
      PROVE  (IF i <= Len(window) - n THEN window[i + n]
              ELSE NewSenderItem(leftBound + i - 1)) \in Item
  <2>1. CASE i <= Len(window) - n
    BY <2>1, <1>2
  <2>2. CASE ~(i <= Len(window) - n)
    <3>1. leftBound + i - 1 \in SeqNums
      BY <2>2, <1>1, <1>2 DEF FilledSize, Smaller, Larger, SeqNums
    <3> QED
      BY <3>1, <2>2 DEF NewSenderItem, Item, ItemState
  <2> QED
    BY <2>1, <2>2
<1>5. filled \in [1..size -> Item]
  BY <1>3, <1>4
<1>6. filled \in Seq(Item) /\ Len(filled) = size
  BY <1>2, <1>5, SeqOf
<1>7. ASSUME NEW i \in 1..size
      PROVE  filled[i] = IF i <= Len(window) - n THEN window[i + n]
                         ELSE NewSenderItem(leftBound + i - 1)
  BY <1>3
<1> QED
  BY <1>6, <1>7 DEF Filled, filled

-----------------------------------------------------------------------------
\* The first packets fill the smallest window; none is acknowledged.
LEMMA SenderInitInv ==
  ASSUME SenderInit
  PROVE  /\ SenderTypeOK /\ SenderInv
         /\ \A i \in 1..Len(senderWindow) : senderWindow[i].state # "ACKED"
<1>1. LastPacketSeqNum \in Nat
  BY LastPacketSeqNumNat
<1>2. Len(<<>>) = 0
  OBVIOUS
<1> DEFINE size == Smaller(CONGESTION_WINDOW_MIN, LastPacketSeqNum + 1)
<1>3. size \in Nat
  BY <1>1, SenderAssumption DEF Smaller
<1>4. Larger(0 - 0, Smaller(CONGESTION_WINDOW_MIN, LastPacketSeqNum + 1 - 0)) = size
  BY <1>1, SenderAssumption DEF Smaller, Larger
<1>5. senderWindow = [i \in 1..size |-> IF i <= 0 - 0 THEN <<>>[i + 0]
                                         ELSE NewSenderItem(0 + i - 1)]
  BY <1>2, <1>4 DEF SenderInit, SlideAndFill
<1> HIDE DEF size
<1>6. \A i \in 1..size : senderWindow[i] = NewSenderItem(i - 1)
  BY <1>3, <1>5
<1>7. senderWindow \in [1..size -> Item]
  <2>1. \A i \in 1..size : NewSenderItem(i - 1) \in Item
    BY <1>1, <1>3, SenderAssumption
       DEF NewSenderItem, Item, ItemState, SeqNums, size, Smaller
  <2>2. \A i \in 1..size : senderWindow[i] \in Item
    BY <1>6, <2>1
  <2>3. \E f : /\ senderWindow = f
               /\ DOMAIN f = 1..size
               /\ f = [i \in DOMAIN f |-> f[i]]
    BY <1>5
  <2> QED
    BY <2>2, <2>3
<1>8. senderWindow \in Seq(Item) /\ Len(senderWindow) = size
  BY <1>3, <1>7, SeqOf
<1>9. /\ slideWindowLeftBoundSeqNum = 0
      /\ bytesSent = 0
      /\ newDataReady = TRUE
      /\ curCongestionWindow = CONGESTION_WINDOW_MIN
      /\ curCongestionThreshold = UINT_MAX
      /\ congestionLeftBoundSeqNum = CONGESTION_WINDOW_MIN
      /\ curCongestionWindowTimeouted = FALSE
      /\ lastAck = 0
      /\ lastAckAckedCount = 0
  BY DEF SenderInit
<1>10. SenderTypeOK
  <2>1. senderWindow \in Seq([seqNum : SeqNums, state : ItemState])
    BY <1>8 DEF Item
  <2>2. newDataReady \in BOOLEAN /\ curCongestionWindowTimeouted \in BOOLEAN
    BY <1>9
  <2>3. /\ slideWindowLeftBoundSeqNum \in Nat
        /\ bytesSent \in 0..bytesToSend
        /\ curCongestionWindow \in Nat
        /\ curCongestionThreshold \in Nat
        /\ congestionLeftBoundSeqNum \in Nat
        /\ lastAck \in Nat
        /\ lastAckAckedCount \in 0..(FAST_RETRANSMISSION_THRESHOLD + 1)
    BY <1>9, SenderAssumption
  <2> QED
    BY <2>1, <2>2, <2>3 DEF SenderTypeOK
<1>11. SenderAligned
  BY <1>3, <1>6, <1>8, <1>9 DEF SenderAligned, NewSenderItem
<1>12. WindowInFile /\ WindowFilled
  BY <1>1, <1>3, <1>8, <1>9, SenderAssumption
     DEF WindowInFile, WindowFilled, Smaller, size
<1>13. CongestionBounded /\ GrowthPaced
  BY <1>9, SenderAssumption DEF CongestionBounded, GrowthPaced
<1>14. bytesSent = BytesUpTo(slideWindowLeftBoundSeqNum)
  BY <1>9, SenderAssumption DEF BytesUpTo, Smaller
<1>15. NoForgottenPacket /\ LastAckIsLeftBound
  BY <1>9 DEF NoForgottenPacket, LastAckIsLeftBound
<1>16. \A i \in 1..Len(senderWindow) : senderWindow[i].state # "ACKED"
  BY <1>6, <1>8 DEF NewSenderItem
<1> QED
  BY <1>10, <1>11, <1>12, <1>13, <1>14, <1>15, <1>16 DEF SenderInv

\* Preparing packets keeps the sender's invariant and acknowledges nothing.
LEMMA PrepareInv ==
  ASSUME SenderTypeOK, SenderInv, PrepareDataPacketsToSend
  PROVE  /\ SenderTypeOK' /\ SenderInv'
         /\ Len(senderWindow') = Len(senderWindow)
         /\ \A i \in 1..Len(senderWindow) :
              /\ senderWindow'[i].seqNum = senderWindow[i].seqNum
              /\ senderWindow'[i].state = "ACKED"
                   <=> senderWindow[i].state = "ACKED"
<1> USE DEF PrepareDataPacketsToSend
<1>1. senderWindow \in Seq(Item) /\ Len(senderWindow) \in Nat
  BY DEF SenderTypeOK, Item
<1>2. ASSUME NEW i \in 1..Len(senderWindow)
      PROVE  /\ senderWindow'[i] \in Item
             /\ senderWindow'[i].seqNum = senderWindow[i].seqNum
             /\ senderWindow'[i].state = "ACKED"
                  <=> senderWindow[i].state = "ACKED"
             /\ i <= curCongestionWindow => ~Unsent(senderWindow'[i])
  <2>1. senderWindow[i] \in Item
    BY <1>1
  <2>2. CASE i \in ToSend
    <3>1. senderWindow'[i] = [senderWindow[i] EXCEPT
                                !.state = IF @ = "NOT_SENT" THEN "SENT" ELSE "RESENT"]
      BY <2>2
    <3>2. senderWindow[i].state # "ACKED"
      BY <2>2 DEF ToSend, Unsent
    <3> QED
      BY <2>1, <3>1, <3>2 DEF Item, ItemState, Unsent
  <2>3. CASE i \notin ToSend
    <3>1. senderWindow'[i] = senderWindow[i]
      BY <2>3
    <3>2. i <= curCongestionWindow => ~Unsent(senderWindow[i])
      BY <2>3, <1>1 DEF ToSend, Sendable, Smaller, SenderTypeOK
    <3> QED
      BY <2>1, <3>1, <3>2
  <2> QED
    BY <2>2, <2>3
<1>3. senderWindow' \in Seq(Item) /\ Len(senderWindow') = Len(senderWindow)
  <2>1. senderWindow' \in [1..Len(senderWindow) -> Item]
    BY <1>2
  <2> QED
    BY <1>1, <2>1, SeqOf
<1>4. SenderTypeOK'
  BY <1>3 DEF SenderTypeOK, Item
<1>5. SenderInv'
  <2>1. SenderAligned'
    BY <1>1, <1>2, <1>3 DEF SenderInv, SenderAligned
  <2>2. WindowInFile' /\ WindowFilled'
    BY <1>3 DEF SenderInv, WindowInFile, WindowFilled
  <2>3. CongestionBounded' /\ GrowthPaced' /\ LastAckIsLeftBound'
    BY DEF SenderInv, CongestionBounded, GrowthPaced, LastAckIsLeftBound
  <2>4. NoForgottenPacket'
    BY <1>1, <1>2, <1>3
       DEF NoForgottenPacket, HasUnsent, Sendable, Smaller, SenderTypeOK
  <2>5. (bytesSent = BytesUpTo(slideWindowLeftBoundSeqNum))'
    BY DEF SenderInv, BytesUpTo
  <2> QED
    BY <2>1, <2>2, <2>3, <2>4, <2>5 DEF SenderInv
<1> QED
  BY <1>2, <1>3, <1>4, <1>5

-----------------------------------------------------------------------------
(***************************************************************************)
(* ackArrived, stage by stage.                                             *)
(***************************************************************************)

\* The first two stages keep the items in place, and mark only the item of
\* the selective field as acknowledged.
LEMMA MarkedWindow ==
  ASSUME SenderTypeOK, NEW ack
  PROVE  /\ AfterFastRetransmit(ack) \in Seq(Item)
         /\ Len(AfterFastRetransmit(ack)) = Len(senderWindow)
         /\ \A i \in 1..Len(senderWindow) :
              /\ AfterFastRetransmit(ack)[i].seqNum = senderWindow[i].seqNum
              /\ senderWindow[i].state = "ACKED"
                   => AfterFastRetransmit(ack)[i].state = "ACKED"
              /\ AfterFastRetransmit(ack)[i].state = "ACKED"
                   => \/ senderWindow[i].state = "ACKED"
                      \/ /\ ack.cumulativeSeqNum # ack.selectiveSeqNum
                         /\ slideWindowLeftBoundSeqNum + i - 1
                              = ack.selectiveSeqNum
<1>1. senderWindow \in Seq(Item) /\ Len(senderWindow) \in Nat
  BY DEF SenderTypeOK, Item
<1>2. ASSUME NEW i \in 1..Len(senderWindow)
      PROVE  /\ AfterSelective(ack)[i] \in Item
             /\ AfterSelective(ack)[i].seqNum = senderWindow[i].seqNum
             /\ senderWindow[i].state = "ACKED"
                   => AfterSelective(ack)[i].state = "ACKED"
             /\ AfterSelective(ack)[i].state = "ACKED"
                   => \/ senderWindow[i].state = "ACKED"
                      \/ /\ ack.cumulativeSeqNum # ack.selectiveSeqNum
                         /\ slideWindowLeftBoundSeqNum + i - 1
                              = ack.selectiveSeqNum
  <2>1. senderWindow[i] \in Item
    BY <1>1
  <2> QED
    BY <2>1 DEF AfterSelective, Item, ItemState
<1>3. ASSUME NEW i \in 1..Len(senderWindow)
      PROVE  LET new == AfterFastRetransmit(ack)[i]
                 old == AfterSelective(ack)[i]
             IN  /\ new \in Item
                 /\ new.seqNum = old.seqNum
                 /\ new.state = "ACKED" <=> old.state = "ACKED"
  <2>1. CASE Retransmits(ack) /\ i = 1
    <3>1. AfterFastRetransmit(ack)[i]
            = [AfterSelective(ack)[i] EXCEPT !.state = "TIMEOUT"]
      BY <2>1 DEF AfterFastRetransmit
    <3>2. AfterSelective(ack)[i].state # "ACKED"
      BY <2>1 DEF Retransmits, Outstanding
    <3> QED
      BY <1>2, <3>1, <3>2 DEF Item, ItemState
  <2>2. CASE ~(Retransmits(ack) /\ i = 1)
    <3>1. AfterFastRetransmit(ack)[i] = AfterSelective(ack)[i]
      BY <2>2 DEF AfterFastRetransmit
    <3> QED
      BY <1>2, <3>1
  <2> QED
    BY <2>1, <2>2
<1>4. AfterFastRetransmit(ack) \in [1..Len(senderWindow) -> Item]
  BY <1>3 DEF AfterFastRetransmit
<1>5. /\ AfterFastRetransmit(ack) \in Seq(Item)
      /\ Len(AfterFastRetransmit(ack)) = Len(senderWindow)
  BY <1>1, <1>4, SeqOf
<1> QED
  BY <1>2, <1>3, <1>5

\* Whether or not the window is punished, and whether or not it grows, the
\* mark ends up ahead of the left bound, by no more than the window.
LEMMA AdjustCongestionBounds ==
  ASSUME SenderTypeOK, CongestionBounded, GrowthPaced, NEW ack,
         slideWindowLeftBoundSeqNum' \in Nat,
         slideWindowLeftBoundSeqNum' >= slideWindowLeftBoundSeqNum,
         RecoverCongestion(ack), AdjustCongestion(ack)
  PROVE  /\ curCongestionWindow' \in Nat
         /\ curCongestionThreshold' \in Nat
         /\ congestionLeftBoundSeqNum' \in Nat
         /\ curCongestionWindowTimeouted' \in BOOLEAN
         /\ CongestionBounded'
         /\ GrowthPaced'
<1> DEFINE threshold == RecoveredThreshold(ack)
           window    == RecoveredWindow(ack)
           mark      == RecoveredMark(ack)
           grow      == slideWindowLeftBoundSeqNum' >= mark
<1>1. /\ curCongestionThreshold' = threshold
      /\ curCongestionWindow' = IF grow THEN GrownWindow(window, threshold)
                                ELSE window
      /\ congestionLeftBoundSeqNum' =
           IF grow THEN slideWindowLeftBoundSeqNum' + curCongestionWindow'
           ELSE mark
      /\ curCongestionWindowTimeouted' =
           (curCongestionWindowTimeouted \/ Recover(ack))
  BY DEF RecoverCongestion, AdjustCongestion
<1>2. ShrunkThreshold \in Nat /\ ShrunkThreshold >= CONGESTION_WINDOW_MIN
  BY SenderAssumption DEF ShrunkThreshold, Larger, SenderTypeOK
<1>3. /\ threshold \in Nat /\ threshold >= CONGESTION_WINDOW_MIN
      /\ window \in Nat /\ window >= CONGESTION_WINDOW_MIN
      /\ mark \in Nat
      /\ mark <= slideWindowLeftBoundSeqNum + window
  BY <1>2 DEF RecoveredThreshold, RecoveredWindow, RecoveredMark, SenderTypeOK,
              CongestionBounded, GrowthPaced
<1> HIDE DEF threshold, window, mark
<1>4. /\ GrownWindow(window, threshold) \in Nat
      /\ GrownWindow(window, threshold) >= CONGESTION_WINDOW_MIN
  BY <1>3, SenderAssumption DEF GrownWindow, Smaller
<1>5. /\ curCongestionWindow' \in Nat
      /\ curCongestionThreshold' \in Nat
      /\ CongestionBounded'
  BY <1>1, <1>3, <1>4 DEF CongestionBounded
<1>6. congestionLeftBoundSeqNum' \in Nat /\ GrowthPaced'
  <2>1. PICK left1, window1, mark1 :
          /\ left1 = slideWindowLeftBoundSeqNum'
          /\ window1 = curCongestionWindow'
          /\ mark1 = congestionLeftBoundSeqNum'
    OBVIOUS
  <2>2. /\ left1 \in Nat /\ left1 >= slideWindowLeftBoundSeqNum
        /\ window1 \in Nat /\ window1 >= CONGESTION_WINDOW_MIN
        /\ slideWindowLeftBoundSeqNum \in Nat
    BY <2>1, <1>5 DEF CongestionBounded, SenderTypeOK
  <2>3. /\ left1 >= mark => mark1 = left1 + window1
        /\ ~(left1 >= mark) => mark1 = mark /\ window1 = window
    BY <2>1, <1>1
  <2> HIDE DEF grow
  <2>4. mark1 \in Nat /\ left1 < mark1 /\ mark1 <= left1 + window1
    BY <2>2, <2>3, <1>3, SenderAssumption
  <2> QED
    BY <2>1, <2>4 DEF GrowthPaced
<1>7. curCongestionWindowTimeouted' \in BOOLEAN
  BY <1>1 DEF SenderTypeOK
<1> QED
  BY <1>5, <1>6, <1>7

\* No more bytes are acknowledged than were to be sent.
LEMMA BytesUpToBounds ==
  ASSUME NEW n \in Nat
  PROVE  BytesUpTo(n) \in 0..bytesToSend
  BY SenderAssumption DEF BytesUpTo, Smaller

\* An acknowledgement within the window keeps the sender's invariant, and
\* the window still reaches as far as it did.
LEMMA AckInv ==
  ASSUME SenderTypeOK, SenderInv, NEW ack,
         ack.cumulativeSeqNum \in
           0..(slideWindowLeftBoundSeqNum + Len(senderWindow)),
         AckArrived(ack)
  PROVE  /\ SenderTypeOK' /\ SenderInv'
         /\ slideWindowLeftBoundSeqNum'
              = Larger(slideWindowLeftBoundSeqNum, ack.cumulativeSeqNum)
         /\ slideWindowLeftBoundSeqNum' + Len(senderWindow')
              >= slideWindowLeftBoundSeqNum + Len(senderWindow)
         /\ \A i \in 1..Len(senderWindow') :
              senderWindow'[i].state = "ACKED" =>
                \/ \E j \in 1..Len(senderWindow) :
                     /\ senderWindow[j].state = "ACKED"
                     /\ senderWindow[j].seqNum = senderWindow'[i].seqNum
                \/ /\ ack.cumulativeSeqNum # ack.selectiveSeqNum
                   /\ senderWindow'[i].seqNum = ack.selectiveSeqNum
         /\ \A j \in 1..Len(senderWindow) :
              senderWindow[j].state = "ACKED" =>
                \/ senderWindow[j].seqNum < slideWindowLeftBoundSeqNum'
                \/ \E i \in 1..Len(senderWindow') :
                     /\ senderWindow'[i].state = "ACKED"
                     /\ senderWindow'[i].seqNum = senderWindow[j].seqNum
<1> DEFINE left   == slideWindowLeftBoundSeqNum
           window == AfterFastRetransmit(ack)
<1>1. /\ senderWindow \in Seq(Item) /\ Len(senderWindow) \in Nat
      /\ left \in Nat /\ LastPacketSeqNum \in Nat
      /\ left + Len(senderWindow) <= LastPacketSeqNum + 1
  BY LastPacketSeqNumNat DEF SenderTypeOK, SenderInv, WindowInFile, Item
\* The values of the next state.
<1>2. PICK left1, congestionWindow1, n, size :
        /\ left1 = left'
        /\ congestionWindow1 = curCongestionWindow'
        /\ n = left1 - left
        /\ size = FilledSize(Len(senderWindow), n, left1, congestionWindow1)
  OBVIOUS
<1>3. /\ left1 = Larger(left, ack.cumulativeSeqNum)
      /\ left1 \in Nat /\ left1 >= left
      /\ left1 <= left + Len(senderWindow)
      /\ left1 <= LastPacketSeqNum + 1
      /\ n \in 0..Len(senderWindow)
      /\ left1 = left + n
  <2>1. left1 = Larger(left, ack.cumulativeSeqNum)
    BY <1>2 DEF AckArrived
  <2>2. n = left1 - left
    BY <1>2
  <2> QED
    BY <1>1, <2>1, <2>2 DEF Larger
<1>4. /\ curCongestionWindow' \in Nat
      /\ curCongestionThreshold' \in Nat
      /\ congestionLeftBoundSeqNum' \in Nat
      /\ curCongestionWindowTimeouted' \in BOOLEAN
      /\ CongestionBounded'
      /\ GrowthPaced'
  <2>1. /\ slideWindowLeftBoundSeqNum' \in Nat
        /\ slideWindowLeftBoundSeqNum' >= slideWindowLeftBoundSeqNum
    BY <1>2, <1>3
  <2> QED
    BY <2>1, AdjustCongestionBounds DEF AckArrived, SenderInv
<1>5. /\ window \in Seq(Item)
      /\ Len(window) = Len(senderWindow)
      /\ \A i \in 1..Len(senderWindow) :
           /\ window[i].seqNum = senderWindow[i].seqNum
           /\ senderWindow[i].state = "ACKED" => window[i].state = "ACKED"
           /\ window[i].state = "ACKED"
                => \/ senderWindow[i].state = "ACKED"
                   \/ /\ ack.cumulativeSeqNum # ack.selectiveSeqNum
                      /\ left + i - 1 = ack.selectiveSeqNum
  BY MarkedWindow
<1>6. senderWindow' = SlideAndFill(window, n, left1, congestionWindow1)
  BY <1>2 DEF AckArrived
<1> HIDE DEF window
<1>7. /\ size \in Nat
      /\ senderWindow' \in Seq(Item)
      /\ Len(senderWindow') = size
      /\ \A i \in 1..size :
           senderWindow'[i] = IF i <= Len(senderWindow) - n THEN window[i + n]
                              ELSE NewSenderItem(left1 + i - 1)
  <2>1. /\ window \in Seq(Item) /\ n \in 0..Len(window)
        /\ left1 \in Nat /\ left1 <= LastPacketSeqNum + 1
    BY <1>3, <1>5
  <2>5. congestionWindow1 \in Nat
    BY <1>2, <1>4
  <2>2. Filled(SlideAndFill(window, n, left1, congestionWindow1), window, n,
               left1, FilledSize(Len(window), n, left1, congestionWindow1))
    BY <2>1, <2>5, SlideAndFillShape
  <2>3. Filled(senderWindow', window, n, left1, size)
    BY <1>2, <1>5, <1>6, <2>2
  <2>4. size \in Nat
    <3>1. size = FilledSize(Len(senderWindow), n, left1, congestionWindow1)
      BY <1>2
    <3> QED
      BY <1>1, <1>3, <2>5, <3>1 DEF FilledSize, Larger, Smaller
  <2> QED
    BY <1>5, <2>3, <2>4 DEF Filled
<1>8. /\ size >= Len(senderWindow) - n
      /\ size >= Smaller(congestionWindow1, LastPacketSeqNum + 1 - left1)
      /\ left1 + size <= LastPacketSeqNum + 1
  <2>1. /\ n \in 0..Len(senderWindow)
        /\ left1 \in Nat /\ left1 <= LastPacketSeqNum + 1
        /\ left1 + Len(senderWindow) - n <= LastPacketSeqNum + 1
    BY <1>1, <1>3
  <2>5. congestionWindow1 \in Nat
    BY <1>2, <1>4
  <2>2. size = FilledSize(Len(senderWindow), n, left1, congestionWindow1)
    BY <1>2
  <2> QED
    BY <1>1, <2>1, <2>2, <2>5 DEF FilledSize, Larger, Smaller
<1>9. \A i \in 1..Len(senderWindow) :
        senderWindow[i].seqNum = left + i - 1
  BY DEF SenderInv, SenderAligned
<1>10. ASSUME NEW i \in 1..size
       PROVE  /\ senderWindow'[i].seqNum = left1 + i - 1
              /\ i <= Len(senderWindow) - n =>
                   /\ i + n \in 1..Len(senderWindow)
                   /\ senderWindow'[i] = window[i + n]
                   /\ senderWindow[i + n].seqNum = left1 + i - 1
              /\ ~(i <= Len(senderWindow) - n) =>
                   senderWindow'[i].state = "NOT_SENT"
  <2>1. CASE i <= Len(senderWindow) - n
    <3>1. i + n \in 1..Len(senderWindow) /\ left + (i + n) - 1 = left1 + i - 1
      BY <1>1, <1>3, <1>7, <2>1
    <3>2. senderWindow'[i] = window[i + n]
      BY <1>7, <2>1
    <3> QED
      BY <1>5, <1>9, <2>1, <3>1, <3>2
  <2>2. CASE ~(i <= Len(senderWindow) - n)
    BY <1>7, <2>2 DEF NewSenderItem
  <2> QED
    BY <2>1, <2>2
<1>11. SenderAligned'
  BY <1>2, <1>7, <1>10 DEF SenderAligned
<1>12. WindowInFile' /\ WindowFilled'
  BY <1>2, <1>7, <1>8 DEF WindowInFile, WindowFilled
<1>13. NoForgottenPacket'
  BY DEF NoForgottenPacket, AckArrived
<1>14. /\ lastAck' \in Nat
       /\ lastAckAckedCount' \in 0..(FAST_RETRANSMISSION_THRESHOLD + 1)
       /\ LastAckIsLeftBound'
  <2>1. lastAck' \in Nat /\ LastAckIsLeftBound'
    BY <1>1, <1>2, <1>3
       DEF AckArrived, CountAck, LastAckIsLeftBound, SenderInv, SenderTypeOK,
           Larger
  <2>2. Smaller(lastAckAckedCount + 1, FAST_RETRANSMISSION_THRESHOLD + 1)
          \in 0..(FAST_RETRANSMISSION_THRESHOLD + 1)
    BY SenderAssumption DEF SenderTypeOK, Smaller
  <2> QED
    BY <2>1, <2>2, SenderAssumption DEF AckArrived, CountAck, SenderTypeOK
<1>15. /\ bytesSent' = BytesUpTo(left1)
       /\ bytesSent' \in 0..bytesToSend
  <2>1. /\ BytesUpTo(left) \in 0..bytesToSend
        /\ BytesUpTo(left1) \in 0..bytesToSend
    BY <1>1, <1>3, BytesUpToBounds
  <2>2. bytesSent = BytesUpTo(left)
    BY DEF SenderInv
  <2>3. bytesSent' = bytesSent + BytesUpTo(left1) - BytesUpTo(left)
    BY <1>2 DEF AckArrived
  <2>4. bytesSent + BytesUpTo(left1) - BytesUpTo(left) = BytesUpTo(left1)
    BY <2>1, <2>2, SenderAssumption
  <2> QED
    BY <2>1, <2>3, <2>4
<1>16. newDataReady' \in BOOLEAN
  BY DEF AckArrived, SenderTypeOK, HasUnsent
<1>17. SenderTypeOK'
  <2>1. senderWindow' \in Seq([seqNum : SeqNums, state : ItemState])
    BY <1>7 DEF Item
  <2> QED
    BY <1>2, <1>3, <1>4, <1>14, <1>15, <1>16, <2>1 DEF SenderTypeOK
<1>18. SenderInv'
  <2>1. (bytesSent = BytesUpTo(slideWindowLeftBoundSeqNum))'
    BY <1>2, <1>15 DEF BytesUpTo
  <2> QED
    BY <1>4, <1>11, <1>12, <1>13, <1>14, <2>1 DEF SenderInv
<1>19. left1 + Len(senderWindow') >= left + Len(senderWindow)
  BY <1>1, <1>3, <1>7, <1>8
<1>20. ASSUME NEW i \in 1..Len(senderWindow'), senderWindow'[i].state = "ACKED"
       PROVE  \/ \E j \in 1..Len(senderWindow) :
                   /\ senderWindow[j].state = "ACKED"
                   /\ senderWindow[j].seqNum = senderWindow'[i].seqNum
              \/ /\ ack.cumulativeSeqNum # ack.selectiveSeqNum
                 /\ senderWindow'[i].seqNum = ack.selectiveSeqNum
  <2>1. i <= Len(senderWindow) - n
    BY <1>7, <1>10, <1>20
  <2>2. /\ i + n \in 1..Len(senderWindow)
        /\ window[i + n].state = "ACKED"
        /\ senderWindow[i + n].seqNum = senderWindow'[i].seqNum
        /\ senderWindow[i + n].seqNum = left + (i + n) - 1
    BY <1>7, <1>9, <1>10, <1>20, <2>1
  <2> QED
    BY <1>5, <2>2
<1>21. ASSUME NEW j \in 1..Len(senderWindow), senderWindow[j].state = "ACKED",
              ~(senderWindow[j].seqNum < left')
       PROVE  \E i \in 1..Len(senderWindow') :
                /\ senderWindow'[i].state = "ACKED"
                /\ senderWindow'[i].seqNum = senderWindow[j].seqNum
  <2>1. senderWindow[j].seqNum = left + j - 1 /\ ~(senderWindow[j].seqNum < left1)
    BY <1>2, <1>9, <1>21
  <2>2. /\ j - n \in 1..size
        /\ j - n <= Len(senderWindow) - n
        /\ (j - n) + n = j
    BY <1>1, <1>3, <1>7, <1>8, <2>1
  <2>3. /\ senderWindow'[j - n] = window[j]
        /\ senderWindow'[j - n].seqNum = senderWindow[j].seqNum
    BY <1>5, <1>10, <2>2
  <2> QED
    BY <1>5, <1>7, <1>21, <2>2, <2>3
<1> QED
  BY <1>2, <1>3, <1>17, <1>18, <1>19, <1>20, <1>21

-----------------------------------------------------------------------------
\* A timeout keeps the sender's invariant and acknowledges nothing.
LEMMA TimeoutInv ==
  ASSUME SenderTypeOK, SenderInv, NEW expired, CheckTimeout(expired)
  PROVE  /\ SenderTypeOK' /\ SenderInv'
         /\ slideWindowLeftBoundSeqNum' = slideWindowLeftBoundSeqNum
         /\ Len(senderWindow') = Len(senderWindow)
         /\ \A i \in 1..Len(senderWindow) :
              /\ senderWindow'[i].seqNum = senderWindow[i].seqNum
              /\ senderWindow'[i].state = "ACKED"
                   <=> senderWindow[i].state = "ACKED"
<1>1. senderWindow \in Seq(Item) /\ Len(senderWindow) \in Nat
  BY DEF SenderTypeOK, Item
<1>2. ASSUME NEW i \in 1..Len(senderWindow)
      PROVE  /\ senderWindow'[i] \in Item
             /\ senderWindow'[i].seqNum = senderWindow[i].seqNum
             /\ senderWindow'[i].state = "ACKED"
                  <=> senderWindow[i].state = "ACKED"
  <2>1. senderWindow[i] \in Item
    BY <1>1
  <2>2. CASE i \in expired
    <3>1. senderWindow'[i] = [senderWindow[i] EXCEPT !.state = "TIMEOUT"]
      BY <2>2 DEF CheckTimeout, Punishes
    <3>2. senderWindow[i].state # "ACKED"
      BY <2>2 DEF CheckTimeout, Punishes, OutstandingPositions, Outstanding
    <3> QED
      BY <2>1, <3>1, <3>2 DEF Item, ItemState
  <2>3. CASE i \notin expired
    <3>1. senderWindow'[i] = senderWindow[i]
      BY <2>3 DEF CheckTimeout, Punishes
    <3> QED
      BY <2>1, <3>1
  <2> QED
    BY <2>2, <2>3
<1>3. senderWindow' \in Seq(Item) /\ Len(senderWindow') = Len(senderWindow)
  <2>1. senderWindow' \in [1..Len(senderWindow) -> Item]
    BY <1>2 DEF CheckTimeout, Punishes
  <2> QED
    BY <1>1, <2>1, SeqOf
<1>4. UNCHANGED <<slideWindowLeftBoundSeqNum, bytesSent, lastAck,
                  lastAckAckedCount>>
  BY DEF CheckTimeout, Punishes
<1>5. /\ curCongestionWindow' \in Nat
      /\ curCongestionThreshold' \in Nat
      /\ congestionLeftBoundSeqNum' \in Nat
      /\ curCongestionWindowTimeouted' \in BOOLEAN
      /\ CongestionBounded'
      /\ GrowthPaced'
      /\ curCongestionWindow' <= curCongestionWindow
  <2>1. CASE expired # {} /\ ~curCongestionWindowTimeouted
    <3>1. /\ curCongestionThreshold' = ShrunkThreshold
          /\ curCongestionWindow' = CONGESTION_WINDOW_MIN
          /\ congestionLeftBoundSeqNum' =
               slideWindowLeftBoundSeqNum + CONGESTION_WINDOW_MIN
          /\ curCongestionWindowTimeouted' = TRUE
      BY <2>1 DEF CheckTimeout, Punishes
    <3>2. ShrunkThreshold \in Nat /\ ShrunkThreshold >= CONGESTION_WINDOW_MIN
      BY SenderAssumption DEF ShrunkThreshold, Larger, SenderTypeOK
    <3>3. slideWindowLeftBoundSeqNum + CONGESTION_WINDOW_MIN \in Nat
      BY SenderAssumption DEF SenderTypeOK
    <3>4. CongestionBounded' /\ curCongestionWindow' <= curCongestionWindow
      BY <3>1, <3>2, SenderAssumption DEF CongestionBounded, SenderInv
    <3>5. GrowthPaced'
      BY <1>4, <3>1, SenderAssumption DEF GrowthPaced, SenderTypeOK
    <3> QED
      BY <3>1, <3>2, <3>3, <3>4, <3>5, SenderAssumption
  <2>2. CASE ~(expired # {} /\ ~curCongestionWindowTimeouted)
    <3>1. UNCHANGED <<curCongestionThreshold, curCongestionWindow,
                      congestionLeftBoundSeqNum,
                      curCongestionWindowTimeouted>>
      BY <2>2 DEF CheckTimeout, Punishes
    <3> QED
      BY <1>4, <3>1
         DEF SenderTypeOK, SenderInv, CongestionBounded, GrowthPaced
  <2> QED
    BY <2>1, <2>2
<1>6. newDataReady' \in BOOLEAN
  BY DEF CheckTimeout, Punishes, SenderTypeOK, HasUnsent
<1>7. SenderTypeOK'
  BY <1>3, <1>4, <1>5, <1>6 DEF SenderTypeOK, Item
<1>8. SenderInv'
  <2>1. SenderAligned'
    BY <1>2, <1>3, <1>4 DEF SenderInv, SenderAligned
  <2>2. WindowInFile'
    BY <1>3, <1>4 DEF SenderInv, WindowInFile
  <2>3. WindowFilled'
    <3>1. PICK window1 : window1 = curCongestionWindow'
      OBVIOUS
    <3>2. window1 \in Nat /\ window1 <= curCongestionWindow
      BY <1>5, <3>1
    <3>3. Len(senderWindow) >=
            Smaller(window1, LastPacketSeqNum + 1 - slideWindowLeftBoundSeqNum)
      BY <1>1, <3>2, LastPacketSeqNumNat
         DEF SenderInv, WindowFilled, SenderTypeOK, Smaller
    <3> QED
      BY <1>3, <1>4, <3>1, <3>3 DEF WindowFilled
  <2>4. NoForgottenPacket'
    BY DEF NoForgottenPacket, CheckTimeout, Punishes
  <2>5. LastAckIsLeftBound'
    BY <1>4 DEF SenderInv, LastAckIsLeftBound
  <2>6. (bytesSent = BytesUpTo(slideWindowLeftBoundSeqNum))'
    BY <1>4 DEF SenderInv, BytesUpTo
  <2> QED
    BY <1>5, <2>1, <2>2, <2>3, <2>4, <2>5, <2>6 DEF SenderInv
<1> QED
  BY <1>2, <1>3, <1>4, <1>7, <1>8

-----------------------------------------------------------------------------
\* An acknowledgement shrinks the congestion window only as the first
\* punishment since packets were sent, and never lifts a punishment.
LEMMA AckPunishes ==
  ASSUME SenderTypeOK, NEW ack, AckArrived(ack)
  PROVE  /\ curCongestionWindow' < curCongestionWindow
              => ~curCongestionWindowTimeouted /\ curCongestionWindowTimeouted'
         /\ curCongestionWindowTimeouted => curCongestionWindowTimeouted'
<1>1. curCongestionWindowTimeouted' =
        (curCongestionWindowTimeouted \/ Recover(ack))
  BY DEF AckArrived, RecoverCongestion
<1>2. CASE Recover(ack)
  BY <1>1, <1>2 DEF Recover
<1>3. CASE ~Recover(ack)
  <2>1. \/ curCongestionWindow' = curCongestionWindow
        \/ curCongestionWindow'
             = GrownWindow(curCongestionWindow, curCongestionThreshold)
    BY <1>3 DEF AckArrived, AdjustCongestion, RecoveredWindow, RecoveredThreshold
  <2>2. PICK window1 : window1 = curCongestionWindow'
    OBVIOUS
  <2>3. GrownWindow(curCongestionWindow, curCongestionThreshold)
          >= curCongestionWindow
    BY SenderAssumption DEF GrownWindow, Smaller, SenderTypeOK
  <2>4. GrownWindow(curCongestionWindow, curCongestionThreshold) \in Nat
    BY SenderAssumption DEF GrownWindow, Smaller, SenderTypeOK
  <2>5. ~(window1 < curCongestionWindow)
    BY <2>1, <2>2, <2>3, <2>4 DEF SenderTypeOK
  <2> QED
    BY <1>1, <2>2, <2>5
<1> QED
  BY <1>2, <1>3

\* A timeout shrinks the congestion window only as the first punishment
\* since packets were prepared, and never lifts a punishment.
LEMMA TimeoutPunishes ==
  ASSUME SenderTypeOK, NEW expired, CheckTimeout(expired)
  PROVE  /\ curCongestionWindow' < curCongestionWindow
              => ~curCongestionWindowTimeouted /\ curCongestionWindowTimeouted'
         /\ curCongestionWindowTimeouted => curCongestionWindowTimeouted'
<1>1. CASE expired # {} /\ ~curCongestionWindowTimeouted
  BY <1>1 DEF CheckTimeout, Punishes
<1>2. CASE ~(expired # {} /\ ~curCongestionWindowTimeouted)
  BY <1>2 DEF CheckTimeout, Punishes, SenderTypeOK
<1> QED
  BY <1>1, <1>2

=============================================================================
