-------------------------- MODULE SlideWindowSender --------------------------
(***************************************************************************)
(* The sender's sliding window: src/src/slideWindowSender.{h,cpp}.         *)
(*                                                                         *)
(* Every public method takes the object's mutex for its whole body, so     *)
(* each method is one action here.  The threads that call the methods are  *)
(* in the modules that extend this one.                                    *)
(*                                                                         *)
(* Abstractions.  An item's lastSentTime and the clock are replaced by a   *)
(* choice of which outstanding items have expired.  The debug code         *)
(* (_DEBUG, _PRINT_WINDOW) is left out, except that ensureCorrectness is   *)
(* stated as a property.  Unsigned arithmetic is exact: it needs every     *)
(* file offset and sequence number to stay below UINT_MAX, which is what   *)
(* SenderAssumption says.                                                  *)
(***************************************************************************)
EXTENDS Integers, Sequences, Packet

CONSTANTS
  DATA_PACKET_DATA_SIZE,        \* bytes of the file in a full packet
  UINT_MAX,                     \* the largest unsigned int
  CONGESTION_WINDOW_MIN,
  CONGESTION_THRESHOLD_MIN,
  CONGESTION_THRESHOLD_SHRINK,  \* in percent of the window
  FAST_RETRANSMISSION_THRESHOLD,
  fastRetransmission,           \* is fast retransmission on?
  bytesToSend,                  \* bytes the user asked to send
  fileSize                      \* bytes the file has

ASSUME SenderAssumption ==
  /\ DATA_PACKET_DATA_SIZE \in Nat \ {0}
  /\ UINT_MAX \in Nat
  /\ CONGESTION_WINDOW_MIN \in Nat \ {0}
  /\ CONGESTION_THRESHOLD_MIN \in Nat
  /\ CONGESTION_WINDOW_MIN <= CONGESTION_THRESHOLD_MIN
  /\ CONGESTION_THRESHOLD_SHRINK \in 0..100
  /\ FAST_RETRANSMISSION_THRESHOLD \in Nat \ {0}
  /\ fastRetransmission \in BOOLEAN
  /\ bytesToSend \in 0..UINT_MAX
  /\ CONGESTION_WINDOW_MIN <= UINT_MAX
  /\ fileSize \in Nat

VARIABLES
  senderWindow,                 \* slideWindow, the deque of items
  slideWindowLeftBoundSeqNum,   \* the leftmost packet not acknowledged
  bytesSent,                    \* bytes acknowledged cumulatively
  newDataReady,                 \* is some packet waiting to be (re)sent?
  curCongestionWindow,
  curCongestionThreshold,
  congestionLeftBoundSeqNum,    \* reaching it makes the window grow
  curCongestionWindowTimeouted, \* has this round been punished already?
  lastAck,                      \* the newest cumulative acknowledgement
  lastAckAckedCount             \* how often it was repeated

senderVars ==
  <<senderWindow, slideWindowLeftBoundSeqNum, bytesSent, newDataReady,
    curCongestionWindow, curCongestionThreshold, congestionLeftBoundSeqNum,
    curCongestionWindowTimeouted, lastAck, lastAckAckedCount>>

ItemState == {"NOT_SENT", "SENT", "TIMEOUT", "RESENT", "ACKED"}

Smaller(a, b) == IF a <= b THEN a ELSE b
Larger(a, b)  == IF a >= b THEN a ELSE b

-----------------------------------------------------------------------------
(***************************************************************************)
(* How the file is cut into packets.                                       *)
(***************************************************************************)

\* With nothing to send, 0 - 1 wraps to the largest unsigned int.
LastPacketSeqNum ==
  IF bytesToSend % DATA_PACKET_DATA_SIZE = 0
  THEN IF bytesToSend = 0 THEN UINT_MAX
       ELSE bytesToSend \div DATA_PACKET_DATA_SIZE - 1
  ELSE bytesToSend \div DATA_PACKET_DATA_SIZE

LastPacketSize ==
  IF bytesToSend % DATA_PACKET_DATA_SIZE = 0
  THEN DATA_PACKET_DATA_SIZE
  ELSE bytesToSend - LastPacketSeqNum * DATA_PACKET_DATA_SIZE

SeqNums == 0..LastPacketSeqNum

\* The dataSize readFile gives the item of packet seqNum: read() stops at
\* the end of the file, and past the end it returns 0.
DataSize(seqNum) ==
  LET offset == seqNum * DATA_PACKET_DATA_SIZE
      size   == IF seqNum = LastPacketSeqNum
                THEN LastPacketSize ELSE DATA_PACKET_DATA_SIZE
  IN  Larger(0, Smaller(size, fileSize - offset))

\* Mutant: the last packet is counted as a full one.
BytesUpToFull(n) == n * DATA_PACKET_DATA_SIZE

\* The sum of DataSize(0), ..., DataSize(n-1): consecutive chunks of the
\* file, so the sum is the place where the last of them ends.
BytesUpTo(n) ==
  Smaller(n * DATA_PACKET_DATA_SIZE, Smaller(bytesToSend, fileSize))

-----------------------------------------------------------------------------
(***************************************************************************)
(* Items and the part of the window that may be sent.                      *)
(***************************************************************************)

NewSenderItem(seqNum) == [seqNum |-> seqNum, state |-> "NOT_SENT"]

\* Mutant: whatever does not wait to be sent counts as sent, ACKED or not.
OutstandingIfNotUnsent(item) == item.state \notin {"NOT_SENT", "TIMEOUT"}

\* Mutant: a packet sent again never times out again.
OutstandingOnce(item) == item.state = "SENT"

Outstanding(item) == item.state \in {"SENT", "RESENT"}
Unsent(item)      == item.state \in {"NOT_SENT", "TIMEOUT"}

\* Mutant: the last item of the deque is out of reach.
SendableButLast(window, congestionWindow) ==
  1..Smaller(congestionWindow, Len(window) - 1)

\* Positions that the congestion window lets prepareDataPacketsToSend reach.
Sendable(window, congestionWindow) ==
  1..Smaller(congestionWindow, Len(window))

HasUnsent(window, congestionWindow) ==
  \E i \in Sendable(window, congestionWindow) : Unsent(window[i])

\* Mutants of SlideAndFill: the refill stops one packet too late; numbers the
\* new items from the old left bound; ignores that the congestion window has
\* grown; drops the items that a shrunk congestion window has no room for.
SlideAndFillTooFar(window, n, leftBound, congestionWindow) ==
  LET kept == Len(window) - n
      room == Smaller(congestionWindow, LastPacketSeqNum + 2 - leftBound)
  IN  [i \in 1..Larger(kept, room) |->
         IF i <= kept THEN window[i + n] ELSE NewSenderItem(leftBound + i - 1)]

SlideAndFillOldBound(window, n, leftBound, congestionWindow) ==
  LET kept == Len(window) - n
      room == Smaller(congestionWindow, LastPacketSeqNum + 1 - leftBound)
  IN  [i \in 1..Larger(kept, room) |->
         IF i <= kept THEN window[i + n]
         ELSE NewSenderItem(leftBound - n + i - 1)]

SlideAndFillMinimum(window, n, leftBound, congestionWindow) ==
  LET kept == Len(window) - n
      room == Smaller(CONGESTION_WINDOW_MIN, LastPacketSeqNum + 1 - leftBound)
  IN  [i \in 1..Larger(kept, room) |->
         IF i <= kept THEN window[i + n] ELSE NewSenderItem(leftBound + i - 1)]

SlideAndFillCut(window, n, leftBound, congestionWindow) ==
  LET kept == Len(window) - n
      room == Smaller(congestionWindow, LastPacketSeqNum + 1 - leftBound)
  IN  [i \in 1..room |->
         IF i <= kept THEN window[i + n] ELSE NewSenderItem(leftBound + i - 1)]

\* The window without its first n items, refilled from the right with new
\* items up to congestionWindow of them, but never past the last packet.
\* (Popping more items than there are is undefined behaviour; that it does
\* not happen is a property, so any value will do for that case.)
SlideAndFill(window, n, leftBound, congestionWindow) ==
  LET kept == Len(window) - n
      room == Smaller(congestionWindow, LastPacketSeqNum + 1 - leftBound)
  IN  [i \in 1..Larger(kept, room) |->
         IF i <= kept THEN window[i + n] ELSE NewSenderItem(leftBound + i - 1)]

SenderInit ==
  /\ senderWindow = SlideAndFill(<<>>, 0, 0, CONGESTION_WINDOW_MIN)
  /\ slideWindowLeftBoundSeqNum = 0
  /\ bytesSent = 0
  /\ newDataReady = TRUE
  /\ curCongestionWindow = CONGESTION_WINDOW_MIN
  /\ curCongestionThreshold = UINT_MAX
  /\ congestionLeftBoundSeqNum = CONGESTION_WINDOW_MIN
  /\ curCongestionWindowTimeouted = FALSE
  /\ lastAck = 0
  /\ lastAckAckedCount = 0

\* Mutant: finished when the window has reached the last packet.
SenderFinishedAtLast == slideWindowLeftBoundSeqNum = LastPacketSeqNum

SenderFinished == bytesSent = bytesToSend

HasDataToSend == ~SenderFinished /\ newDataReady

-----------------------------------------------------------------------------
(***************************************************************************)
(* prepareDataPacketsToSend                                                *)
(***************************************************************************)

\* The packet an item is sent in.  Its data pointer still points into the
\* item, which is why FillBufferDataPacket reads the data later.
DataPacketOf(item) ==
  [type   |-> IF item.seqNum = LastPacketSeqNum
              THEN DATA_PACKET_TYPE_FINISH ELSE DATA_PACKET_TYPE_REGULAR,
   seqNum |-> item.seqNum]

\* Mutant: a packet that has timed out is not sent again.
ToSendNew ==
  {i \in Sendable(senderWindow, curCongestionWindow) :
     senderWindow[i].state = "NOT_SENT"}

ToSend ==
  {i \in Sendable(senderWindow, curCongestionWindow) : Unsent(senderWindow[i])}

PreparedPackets == {DataPacketOf(senderWindow[i]) : i \in ToSend}

PrepareDataPacketsToSend ==
  /\ senderWindow' =
       [i \in 1..Len(senderWindow) |->
          IF i \in ToSend
          THEN [senderWindow[i] EXCEPT
                  !.state = IF @ = "NOT_SENT" THEN "SENT" ELSE "RESENT"]
          ELSE senderWindow[i]]
  /\ newDataReady' = FALSE
  /\ curCongestionWindowTimeouted' = FALSE
  /\ UNCHANGED <<slideWindowLeftBoundSeqNum, bytesSent, curCongestionWindow,
                 curCongestionThreshold, congestionLeftBoundSeqNum,
                 lastAck, lastAckAckedCount>>

-----------------------------------------------------------------------------
(***************************************************************************)
(* Congestion control.                                                     *)
(***************************************************************************)

\* (unsigned)(window * 0.62), but at least CONGESTION_THRESHOLD_MIN.
ShrunkThreshold ==
  Larger(CONGESTION_THRESHOLD_MIN,
         (curCongestionWindow * CONGESTION_THRESHOLD_SHRINK) \div 100)

\* Slow start doubles up to the threshold, then the growth is linear.
GrownWindow(window, threshold) ==
  IF window < threshold
  THEN Smaller(2 * window, threshold)
  ELSE window + CONGESTION_THRESHOLD_MIN

-----------------------------------------------------------------------------
(***************************************************************************)
(* ackArrived.  Its five stages, in the order of the code: selective       *)
(* acknowledgement, fast retransmission, cumulative acknowledgement,       *)
(* congestion control, refill.                                             *)
(***************************************************************************)

\* 1. The selective field marks an item unless the receiver answered a
\*    packet out of its buffer (cumulative = selective).
\* (Mutant: it marks it in any case.)
AfterSelectiveAlways(ack) ==
  [i \in 1..Len(senderWindow) |->
     IF slideWindowLeftBoundSeqNum + i - 1 = ack.selectiveSeqNum
     THEN [senderWindow[i] EXCEPT !.state = "ACKED"]
     ELSE senderWindow[i]]

AfterSelective(ack) ==
  [i \in 1..Len(senderWindow) |->
     IF /\ ack.cumulativeSeqNum # ack.selectiveSeqNum
        /\ slideWindowLeftBoundSeqNum + i - 1 = ack.selectiveSeqNum
     THEN [senderWindow[i] EXCEPT !.state = "ACKED"]
     ELSE senderWindow[i]]

\* 2. Repetitions of the newest cumulative acknowledgement are counted; the
\*    count matters only up to the threshold, so one more stands for all
\*    larger values.
Repeated(ack) == fastRetransmission /\ lastAck = ack.cumulativeSeqNum

FastRetransmit(ack) ==
  Repeated(ack) /\ lastAckAckedCount + 1 = FAST_RETRANSMISSION_THRESHOLD

Recover(ack) == FastRetransmit(ack) /\ ~curCongestionWindowTimeouted

\* A fast retransmission punishes the window unless it has been punished: it
\* shrinks to the new threshold, and its mark is set anew.
RecoveredThreshold(ack) ==
  IF Recover(ack) THEN ShrunkThreshold ELSE curCongestionThreshold

RecoveredWindow(ack) ==
  IF Recover(ack) THEN ShrunkThreshold ELSE curCongestionWindow

\* Mutant: the mark stays where it was when the window shrinks.
RecoveredMarkUnmoved(ack) == congestionLeftBoundSeqNum

RecoveredMark(ack) ==
  IF Recover(ack) THEN slideWindowLeftBoundSeqNum + RecoveredWindow(ack)
  ELSE congestionLeftBoundSeqNum

RecoverCongestion(ack) ==
  /\ curCongestionThreshold' = RecoveredThreshold(ack)
  /\ curCongestionWindowTimeouted' =
       (curCongestionWindowTimeouted \/ Recover(ack))

\* The oldest packet is marked for retransmission if it is outstanding.
Retransmits(ack) ==
  FastRetransmit(ack) /\ senderWindow # <<>> /\ Outstanding(AfterSelective(ack)[1])

AfterFastRetransmit(ack) ==
  [i \in 1..Len(senderWindow) |->
     IF Retransmits(ack) /\ i = 1
     THEN [AfterSelective(ack)[i] EXCEPT !.state = "TIMEOUT"]
     ELSE AfterSelective(ack)[i]]

\* Mutant: a late acknowledgement, which is not the newest, is taken for it.
CountAnyAck(ack) ==
  /\ lastAck' = IF fastRetransmission THEN ack.cumulativeSeqNum ELSE lastAck
  /\ lastAckAckedCount' =
       IF Repeated(ack)
       THEN Smaller(lastAckAckedCount + 1, FAST_RETRANSMISSION_THRESHOLD + 1)
       ELSE 0

CountAck(ack) ==
  /\ lastAck' = IF fastRetransmission
                THEN Larger(lastAck, ack.cumulativeSeqNum) ELSE lastAck
  /\ lastAckAckedCount' =
       IF Repeated(ack)
       THEN Smaller(lastAckAckedCount + 1, FAST_RETRANSMISSION_THRESHOLD + 1)
       ELSE IF lastAck' # lastAck THEN 0 ELSE lastAckAckedCount

\* 4. The window grows when the left bound reaches its mark.
AdjustCongestion(ack) ==
  LET grow == slideWindowLeftBoundSeqNum' >= RecoveredMark(ack)
  IN  /\ curCongestionWindow' =
           IF grow THEN GrownWindow(RecoveredWindow(ack), RecoveredThreshold(ack))
           ELSE RecoveredWindow(ack)
      /\ congestionLeftBoundSeqNum' =
           IF grow THEN slideWindowLeftBoundSeqNum' + curCongestionWindow'
           ELSE RecoveredMark(ack)

AckArrived(ack) ==
  /\ slideWindowLeftBoundSeqNum' =
       Larger(slideWindowLeftBoundSeqNum, ack.cumulativeSeqNum)
  /\ bytesSent' = bytesSent + BytesUpTo(slideWindowLeftBoundSeqNum')
                            - BytesUpTo(slideWindowLeftBoundSeqNum)
  /\ CountAck(ack)
  /\ RecoverCongestion(ack)
  /\ AdjustCongestion(ack)
  /\ senderWindow' =
       SlideAndFill(AfterFastRetransmit(ack),
                    slideWindowLeftBoundSeqNum' - slideWindowLeftBoundSeqNum,
                    slideWindowLeftBoundSeqNum', curCongestionWindow')
  /\ newDataReady' =
       \/ newDataReady
       \/ Retransmits(ack)
       \/ HasUnsent(senderWindow', curCongestionWindow')

-----------------------------------------------------------------------------
(***************************************************************************)
(* checkTimeout, when the outstanding items at the positions `expired` are *)
(* older than the current timeout.                                         *)
(***************************************************************************)

OutstandingPositions ==
  {i \in 1..Len(senderWindow) : Outstanding(senderWindow[i])}

\* Mutant: every timeout punishes, even in a round punished before.
PunishesAgain(expired) == expired # {}

\* A round is punished once, however many items expire in it.
Punishes(expired) == expired # {} /\ ~curCongestionWindowTimeouted

CheckTimeout(expired) ==
  /\ expired \subseteq OutstandingPositions
  /\ senderWindow' =
       [i \in 1..Len(senderWindow) |->
          IF i \in expired
          THEN [senderWindow[i] EXCEPT !.state = "TIMEOUT"]
          ELSE senderWindow[i]]
  /\ IF Punishes(expired)
     THEN /\ curCongestionThreshold' = ShrunkThreshold
          /\ curCongestionWindow' = CONGESTION_WINDOW_MIN
          /\ congestionLeftBoundSeqNum' =
               slideWindowLeftBoundSeqNum + CONGESTION_WINDOW_MIN
          /\ curCongestionWindowTimeouted' = TRUE
     ELSE UNCHANGED <<curCongestionThreshold, curCongestionWindow,
                      congestionLeftBoundSeqNum,
                      curCongestionWindowTimeouted>>
  /\ newDataReady' =
       (newDataReady \/ HasUnsent(senderWindow', curCongestionWindow'))
  /\ UNCHANGED <<slideWindowLeftBoundSeqNum, bytesSent,
                 lastAck, lastAckAckedCount>>

-----------------------------------------------------------------------------
\* The types of the sender's variables; bytesSent never exceeds bytesToSend.
SenderTypeOK ==
  /\ senderWindow \in Seq([seqNum : SeqNums, state : ItemState])
  /\ slideWindowLeftBoundSeqNum \in Nat
  /\ bytesSent \in 0..bytesToSend
  /\ newDataReady \in BOOLEAN
  /\ curCongestionWindow \in Nat
  /\ curCongestionThreshold \in Nat
  /\ congestionLeftBoundSeqNum \in Nat
  /\ curCongestionWindowTimeouted \in BOOLEAN
  /\ lastAck \in Nat
  /\ lastAckAckedCount \in 0..(FAST_RETRANSMISSION_THRESHOLD + 1)

-----------------------------------------------------------------------------
(***************************************************************************)
(* Properties of the sender's window on its own.                           *)
(***************************************************************************)

\* The item at position i is the item of packet left + i - 1.
SenderAligned ==
  \A i \in 1..Len(senderWindow) :
    senderWindow[i].seqNum = slideWindowLeftBoundSeqNum + i - 1

\* A packet that the congestion window allows to send, new or timed out, is
\* never forgotten: newDataReady is set, so that sendData will run.
NoForgottenPacket ==
  HasUnsent(senderWindow, curCongestionWindow) => newDataReady

\* The newest cumulative acknowledgement is the left bound of the window, so
\* the packet fast retransmission sends again is the one the receiver asks
\* for.
LastAckIsLeftBound ==
  fastRetransmission => lastAck = slideWindowLeftBoundSeqNum

\* The deque holds as many items as the congestion window allows, or all
\* that are left of the file.
WindowFilled ==
  Len(senderWindow) >=
    Smaller(curCongestionWindow,
            LastPacketSeqNum + 1 - slideWindowLeftBoundSeqNum)

\* The congestion window grows at most once per window of acknowledged data:
\* the mark the left bound has to reach is always ahead of it, but no
\* farther than the window.
GrowthPaced ==
  /\ slideWindowLeftBoundSeqNum < congestionLeftBoundSeqNum
  /\ congestionLeftBoundSeqNum <=
       slideWindowLeftBoundSeqNum + curCongestionWindow

\* The window never reaches beyond the last packet of the file.
WindowInFile ==
  slideWindowLeftBoundSeqNum + Len(senderWindow) <= LastPacketSeqNum + 1

\* The congestion window never falls below its minimum.
CongestionBounded ==
  /\ curCongestionWindow >= CONGESTION_WINDOW_MIN
  /\ curCongestionThreshold >= CONGESTION_WINDOW_MIN

\* Together with the type invariant, these are inductive as long as every
\* acknowledgement is within the window.
SenderInv ==
  /\ SenderAligned
  /\ WindowInFile
  /\ CongestionBounded
  /\ GrowthPaced
  /\ WindowFilled
  /\ NoForgottenPacket
  /\ LastAckIsLeftBound
  /\ bytesSent = BytesUpTo(slideWindowLeftBoundSeqNum)

=============================================================================
