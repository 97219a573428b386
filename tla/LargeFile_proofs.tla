-------------------------- MODULE LargeFile_proofs --------------------------
(***************************************************************************)
(* Proofs about files of any size: whatever wraps around, bytes are        *)
(* written only at the places they have in the file sent; as long as the   *)
(* places fit into an unsigned int, a finished receiver has them all; and  *)
(* the sender's count of bytes tells when all packets are acknowledged.    *)
(*                                                                         *)
(* What a sum of sizes amounts to is shown by way of the first number for  *)
(* which it does not: LeastNat stands for induction.                       *)
(***************************************************************************)
EXTENDS LargeFile, TLAPS, WellFoundedInduction

-----------------------------------------------------------------------------
(***************************************************************************)
(* Induction, and the sums defined with it.                                *)
(***************************************************************************)

\* Any numbers have a least one.
LEMMA LeastNat ==
  ASSUME NEW T, T \subseteq Nat, T # {}
  PROVE  \E m \in T : \A k \in T : m <= k
<1> DEFINE R == OpToRel(<, Nat)
<1>1. IsWellFoundedOn(R, Nat)
  BY NatLessThanWellFounded
<1>2. \A x, y \in Nat : x < y => <<x, y>> \in R
  BY DEF OpToRel
<1> HIDE DEF R
<1>3. PICK m \in T : \A k \in T : ~ (<<k, m>> \in R)
  BY <1>1, WFMin
<1>4. ASSUME NEW k \in T PROVE m <= k
  <2>1. m \in Nat /\ k \in Nat
    OBVIOUS
  <2>2. ~ (k < m)
    BY <1>2, <1>3, <2>1
  <2> QED
    BY <2>1, <2>2
<1> QED
  BY <1>4

\* The running sums of d exist.
LEMMA SumExists ==
  ASSUME NEW d
  PROVE  \E sum : sum = [n \in Nat |-> IF n = 0 THEN 0
                                      ELSE sum[n - 1] + d[n - 1]]
<1> DEFINE Sums(f, n) ==
      f = [i \in 0..n |-> IF i = 0 THEN 0 ELSE f[i - 1] + d[i - 1]]
<1>1. ASSUME NEW n \in Nat, NEW m \in Nat, NEW f, NEW g, 
             Sums(f, n), Sums(g, m), NEW k \in Nat, k <= n, k <= m
      PROVE  f[k] = g[k]
  <2> DEFINE T == {i \in 0..k : f[i] # g[i]}
  <2>1. SUFFICES ASSUME T # {} PROVE FALSE
    OBVIOUS
  <2>2. T \subseteq Nat
    OBVIOUS
  <2>3. PICK i \in T : \A j \in T : i <= j
    <3> HIDE DEF T
    <3> QED
      BY <2>1, <2>2, LeastNat
  <2>4. f[i] = IF i = 0 THEN 0 ELSE f[i - 1] + d[i - 1]
    BY <1>1
  <2>5. g[i] = IF i = 0 THEN 0 ELSE g[i - 1] + d[i - 1]
    BY <1>1
  <2>6. CASE i = 0
    BY <2>4, <2>5, <2>6
  <2>7. CASE i # 0
    <3>1. i - 1 \in 0..k /\ ~(i <= i - 1)
      BY <2>7
    <3>2. f[i - 1] = g[i - 1]
      BY <2>3, <3>1
    <3> QED
      BY <2>4, <2>5, <2>7, <3>2
  <2> QED
    BY <2>6, <2>7
<1>2. ASSUME NEW n \in Nat PROVE \E f : Sums(f, n)
  <2> DEFINE T == {i \in Nat : ~ \E f : Sums(f, i)}
  <2>1. SUFFICES ASSUME T # {} PROVE FALSE
    OBVIOUS
  <2>2. T \subseteq Nat
    OBVIOUS
  <2>3. PICK i \in T : \A j \in T : i <= j
    <3> HIDE DEF T
    <3> QED
      BY <2>1, <2>2, LeastNat
  <2>4. CASE i = 0
    <3> DEFINE f == [j \in 0..0 |-> 0]
    <3>1. Sums(f, 0)
      OBVIOUS
    <3> QED
      BY <2>4, <3>1
  <2>5. CASE i # 0
    <3>1. i \in Nat /\ i - 1 \in Nat /\ ~(i <= i - 1)
      BY <2>5
    <3>2. PICK f : Sums(f, i - 1)
      BY <2>3, <3>1
    <3> DEFINE g == [j \in 0..i |-> IF j = i THEN f[i - 1] + d[i - 1] ELSE f[j]]
    <3>3. ASSUME NEW j \in 0..i
          PROVE  g[j] = IF j = 0 THEN 0 ELSE g[j - 1] + d[j - 1]
      <4>1. CASE j = i
        BY <2>5, <3>1, <4>1
      <4>2. CASE j # i
        <5>1. j \in 0..(i - 1)
          BY <3>1, <4>2
        <5>2. f[j] = IF j = 0 THEN 0 ELSE f[j - 1] + d[j - 1]
          BY <3>2, <5>1
        <5>3. j # 0 => g[j - 1] = f[j - 1]
          BY <3>1, <5>1
        <5> QED
          BY <4>2, <5>2, <5>3
      <4> QED
        BY <4>1, <4>2
    <3>4. Sums(g, i)
      BY <3>3
    <3> HIDE DEF Sums, g
    <3> QED
      BY <2>3, <3>4
  <2> QED
    BY <2>4, <2>5
<1> DEFINE approx(n) == CHOOSE f : Sums(f, n)
           sum == [n \in Nat |-> approx(n)[n]]
<1>3. ASSUME NEW n \in Nat PROVE Sums(approx(n), n)
  <2> HIDE DEF Sums
  <2> QED
    BY <1>2
<1>4. ASSUME NEW n \in Nat
      PROVE  sum[n] = IF n = 0 THEN 0 ELSE sum[n - 1] + d[n - 1]
  <2> HIDE DEF approx
  <2>1. approx(n)[n] = IF n = 0 THEN 0 ELSE approx(n)[n - 1] + d[n - 1]
    <3>1. Sums(approx(n), n)
      BY <1>3
    <3> QED
      BY <3>1
  <2>2. CASE n # 0
    <3>1. n - 1 \in Nat /\ n - 1 <= n /\ n - 1 <= n - 1
      BY <2>2
    <3>2. Sums(approx(n), n) /\ Sums(approx(n - 1), n - 1)
      BY <1>3, <3>1
    <3>3. approx(n)[n - 1] = approx(n - 1)[n - 1]
      <4> HIDE DEF Sums
      <4> QED
        BY <1>1, <3>1, <3>2
    <3> QED
      BY <2>1, <2>2, <3>1, <3>3
  <2> QED
    BY <2>1, <2>2
<1>5. sum = [n \in Nat |-> IF n = 0 THEN 0 ELSE sum[n - 1] + d[n - 1]]
  <2> HIDE DEF approx
  <2> QED
    BY <1>4
<1> HIDE DEF sum
<1> QED
  BY <1>5

\* What SizesUpTo is.
LEMMA SizesUpToStep ==
  /\ SizesUpTo[0] = 0
  /\ \A n \in Nat : SizesUpTo[n + 1] = SizesUpTo[n] + DataSize(n)
<1> DEFINE d == [n \in Nat |-> DataSize(n)]
           step(sum) == [n \in Nat |-> IF n = 0 THEN 0
                                       ELSE sum[n - 1] + DataSize(n - 1)]
<1>1. PICK sum : sum = [n \in Nat |-> IF n = 0 THEN 0 ELSE sum[n - 1] + d[n - 1]]
  <2> HIDE DEF d
  <2> QED BY SumExists
<1>2. sum = step(sum)
  <2>1. \A n \in Nat : n # 0 => d[n - 1] = DataSize(n - 1)
    OBVIOUS
  <2> HIDE DEF d
  <2> QED BY <1>1, <2>1
<1>3. SizesUpTo = CHOOSE f : f = step(f)
  BY DEF SizesUpTo
<1>4. SizesUpTo = step(SizesUpTo)
  <2> HIDE DEF step
  <2> QED BY <1>2, <1>3
<1>5. \A n \in Nat : SizesUpTo[n] = IF n = 0 THEN 0
                                       ELSE SizesUpTo[n - 1] + DataSize(n - 1)
   BY <1>4
<1>6. \A n \in Nat : n + 1 \in Nat /\ n + 1 # 0 /\ (n + 1) - 1 = n
  OBVIOUS
<1> QED BY <1>5, <1>6

-----------------------------------------------------------------------------
(***************************************************************************)
(* Remainders, numbers and sizes of packets.                               *)
(***************************************************************************)

\* What a remainder is.
LEMMA DivisionFacts ==
  ASSUME NEW a \in Nat, NEW d \in Nat \ {0}
  PROVE  /\ a \div d \in Nat
         /\ a % d \in 0..(d - 1)
         /\ a = d * (a \div d) + (a % d)
  OBVIOUS

\* An unsigned int is within its range; within it, a number is itself.
LEMMA UintFacts ==
  ASSUME NEW n \in Nat
  PROVE  /\ Uint(n) \in 0..UINT_MAX
         /\ n <= UINT_MAX => Uint(n) = n
         /\ Uint(n) <= n
<1>1. UINT_MAX \in Nat
  BY LargeFileAssumption
<1>2. n % (UINT_MAX + 1) \in 0..UINT_MAX
  BY <1>1, DivisionFacts
<1>3. ASSUME n <= UINT_MAX
      PROVE  n % (UINT_MAX + 1) = n
  BY <1>1, <1>3
<1>4. ASSUME n > UINT_MAX
      PROVE  n % (UINT_MAX + 1) <= n
  BY <1>1, <1>2, <1>4
<1> QED
  BY <1>1, <1>2, <1>3, <1>4 DEF Uint

\* The number of the last packet does not wrap: the bytes to send end in it.
LEMMA LastPacketFacts ==
  ASSUME bytesToSend \in 0..MaxBytes, bytesToSend > 0
  PROVE  /\ LastPacketSeqNum \in 0..UINT_MAX
         /\ LastPacketSeqNum * DATA_PACKET_DATA_SIZE < bytesToSend
         /\ bytesToSend <= (LastPacketSeqNum + 1) * DATA_PACKET_DATA_SIZE
         /\ bytesToSend % DATA_PACKET_DATA_SIZE = 0 =>
              bytesToSend = (LastPacketSeqNum + 1) * DATA_PACKET_DATA_SIZE
<1> DEFINE D == DATA_PACKET_DATA_SIZE
           q == bytesToSend \div D
           r == bytesToSend % D
<1>1. /\ UINT_MAX \in Nat
      /\ D \in Nat /\ D >= 2
      /\ bytesToSend \in Nat
      /\ bytesToSend <= (UINT_MAX + 1) * D
  BY LargeFileAssumption
<1>2. q \in Nat /\ r \in 0..(D - 1) /\ bytesToSend = D * q + r
  <2>1. D \in Nat \ {0}
    BY <1>1
  <2> QED
    BY <1>1, <2>1, DivisionFacts, Zenon
<1> HIDE DEF D, q, r
<1>3. q <= UINT_MAX + 1 /\ (r > 0 => q <= UINT_MAX)
  <2>1. D * q + r <= D * (UINT_MAX + 1)
    BY <1>1, <1>2
  <2>2. ASSUME q >= UINT_MAX + 2 PROVE FALSE
    <3>1. D * q >= D * (UINT_MAX + 2)
      BY <1>1, <1>2, <2>2
    <3>2. D * (UINT_MAX + 2) = D * (UINT_MAX + 1) + D
      BY <1>1
    <3> QED
      BY <1>1, <1>2, <2>1, <3>1, <3>2
  <2>3. ASSUME q = UINT_MAX + 1, r > 0 PROVE FALSE
    BY <1>1, <1>2, <2>1, <2>3
  <2> QED
    BY <1>1, <1>2, <2>2, <2>3
<1>4. CASE r = 0
  <2>1. q >= 1
    BY <1>1, <1>2, <1>4
  <2>2. LastPacketSeqNum = q - 1
    BY <1>1, <1>2, <1>3, <1>4, <2>1, UintFacts DEF LastPacketSeqNum, D, q, r
  <2>3. (q - 1) * D < D * q /\ (q - 1 + 1) * D = D * q
    BY <1>1, <1>2
  <2> QED
    BY <1>1, <1>2, <1>3, <1>4, <2>1, <2>2, <2>3 DEF D, r
<1>5. CASE r > 0
  <2>1. LastPacketSeqNum = q
    BY <1>1, <1>2, <1>3, <1>5, UintFacts DEF LastPacketSeqNum, D, q, r
  <2>2. (q + 1) * D = D * q + D /\ q * D = D * q
    BY <1>1, <1>2
  <2> QED
    BY <1>1, <1>2, <1>3, <1>5, <2>1, <2>2 DEF D, r
<1> QED
  BY <1>2, <1>4, <1>5

\* What was asked for never changes.
RequestOK == fileSize \in Nat /\ bytesToSend \in 0..MaxBytes

\* The sizes and places of packets are numbers.
LEMMA SizeFacts ==
  ASSUME RequestOK, NEW seqNum \in Nat
  PROVE  /\ ReadOffset(seqNum) \in Nat
         /\ SizeAsked(seqNum) \in Nat
         /\ DataSize(seqNum) \in Nat
<1>1. ReadOffset(seqNum) \in Nat
  <2>1. seqNum * DATA_PACKET_DATA_SIZE \in Nat
    BY LargeFileAssumption
  <2> QED
    BY <2>1, UintFacts, LargeFileAssumption DEF ReadOffset
<1>2. CASE bytesToSend = 0
  <2>1. bytesToSend % DATA_PACKET_DATA_SIZE = 0
    BY <1>2, LargeFileAssumption
  <2> QED
    BY <1>1, <2>1, LargeFileAssumption
       DEF SizeAsked, LastPacketSize, DataSize, Larger, Smaller, RequestOK
<1>3. CASE bytesToSend > 0
  <2> DEFINE place == LastPacketSeqNum * DATA_PACKET_DATA_SIZE
  <2>1. place \in Nat /\ place < bytesToSend /\ bytesToSend \in Nat
    BY <1>3, LastPacketFacts, LargeFileAssumption DEF RequestOK
  <2> HIDE DEF place
  <2>2. Uint(place) \in Nat /\ Uint(place) <= place
    BY <2>1, UintFacts, LargeFileAssumption
  <2>3. bytesToSend - Uint(place) \in Nat
    BY <2>1, <2>2
  <2>4. Uint(bytesToSend - Uint(place)) \in Nat
    BY <2>3, UintFacts, LargeFileAssumption
  <2>5. LastPacketSize \in Nat
    BY <2>4, LargeFileAssumption DEF LastPacketSize, place
  <2>6. SizeAsked(seqNum) \in Nat
    BY <2>5, LargeFileAssumption DEF SizeAsked
  <2> QED
    BY <1>1, <2>6 DEF DataSize, Larger, Smaller, RequestOK
<1> QED
  BY <1>2, <1>3, LargeFileAssumption DEF RequestOK

\* The places of a packet stay the same.
LEMMA PlacesStay ==
  ASSUME UNCHANGED request, NEW seqNum
  PROVE  PlacesOf(seqNum)' = PlacesOf(seqNum)
  BY DEF request, PlacesOf, WriteOffset, ReadOffset, DataSize, SizeAsked,
         LastPacketSize, LastPacketSeqNum

-----------------------------------------------------------------------------
(***************************************************************************)
(* The invariant: what the receiver has received it has written, and what  *)
(* it has written is in place.                                             *)
(***************************************************************************)

Received(seqNum) ==
  seqNum < nextExpectedPacketSeqNum \/ seqNum \in receivedAhead

BufferOK ==
  /\ nextExpectedPacketSeqNum \in 0..UINT_MAX
  /\ receivedAhead \subseteq 0..(UINT_MAX - 1)

ReceivedWritten ==
  \A s \in Nat : Received(s) => PlacesOf(s) \subseteq DOMAIN file

LargeInv ==
  /\ RequestOK
  /\ BufferOK
  /\ ReceivedWritten
  /\ WrittenInPlace

\* In the buffer, the receiver keeps below the largest unsigned int, has
\* received nothing but this packet in addition, and never moves back.
LEMMA SlideStep ==
  ASSUME LargeInv, NEW seqNum \in Nat, InBuffer(seqNum),
         SlidePast(receivedAhead \cup {seqNum})
  PROVE  /\ BufferOK'
         /\ \A s \in Nat : Received(s)' => Received(s) \/ s = seqNum
         /\ nextExpectedPacketSeqNum <= nextExpectedPacketSeqNum'
         /\ \A s \in receivedAhead' : s > nextExpectedPacketSeqNum'
<1> DEFINE received == receivedAhead \cup {seqNum}
           next     == nextExpectedPacketSeqNum
<1>1. UINT_MAX \in Nat /\ INIT_WINDOW_SIZE \in Nat /\ next \in Nat
      /\ next <= UINT_MAX
  BY LargeFileAssumption DEF LargeInv, BufferOK
<1>2. seqNum < UINT_MAX
  BY <1>1, UintFacts DEF InBuffer
<1>3. received \subseteq 0..(UINT_MAX - 1)
  BY <1>1, <1>2 DEF LargeInv, BufferOK
<1>4. PICK n \in 0..INIT_WINDOW_SIZE :
        /\ \A i \in 0..(n - 1) : next + i \in received
        /\ next' = Uint(next + n)
        /\ receivedAhead' = {s \in received : s > next + n}
  BY DEF SlidePast
<1>5. next + n <= UINT_MAX
  <2>1. CASE n = 0
    BY <1>1, <2>1
  <2>2. CASE n > 0
    <3>1. n - 1 \in 0..(n - 1)
      BY <1>1, <2>2
    <3>2. next + (n - 1) \in received
      BY <1>4, <3>1
    <3> QED
      BY <1>1, <1>3, <3>2
  <2> QED
    BY <1>1, <2>1, <2>2
<1>6. next' = next + n
  BY <1>1, <1>4, <1>5, UintFacts
<1>7. BufferOK'
  BY <1>1, <1>3, <1>4, <1>5, <1>6 DEF BufferOK
<1>8. ASSUME NEW s \in Nat, s < next'
      PROVE  s < next \/ s \in received
  <2>1. CASE s >= next
    <3>1. s - next \in 0..(n - 1)
      BY <1>1, <1>6, <1>8, <2>1
    <3>2. next + (s - next) \in received
      BY <1>4, <3>1
    <3> QED
      BY <1>1, <3>2
  <2> QED
    BY <1>1, <2>1
<1>9. next <= next' /\ \A s \in receivedAhead' : s > next'
  BY <1>1, <1>4, <1>6
<1> QED
  BY <1>4, <1>7, <1>8, <1>9 DEF Received

\* Both sides take the same place for a packet.
LEMMA WriteStep ==
  ASSUME RequestOK, bytesToSend > 0, WrittenInPlace, NEW seqNum \in Nat,
         WritePacket(seqNum)
  PROVE  /\ WrittenInPlace'
         /\ DOMAIN file' = DOMAIN file \cup PlacesOf(seqNum)
<1>1. WriteOffset(seqNum) = ReadOffset(seqNum)
  BY DEF WriteOffset, ReadOffset
<1>2. ReadOffset(seqNum) \in Nat /\ DataSize(seqNum) \in Nat
  BY SizeFacts
<1>3. ASSUME NEW place \in PlacesOf(seqNum)
      PROVE  ReadOffset(seqNum) + (place - WriteOffset(seqNum)) = place
  BY <1>1, <1>2 DEF PlacesOf
<1> QED
  BY <1>3 DEF WritePacket, WrittenInPlace

\* Every step keeps the invariant.
LEMMA LargeStep ==
  ASSUME LargeInv, [LargeNext]_largeVars
  PROVE  LargeInv'
<1>1. CASE UNCHANGED <<request, receiverSide>>
  <2>1. RequestOK'
    BY <1>1 DEF request, RequestOK, LargeInv
  <2>2. BufferOK' /\ WrittenInPlace'
    BY <1>1 DEF receiverSide, BufferOK, WrittenInPlace, LargeInv
  <2>3. ASSUME NEW s \in Nat, Received(s)'
        PROVE  PlacesOf(s)' \subseteq DOMAIN file'
    <3>1. PlacesOf(s)' = PlacesOf(s)
      BY <1>1, PlacesStay
    <3>2. Received(s) /\ file' = file
      BY <1>1, <2>3 DEF receiverSide, Received
    <3> QED
      BY <3>1, <3>2 DEF LargeInv, ReceivedWritten
  <2> QED
    BY <2>1, <2>2, <2>3 DEF LargeInv, ReceivedWritten
<1>2. ASSUME NEW seqNum \in 0..LastPacketSeqNum, Deliver(seqNum)
      PROVE  LargeInv'
  <2>1. /\ UNCHANGED request
        /\ bytesToSend > 0
        /\ RequestOK
    BY <1>2 DEF Deliver, ReceiveDataPacket, LargeInv
  <2>2. seqNum \in Nat
    BY <2>1, LastPacketFacts DEF RequestOK
  <2>3. RequestOK'
    BY <2>1 DEF request, RequestOK
  <2>4. CASE ~InBuffer(seqNum)
    <3>1. UNCHANGED <<nextExpectedPacketSeqNum, receivedAhead, file>>
      BY <1>2, <2>4 DEF Deliver, ReceiveDataPacket
    <3>2. BufferOK' /\ WrittenInPlace'
      BY <3>1 DEF BufferOK, WrittenInPlace, LargeInv
    <3>3. ASSUME NEW s \in Nat, Received(s)'
          PROVE  PlacesOf(s)' \subseteq DOMAIN file'
      <4>1. PlacesOf(s)' = PlacesOf(s)
        BY <2>1, PlacesStay
      <4>2. Received(s) /\ file' = file
        BY <3>1, <3>3 DEF Received
      <4> QED
        BY <4>1, <4>2 DEF LargeInv, ReceivedWritten
    <3> QED
      BY <2>3, <3>2, <3>3 DEF LargeInv, ReceivedWritten
  <2>5. CASE InBuffer(seqNum)
    <3>1. SlidePast(receivedAhead \cup {seqNum})
      BY <1>2, <2>5 DEF Deliver, ReceiveDataPacket
    <3>2. /\ BufferOK'
          /\ \A s \in Nat : Received(s)' => Received(s) \/ s = seqNum
      BY <2>2, <2>5, <3>1, SlideStep
    <3>3. /\ WrittenInPlace'
          /\ DOMAIN file \subseteq DOMAIN file'
          /\ PlacesOf(seqNum) \subseteq DOMAIN file'
      <4>1. CASE seqNum \in receivedAhead
        <5>1. file' = file
          BY <1>2, <2>5, <4>1 DEF Deliver, ReceiveDataPacket
        <5>2. PlacesOf(seqNum) \subseteq DOMAIN file
          BY <2>2, <4>1 DEF LargeInv, ReceivedWritten, Received
        <5> QED
          BY <5>1, <5>2 DEF LargeInv, WrittenInPlace
      <4>2. CASE seqNum \notin receivedAhead
        <5>1. WritePacket(seqNum)
          BY <1>2, <2>5, <4>2 DEF Deliver, ReceiveDataPacket
        <5>2. WrittenInPlace
          BY DEF LargeInv
        <5>3. /\ WrittenInPlace'
              /\ DOMAIN file' = DOMAIN file \cup PlacesOf(seqNum)
          BY <2>1, <2>2, <5>1, <5>2, WriteStep
        <5> QED
          BY <5>3
      <4> QED
        BY <4>1, <4>2
    <3>4. ASSUME NEW s \in Nat, Received(s)'
          PROVE  PlacesOf(s)' \subseteq DOMAIN file'
      <4>1. PlacesOf(s)' = PlacesOf(s)
        BY <2>1, PlacesStay
      <4>2. Received(s) \/ s = seqNum
        BY <3>2, <3>4
      <4>3. Received(s) => PlacesOf(s) \subseteq DOMAIN file
        BY DEF LargeInv, ReceivedWritten
      <4> QED
        BY <3>3, <4>1, <4>2, <4>3
    <3> QED
      BY <2>3, <3>2, <3>3, <3>4 DEF LargeInv, ReceivedWritten
  <2> QED
    BY <2>4, <2>5
<1>3. CASE SomeAckArrived
  BY <1>1, <1>3 DEF SomeAckArrived, AckArrived
<1>4. CASE UNCHANGED largeVars
  BY <1>1, <1>4 DEF largeVars
<1> QED
  BY <1>2, <1>3, <1>4 DEF LargeNext

\* In every execution, what was received is written, and in place.
LEMMA LargeInvariance == LargeSpec => []LargeInv
<1>1. LargeInit => LargeInv
  <2>1. SUFFICES ASSUME LargeInit PROVE LargeInv
    OBVIOUS
  <2>2. RequestOK
    BY <2>1, LargeFileAssumption DEF LargeInit, RequestOK
  <2>3. BufferOK
    BY <2>1, LargeFileAssumption DEF LargeInit, BufferOK
  <2>4. DOMAIN file = {}
    BY <2>1 DEF LargeInit
  <2>5. \A s \in Nat : ~Received(s)
    BY <2>1 DEF LargeInit, Received
  <2> QED
    BY <2>2, <2>3, <2>4, <2>5 DEF LargeInv, WrittenInPlace, ReceivedWritten
<1>2. LargeInv /\ [LargeNext]_largeVars => LargeInv'
  BY LargeStep
<1> QED
  BY <1>1, <1>2, PTL DEF LargeSpec

\* Whatever the size of the file, and although file offsets wrap around, no
\* byte is ever written at a place that is not its own.
THEOREM InPlace == LargeSpec => []WrittenInPlace
<1>1. LargeInv => WrittenInPlace
  BY DEF LargeInv
<1> QED
  BY <1>1, LargeInvariance, PTL

-----------------------------------------------------------------------------
(***************************************************************************)
(* If places do not wrap, a finished receiver has the whole file.          *)
(***************************************************************************)

\* A byte of the file belongs to the packet it should.
LEMMA ByteInPacket ==
  ASSUME RequestOK, bytesToSend > 0, OffsetsFit, NEW b \in Wanted
  PROVE  \E s \in 0..LastPacketSeqNum : b \in PlacesOf(s)
<1> DEFINE D == DATA_PACKET_DATA_SIZE
           q == b \div D
           r == b % D
           last == LastPacketSeqNum
<1>1. /\ D \in Nat /\ D >= 2 /\ D <= UINT_MAX /\ UINT_MAX \in Nat
      /\ b \in Nat /\ b < bytesToSend /\ b < fileSize
      /\ bytesToSend \in Nat /\ fileSize \in Nat
  BY LargeFileAssumption DEF RequestOK, Wanted
<1>2. q \in Nat /\ r \in 0..(D - 1) /\ b = D * q + r
  <2>1. D \in Nat \ {0}
    BY <1>1
  <2> QED
    BY <1>1, <2>1, DivisionFacts, Zenon
<1>3. /\ last \in 0..UINT_MAX
      /\ last * D < bytesToSend
      /\ bytesToSend <= (last + 1) * D
  BY LastPacketFacts DEF RequestOK
<1>4. last * D <= UINT_MAX
  BY DEF OffsetsFit
<1>5. ReadOffset(q) = Uint(q * D) /\ WriteOffset(q) = Uint(q * D)
  BY DEF ReadOffset, WriteOffset
<1>6. LastPacketSize = IF bytesToSend % D = 0 THEN D
                       ELSE Uint(bytesToSend - Uint(last * D))
  BY DEF LastPacketSize
<1>7. SizeAsked(q) = IF q = last THEN LastPacketSize ELSE D
  BY DEF SizeAsked
<1> HIDE DEF D, q, r, last
<1>8. q <= last
  <2>1. ASSUME q >= last + 1 PROVE FALSE
    <3>1. D * q >= D * (last + 1)
      BY <1>1, <1>2, <1>3, <2>1
    <3> QED
      BY <1>1, <1>2, <1>3, <3>1
  <2> QED
    BY <1>2, <1>3, <2>1
<1>9. q * D \in Nat /\ q * D <= UINT_MAX /\ b = q * D + r
  <2>1. q * D <= last * D
    BY <1>1, <1>2, <1>3, <1>8
  <2> QED
    BY <1>1, <1>2, <1>3, <1>4, <2>1
<1>10. Uint(q * D) = q * D
  BY <1>9, UintFacts
<1>11. SizeAsked(q) \in Nat /\ b < q * D + SizeAsked(q)
  <2>1. CASE q # last \/ bytesToSend % D = 0
    BY <1>1, <1>2, <1>6, <1>7, <1>9, <2>1
  <2>2. CASE q = last /\ bytesToSend % D # 0
    <3>1. Uint(last * D) = last * D
      BY <1>10, <2>2
    <3>2. bytesToSend - last * D \in Nat /\ bytesToSend - last * D <= D
      BY <1>1, <1>3
    <3>3. Uint(bytesToSend - last * D) = bytesToSend - last * D
      BY <1>1, <3>2, UintFacts
    <3>4. SizeAsked(q) = bytesToSend - last * D
      BY <1>6, <1>7, <2>2, <3>1, <3>3
    <3> QED
      BY <1>1, <1>9, <2>2, <3>2, <3>4
  <2> QED
    BY <2>1, <2>2
<1>12. b \in q * D..(q * D + DataSize(q) - 1)
  <2>1. ReadOffset(q) = q * D
    BY <1>5, <1>10
  <2>2. DataSize(q) = SizeAsked(q) \/ DataSize(q) = fileSize - q * D
    BY <1>1, <1>2, <1>9, <1>11, <2>1 DEF DataSize, Larger, Smaller
  <2>3. b <= q * D + DataSize(q) - 1
    BY <1>1, <1>9, <1>11, <2>2
  <2>4. q * D <= b
    BY <1>2, <1>9, <1>1
  <2> QED
    BY <1>1, <1>9, <1>11, <2>2, <2>3, <2>4
<1>13. b \in PlacesOf(q)
  BY <1>5, <1>10, <1>12 DEF PlacesOf
<1>14. q \in 0..LastPacketSeqNum
  BY <1>2, <1>3, <1>8 DEF last
<1> QED
  BY <1>13, <1>14

\* If every place in the file fits into an unsigned int, a receiver that is
\* finished has every byte asked for that the file has.
THEOREM FinishedWhole == LargeSpec => []FinishedMeansWhole
<1>1. LargeInv => FinishedMeansWhole
  <2>1. SUFFICES ASSUME LargeInv, bytesToSend > 0, OffsetsFit,
                        ReceiverFinished, NEW b \in Wanted
                 PROVE  b \in DOMAIN file
    BY DEF FinishedMeansWhole, WholeFile
  <2>2. RequestOK /\ ReceivedWritten
    BY <2>1 DEF LargeInv
  <2>3. PICK s \in 0..LastPacketSeqNum : b \in PlacesOf(s)
    BY <2>1, <2>2, ByteInPacket
  <2>4. LastPacketSeqNum \in Nat /\ LastPacketSeqNum < UINT_MAX
    <3>1. /\ LastPacketSeqNum \in Nat
          /\ LastPacketSeqNum * DATA_PACKET_DATA_SIZE <= UINT_MAX
      BY <2>1, <2>2, LastPacketFacts, LargeFileAssumption
         DEF RequestOK, OffsetsFit
    <3>2. LastPacketSeqNum * 2 <= LastPacketSeqNum * DATA_PACKET_DATA_SIZE
      BY <3>1, LargeFileAssumption
    <3> QED
      BY <3>1, <3>2, LargeFileAssumption
  <2>5. nextExpectedPacketSeqNum = LastPacketSeqNum + 1
    BY <2>1, <2>4, UintFacts, LargeFileAssumption DEF ReceiverFinished
  <2>6. s \in Nat /\ s < nextExpectedPacketSeqNum
    BY <2>3, <2>4, <2>5
  <2> QED
    BY <2>2, <2>3, <2>6 DEF ReceivedWritten, Received
<1> QED
  BY <1>1, LargeInvariance, PTL

-----------------------------------------------------------------------------
(***************************************************************************)
(* What the sender counts.                                                 *)
(***************************************************************************)

\* The sums of sizes stay the same.
LEMMA SumsStay ==
  ASSUME UNCHANGED request
  PROVE  SizesUpTo' = SizesUpTo
  BY DEF SizesUpTo, request, DataSize, SizeAsked, ReadOffset, LastPacketSize,
         LastPacketSeqNum

\* They are numbers.
LEMMA SumsAreNumbers ==
  ASSUME RequestOK, NEW n \in Nat
  PROVE  SizesUpTo[n] \in Nat
<1> DEFINE T == {i \in Nat : SizesUpTo[i] \notin Nat}
<1>1. SUFFICES ASSUME T # {} PROVE FALSE
  OBVIOUS
<1>2. T \subseteq Nat
  OBVIOUS
<1>3. PICK i \in T : \A j \in T : i <= j
  <2> HIDE DEF T
  <2> QED
    BY <1>1, <1>2, LeastNat
<1>4. i # 0
  BY SizesUpToStep
<1>5. i - 1 \in Nat /\ i - 1 \notin T
  BY <1>3, <1>4
<1>6. SizesUpTo[(i - 1) + 1] = SizesUpTo[i - 1] + DataSize(i - 1)
  BY <1>5, SizesUpToStep
<1>7. DataSize(i - 1) \in Nat
  BY <1>5, SizeFacts
<1> QED
  BY <1>5, <1>6, <1>7

\* What is asked for of each packet is what the file is cut into, although
\* the size of the last packet is computed from a place that wraps.
LEMMA CutFacts ==
  ASSUME RequestOK, bytesToSend > 0, NEW s \in 0..LastPacketSeqNum
  PROVE  /\ s \in Nat
         /\ ReadOffset(s) \in Nat
         /\ ReadOffset(s) <= s * DATA_PACKET_DATA_SIZE
         /\ s * DATA_PACKET_DATA_SIZE <= UINT_MAX =>
              ReadOffset(s) = s * DATA_PACKET_DATA_SIZE
         /\ SizeAsked(s) = Smaller(DATA_PACKET_DATA_SIZE,
                                   bytesToSend - s * DATA_PACKET_DATA_SIZE)
<1> DEFINE D == DATA_PACKET_DATA_SIZE
           last == LastPacketSeqNum
<1>1. /\ D \in Nat /\ D >= 2 /\ D <= UINT_MAX /\ UINT_MAX \in Nat
      /\ bytesToSend \in Nat /\ s \in Nat /\ s <= last
      /\ last \in Nat /\ last <= UINT_MAX
  BY LargeFileAssumption, LastPacketFacts DEF RequestOK
<1>2. /\ last * D < bytesToSend
      /\ bytesToSend <= last * D + D
  <2>1. last * D < bytesToSend /\ bytesToSend <= (last + 1) * D
    BY LastPacketFacts DEF RequestOK
  <2>2. (last + 1) * D = last * D + D
    BY <1>1
  <2> QED
    BY <2>1, <2>2
<1>3. s * D \in Nat /\ last * D \in Nat
  BY <1>1
<1>4. ReadOffset(s) = Uint(s * D)
  BY DEF ReadOffset
<1>5. SizeAsked(s) = Smaller(D, bytesToSend - s * D)
  <2>1. SizeAsked(s) = IF s = last THEN LastPacketSize ELSE D
    BY DEF SizeAsked
  <2>2. CASE s # last
    <3>1. s + 1 <= last
      BY <1>1, <2>2
    <3>2. (s + 1) * D <= last * D /\ (s + 1) * D = s * D + D
      BY <1>1, <3>1
    <3> HIDE DEF D, last
    <3> QED
      BY <1>1, <1>2, <1>3, <2>1, <2>2, <3>2 DEF Smaller
  <2>3. CASE s = last
    <3>1. CASE bytesToSend % D = 0
      <4>1. bytesToSend = (last + 1) * D /\ LastPacketSize = D
        BY <3>1, LastPacketFacts DEF RequestOK, LastPacketSize
      <4>2. bytesToSend - last * D = D
        BY <1>1, <4>1
      <4> HIDE DEF D, last
      <4> QED
        BY <1>1, <2>1, <2>3, <4>1, <4>2 DEF Smaller
    <3>2. CASE bytesToSend % D # 0
      <4>1. LastPacketSize = Uint(bytesToSend - Uint(last * D))
        BY <3>2 DEF LastPacketSize
      <4> HIDE DEF D, last
      <4>2. Uint(bytesToSend - Uint(last * D)) = bytesToSend - last * D
        BY <1>1, <1>2, <1>3 DEF Uint
      <4> QED
        BY <1>1, <1>2, <1>3, <2>1, <2>3, <4>1, <4>2 DEF Smaller
    <3> QED
      BY <3>1, <3>2
  <2> QED
    BY <2>2, <2>3
<1> HIDE DEF D, last
<1>6. ReadOffset(s) \in Nat /\ ReadOffset(s) <= s * D
      /\ (s * D <= UINT_MAX => ReadOffset(s) = s * D)
  BY <1>1, <1>3, <1>4, UintFacts
<1> QED
  BY <1>1, <1>5, <1>6 DEF D

\* The first n packets are the bytes up to the place where the last of them
\* ends, if all places fit, and also if the file is not shorter than asked
\* for: what is read at a place that wraps is not shorter than what should
\* have been read.
LEMMA SumsOfSizes ==
  ASSUME RequestOK, bytesToSend > 0, OffsetsFit \/ bytesToSend <= fileSize,
         NEW n \in 0..(LastPacketSeqNum + 1)
  PROVE  SizesUpTo[n] = Smaller(n * DATA_PACKET_DATA_SIZE,
                                Smaller(bytesToSend, fileSize))
<1> DEFINE D == DATA_PACKET_DATA_SIZE
           last == LastPacketSeqNum
           End(i) == Smaller(i * D, Smaller(bytesToSend, fileSize))
           T == {i \in 0..(last + 1) : SizesUpTo[i] # End(i)}
<1>1. /\ D \in Nat /\ D >= 2
      /\ bytesToSend \in Nat /\ fileSize \in Nat
      /\ last \in Nat
  BY LargeFileAssumption, LastPacketFacts DEF RequestOK
<1>2. SUFFICES ASSUME T # {} PROVE FALSE
  BY <1>1
<1>3. PICK i \in T : \A j \in T : i <= j
  <2>1. T \subseteq Nat
    BY <1>1
  <2> HIDE DEF T
  <2> QED
    BY <1>2, <2>1, LeastNat
<1>4. i \in Nat /\ i <= last + 1
  BY <1>1
<1>5. i # 0
  <2>1. End(0) = 0
    BY <1>1 DEF Smaller
  <2> QED
    BY <1>3, <2>1, SizesUpToStep
<1> DEFINE s == i - 1
<1>6. s \in Nat /\ s <= last /\ s \notin T /\ i = s + 1
  BY <1>1, <1>3, <1>4, <1>5
<1>7. SizesUpTo[s] = End(s)
  BY <1>1, <1>6
<1> HIDE DEF s
<1>8. SizesUpTo[i] = SizesUpTo[s] + DataSize(s)
  BY <1>6, SizesUpToStep
<1>9. /\ ReadOffset(s) \in Nat /\ ReadOffset(s) <= s * D
      /\ SizeAsked(s) = Smaller(D, bytesToSend - s * D)
      /\ ReadOffset(s) = s * D \/ bytesToSend <= fileSize
  <2>1. s \in 0..LastPacketSeqNum
    BY <1>1, <1>6
  <2>2. CASE OffsetsFit
    <3>1. last * D <= UINT_MAX
      BY <2>2 DEF OffsetsFit
    <3>2. s * D <= last * D
      BY <1>1, <1>6
    <3>3. s * D <= UINT_MAX
      BY <1>1, <1>6, <3>1, <3>2, LargeFileAssumption
    <3> QED
      BY <2>1, <3>3, CutFacts
  <2> QED
    BY <2>1, <2>2, CutFacts
<1>10. s * D \in Nat /\ i * D = s * D + D /\ s * D < bytesToSend
  <2>1. last * D < bytesToSend
    BY LastPacketFacts DEF RequestOK
  <2>2. s * D <= last * D
    BY <1>1, <1>6
  <2>3. (s + 1) * D = s * D + D /\ s * D \in Nat
    BY <1>1, <1>6
  <2> QED
    BY <1>1, <1>6, <2>1, <2>2, <2>3
<1>11. End(s) + DataSize(s) = End(i)
  <2> HIDE DEF D, last
  <2> QED
    BY <1>1, <1>9, <1>10 DEF DataSize, Smaller, Larger
<1> QED
  BY <1>3, <1>7, <1>8, <1>11

\* What the sender has counted is what it read for the packets its window has
\* slid past; and both sides stay within the file.
CountedRight ==
  /\ bytesSent = SizesUpTo[slideWindowLeftBoundSeqNum]
  /\ bytesToSend = 0 => ~lastPacketSeqNumReceived
  /\ bytesToSend > 0 =>
       \A s \in Nat : Received(s) => s <= LastPacketSeqNum

CountInv == LargeInv /\ LargeTypeOK /\ CountedRight

\* Every step keeps that.
LEMMA CountStep ==
  ASSUME CountInv, [LargeNext]_largeVars
  PROVE  LargeTypeOK' /\ CountedRight'
<1>1. LargeInv /\ LargeTypeOK /\ CountedRight /\ RequestOK
  BY DEF CountInv, LargeInv
<1>2. UINT_MAX \in Nat /\ INIT_WINDOW_SIZE \in Nat
  BY LargeFileAssumption
<1>3. CASE UNCHANGED largeVars
  <2>1. LargeTypeOK'
    BY <1>1, <1>3 DEF largeVars, request, senderSide, receiverSide, LargeTypeOK
  <2>2. SizesUpTo' = SizesUpTo
    BY <1>3, SumsStay DEF largeVars
  <2>3. \A s : Received(s)' <=> Received(s)
    BY <1>3 DEF largeVars, receiverSide, Received
  <2>4. LastPacketSeqNum' = LastPacketSeqNum
    BY <1>3 DEF largeVars, request, LastPacketSeqNum
  <2> QED
    BY <1>1, <1>3, <2>1, <2>2, <2>3, <2>4
       DEF largeVars, request, senderSide, receiverSide, CountedRight
<1>4. ASSUME NEW seqNum \in 0..LastPacketSeqNum, Deliver(seqNum)
      PROVE  LargeTypeOK' /\ CountedRight'
  <2>1. /\ bytesToSend > 0
        /\ UNCHANGED request
        /\ UNCHANGED senderSide
        /\ lastPacketSeqNumReceived' =
             (lastPacketSeqNumReceived \/ seqNum = LastPacketSeqNum)
    BY <1>4 DEF Deliver, ReceiveDataPacket
  <2>2. seqNum \in Nat /\ seqNum <= LastPacketSeqNum
        /\ LastPacketSeqNum' = LastPacketSeqNum
    BY <1>1, <2>1, LastPacketFacts DEF RequestOK, request, LastPacketSeqNum
  <2>3. /\ nextExpectedPacketSeqNum' \in 0..UINT_MAX
        /\ nextExpectedPacketSeqNum <= nextExpectedPacketSeqNum'
        /\ receivedAhead' \subseteq 0..UINT_MAX
        /\ \A s \in receivedAhead' : s > nextExpectedPacketSeqNum'
        /\ DOMAIN file' \subseteq Nat
        /\ \A s \in Nat : Received(s)' => Received(s) \/ s = seqNum
    <3>1. CASE ~InBuffer(seqNum)
      <4>1. UNCHANGED <<nextExpectedPacketSeqNum, receivedAhead, file>>
        BY <1>4, <3>1 DEF Deliver, ReceiveDataPacket
      <4> QED
        BY <1>1, <1>2, <4>1 DEF LargeTypeOK, Received
    <3>2. CASE InBuffer(seqNum)
      <4>1. SlidePast(receivedAhead \cup {seqNum})
        BY <1>4, <3>2 DEF Deliver, ReceiveDataPacket
      <4>2. /\ BufferOK'
            /\ \A s \in Nat : Received(s)' => Received(s) \/ s = seqNum
            /\ nextExpectedPacketSeqNum <= nextExpectedPacketSeqNum'
            /\ \A s \in receivedAhead' : s > nextExpectedPacketSeqNum'
        BY <1>1, <2>2, <3>2, <4>1, SlideStep
      <4>3. DOMAIN file' \subseteq Nat
        <5>1. CASE seqNum \in receivedAhead
          BY <1>1, <1>4, <3>2, <5>1
             DEF Deliver, ReceiveDataPacket, LargeTypeOK
        <5>2. CASE seqNum \notin receivedAhead
          <6>1. WritePacket(seqNum) /\ WrittenInPlace
            BY <1>1, <1>4, <3>2, <5>2
               DEF Deliver, ReceiveDataPacket, LargeInv
          <6>2. DOMAIN file' = DOMAIN file \cup PlacesOf(seqNum)
            BY <1>1, <2>1, <2>2, <6>1, WriteStep
          <6>3. PlacesOf(seqNum) \subseteq Nat
            BY <1>1, <2>2, SizeFacts DEF PlacesOf, WriteOffset, ReadOffset
          <6> QED
            BY <1>1, <6>2, <6>3 DEF LargeTypeOK
        <5> QED
          BY <5>1, <5>2
      <4> QED
        BY <1>2, <4>2, <4>3 DEF BufferOK
    <3> QED
      BY <3>1, <3>2
  <2>4. LargeTypeOK'
    BY <1>1, <1>2, <2>1, <2>3 DEF LargeTypeOK, request, senderSide
  <2>5. bytesSent' = SizesUpTo'[slideWindowLeftBoundSeqNum']
    BY <1>1, <2>1, SumsStay DEF senderSide, CountedRight
  <2> QED
    BY <1>1, <2>1, <2>2, <2>3, <2>4, <2>5 DEF CountedRight, request
<1>5. ASSUME NEW c \in 0..nextExpectedPacketSeqNum, AckArrived(c)
      PROVE  LargeTypeOK' /\ CountedRight'
  <2>1. /\ slideWindowLeftBoundSeqNum' = c
        /\ bytesSent' = bytesSent + SizesUpTo[c]
                                  - SizesUpTo[slideWindowLeftBoundSeqNum]
        /\ UNCHANGED <<request, receiverSide>>
    BY <1>5 DEF AckArrived
  <2>2. /\ c \in Nat
        /\ slideWindowLeftBoundSeqNum \in Nat
        /\ bytesSent = SizesUpTo[slideWindowLeftBoundSeqNum]
    BY <1>1, <1>2, <1>5 DEF LargeTypeOK, CountedRight
  <2>3. bytesSent \in Nat /\ SizesUpTo[c] \in Nat
    BY <1>1, <2>2, SumsAreNumbers
  <2>4. bytesSent' = SizesUpTo[c]
    BY <2>1, <2>2, <2>3
  <2>5. SizesUpTo' = SizesUpTo
    BY <2>1, SumsStay
  <2>6. LargeTypeOK'
    BY <1>1, <1>2, <1>5, <2>1, <2>3, <2>4
       DEF LargeTypeOK, request, receiverSide
  <2>7. \A s : Received(s)' <=> Received(s)
    BY <2>1 DEF receiverSide, Received
  <2>8. LastPacketSeqNum' = LastPacketSeqNum
    BY <2>1 DEF request, LastPacketSeqNum
  <2> QED
    BY <1>1, <2>1, <2>4, <2>5, <2>6, <2>7, <2>8
       DEF CountedRight, request, receiverSide
<1> QED
  BY <1>3, <1>4, <1>5 DEF LargeNext, SomeAckArrived

\* In every execution.
LEMMA CountInvariance == LargeSpec => []CountInv
<1>1. LargeInit => LargeTypeOK /\ CountedRight
  <2>1. SUFFICES ASSUME LargeInit PROVE LargeTypeOK /\ CountedRight
    OBVIOUS
  <2>2. LargeTypeOK
    <3>1. fileSize \in Nat /\ bytesToSend \in 0..MaxBytes /\ UINT_MAX \in Nat
      BY <2>1, LargeFileAssumption DEF LargeInit
    <3>2. DOMAIN file = {} /\ lastPacketSeqNumReceived \in BOOLEAN
      BY <2>1 DEF LargeInit
    <3> QED
      BY <2>1, <3>1, <3>2 DEF LargeInit, LargeTypeOK
  <2>3. SizesUpTo[0] = 0
    BY SizesUpToStep
  <2>4. \A s \in Nat : ~Received(s)
    BY <2>1 DEF LargeInit, Received
  <2> QED
    BY <2>1, <2>2, <2>3, <2>4 DEF LargeInit, CountedRight
<1>2. LargeInv /\ LargeTypeOK /\ CountedRight /\ [LargeNext]_largeVars
        => (LargeTypeOK /\ CountedRight)'
  BY CountStep DEF CountInv
<1> QED
  BY <1>1, <1>2, LargeInvariance, PTL DEF LargeSpec, CountInv

\* The variables have their types, and the next expected packet never wraps
\* to 0 nor falls behind the sender.
THEOREM LargeTypes == LargeSpec => []LargeTypeOK
<1>1. CountInv => LargeTypeOK
  BY DEF CountInv
<1> QED
  BY <1>1, CountInvariance, PTL

\* Neither side goes past the packet after the last.
LEMMA WithinFile ==
  ASSUME CountInv, bytesToSend > 0
  PROVE  /\ nextExpectedPacketSeqNum \in 0..(LastPacketSeqNum + 1)
         /\ slideWindowLeftBoundSeqNum \in 0..(LastPacketSeqNum + 1)
<1>1. /\ nextExpectedPacketSeqNum \in Nat
      /\ slideWindowLeftBoundSeqNum \in Nat
      /\ slideWindowLeftBoundSeqNum <= nextExpectedPacketSeqNum
      /\ LastPacketSeqNum \in Nat
  BY LastPacketFacts, LargeFileAssumption
     DEF CountInv, LargeInv, RequestOK, LargeTypeOK
<1>2. ASSUME nextExpectedPacketSeqNum > LastPacketSeqNum + 1
      PROVE  FALSE
  <2>1. Received(LastPacketSeqNum + 1)
    BY <1>2 DEF Received
  <2>2. LastPacketSeqNum + 1 <= LastPacketSeqNum
    BY <1>1, <2>1 DEF CountInv, CountedRight
  <2> QED
    BY <1>1, <2>2
<1> QED
  BY <1>1, <1>2

\* If the file is not shorter than asked for, the sender is finished exactly
\* when every packet is acknowledged.
THEOREM CountTellsEnd == LargeSpec => []FinishedIffAcked
<1>1. CountInv => FinishedIffAcked
  <2>1. SUFFICES ASSUME CountInv, 0 < bytesToSend, bytesToSend <= fileSize
                 PROVE  SenderFinished <=>
                          slideWindowLeftBoundSeqNum = LastPacketSeqNum + 1
    BY DEF FinishedIffAcked
  <2> DEFINE D == DATA_PACKET_DATA_SIZE
             last == LastPacketSeqNum
             left == slideWindowLeftBoundSeqNum
  <2>2. RequestOK /\ bytesToSend > 0 /\ bytesToSend \in Nat
    BY <2>1, LargeFileAssumption DEF CountInv, LargeInv, RequestOK
  <2>3. /\ last \in Nat
        /\ last * D < bytesToSend
        /\ bytesToSend <= (last + 1) * D
    BY <2>2, LastPacketFacts, LargeFileAssumption DEF RequestOK
  <2>4. left \in 0..(last + 1)
    BY <2>1, <2>2, WithinFile
  <2>5. bytesSent = Smaller(left * D, bytesToSend)
    <3>1. SizesUpTo[left] =
            Smaller(left * D, Smaller(bytesToSend, fileSize))
      BY <2>1, <2>2, <2>4, SumsOfSizes
    <3>2. Smaller(bytesToSend, fileSize) = bytesToSend
      BY <2>1 DEF Smaller
    <3> QED
      BY <2>1, <3>1, <3>2 DEF CountInv, CountedRight
  <2>6. CASE left = last + 1
    BY <2>2, <2>3, <2>5, <2>6 DEF Smaller, SenderFinished
  <2>7. CASE left <= last
    <3>1. D \in Nat
      BY LargeFileAssumption
    <3>2. left * D <= last * D /\ left * D \in Nat /\ last * D \in Nat
      BY <2>3, <2>4, <2>7, <3>1
    <3>3. bytesSent # bytesToSend
      <4> HIDE DEF D, last, left
      <4> QED
        BY <2>2, <2>3, <2>5, <3>2 DEF Smaller
    <3>4. left # last + 1
      BY <2>3, <2>4, <2>7
    <3> QED
      BY <3>3, <3>4 DEF SenderFinished
  <2> QED
    BY <2>3, <2>4, <2>6, <2>7
<1> QED
  BY <1>1, CountInvariance, PTL

\* Both sides finish only if there is something to send, a number is left
\* after the last packet's, and - if places do not wrap - the file is not
\* shorter than asked for.
THEOREM BothFinishNeeds == LargeSpec => []BothFinishOnlyIf
<1>1. CountInv => BothFinishOnlyIf
  <2>1. SUFFICES ASSUME CountInv, SenderFinished, ReceiverFinished
                 PROVE  /\ 0 < bytesToSend
                        /\ LastPacketSeqNum < UINT_MAX
                        /\ OffsetsFit => bytesToSend <= fileSize
    BY DEF BothFinishOnlyIf
  <2>2. /\ RequestOK
        /\ bytesToSend \in Nat /\ fileSize \in Nat
        /\ UINT_MAX \in Nat
    BY <2>1, LargeFileAssumption DEF CountInv, LargeInv, RequestOK
  <2>3. 0 < bytesToSend
    BY <2>1, <2>2 DEF ReceiverFinished, CountInv, CountedRight
  <2>4. LastPacketSeqNum \in 0..UINT_MAX
    BY <2>2, <2>3, LastPacketFacts DEF RequestOK
  <2>5. /\ slideWindowLeftBoundSeqNum \in 0..(LastPacketSeqNum + 1)
        /\ slideWindowLeftBoundSeqNum <= nextExpectedPacketSeqNum
        /\ bytesToSend = SizesUpTo[slideWindowLeftBoundSeqNum]
    BY <2>1, <2>3, WithinFile
       DEF CountInv, LargeTypeOK, CountedRight, SenderFinished
  <2>6. ASSUME LastPacketSeqNum = UINT_MAX
        PROVE  FALSE
    <3>1. nextExpectedPacketSeqNum = 0
      BY <2>1, <2>2, <2>6 DEF ReceiverFinished, Uint
    <3>2. slideWindowLeftBoundSeqNum = 0
      BY <2>4, <2>5, <3>1
    <3> QED
      BY <2>3, <2>5, <3>2, SizesUpToStep
  <2>7. ASSUME OffsetsFit
        PROVE  bytesToSend <= fileSize
    <3>1. bytesToSend = Smaller(
                          slideWindowLeftBoundSeqNum * DATA_PACKET_DATA_SIZE,
                          Smaller(bytesToSend, fileSize))
      BY <2>2, <2>3, <2>5, <2>7, SumsOfSizes
    <3>2. slideWindowLeftBoundSeqNum * DATA_PACKET_DATA_SIZE \in Nat
      BY <2>4, <2>5, LargeFileAssumption
    <3> QED
      BY <2>2, <3>1, <3>2 DEF Smaller
  <2> QED
    BY <2>2, <2>3, <2>4, <2>6, <2>7
<1> QED
  BY <1>1, CountInvariance, PTL

=============================================================================
