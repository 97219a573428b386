-------------------------- MODULE SlideWindowBytes --------------------------
(***************************************************************************)
(* The receiving file of SlideWindowProtocol byte by byte.  Seen so, the   *)
(* windows over a link implement LargeFile, which knows neither congestion *)
(* windows nor datagrams: what LargeFile reduces the protocol to is what   *)
(* the protocol does, as long as the numbers fit into an unsigned int.     *)
(***************************************************************************)
EXTENDS SlideWindowProtocol

\* The places write() fills with the data of a packet.
PlacesOfPacket ==
  [s \in SeqNums |-> (s * DATA_PACKET_DATA_SIZE)..
                        (s * DATA_PACKET_DATA_SIZE + DataSize(s) - 1)]

\* What is in the receiving file, place by place: the byte that is there in
\* the file sent, unless a packet with other data was written there.
FileBytes ==
  LET wrong == {s \in DOMAIN file : file[s] # "chunk"}
  IN  [place \in UNION {PlacesOfPacket[s] : s \in DOMAIN file} |->
         IF \E s \in wrong : place \in PlacesOfPacket[s] THEN -1 ELSE place]

\* The sequence numbers in the receiver's buffer never reach UINT_MAX.
NumbersFit ==
  /\ DATA_PACKET_DATA_SIZE \in 2..UINT_MAX
  /\ LastPacketSeqNum + 1 + INIT_WINDOW_SIZE <= UINT_MAX

Large == INSTANCE LargeFile
           WITH FileSizes <- {fileSize},
                MaxBytes <- bytesToSend,
                receivedAhead <- Buffered,
                file <- FileBytes

\* Each step of the protocol is a step of LargeFile or invisible to it: an
\* acknowledgement counts the bytes read for the packets it slides past, and
\* a packet in the buffer fills its places with its bytes, once.
ImplementsLargeFile == Large!LargeSpec

=============================================================================
