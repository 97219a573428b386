------------------------------ MODULE Handshake ------------------------------
(***************************************************************************)
(* performHandshake of src/src/reliable_sender.cpp, and the link between   *)
(* it and the receiver.                                                    *)
(*                                                                         *)
(* In each round the sender sends HANDSHAKE_NUM_AT_A_TIME handshake        *)
(* packets and collects their acknowledgements until there are enough of   *)
(* them or the round times out.  All handshake packets are alike but for   *)
(* the time in them, so the link only counts them; it holds at most        *)
(* MaxHandshakes each way and drops the rest.  What is made of the         *)
(* measured times is in TimeoutDetection.                                  *)
(***************************************************************************)
EXTENDS Integers

CONSTANTS
  HANDSHAKE_NUM_AT_A_TIME,
  HANDSHAKE_DUPLICATE,      \* acknowledgements the sender waits for
  MaxHandshakes             \* bound: handshake datagrams in flight each way

ASSUME HandshakeAssumption ==
  /\ HANDSHAKE_NUM_AT_A_TIME \in Nat \ {0}
  /\ HANDSHAKE_DUPLICATE \in Nat \ {0}
  /\ MaxHandshakes \in Nat \ {0}

VARIABLES
  handshakePc,           \* what performHandshake does next
  handshakeAckReceived,
  handshakesInFlight,
  handshakeAcksInFlight

handshakeLink == <<handshakesInFlight, handshakeAcksInFlight>>
handshakeVars == <<handshakePc, handshakeAckReceived, handshakeLink>>

HandshakeInit ==
  /\ handshakePc = "send"
  /\ handshakeAckReceived = 0
  /\ handshakesInFlight = 0
  /\ handshakeAcksInFlight = 0

HandshakeOver == handshakeAckReceived = HANDSHAKE_DUPLICATE

\* What is left of n datagrams on the link.
Carried(n) == IF n <= MaxHandshakes THEN n ELSE MaxHandshakes

SendHandshakes ==
  /\ handshakePc = "send"
  /\ ~HandshakeOver
  /\ handshakePc' = "wait"
  /\ handshakesInFlight' = Carried(handshakesInFlight + HANDSHAKE_NUM_AT_A_TIME)
  /\ UNCHANGED <<handshakeAckReceived, handshakeAcksInFlight>>

ReceiveHandshakeAck ==
  /\ handshakePc = "wait"
  /\ ~HandshakeOver
  /\ handshakeAcksInFlight > 0
  /\ handshakeAcksInFlight' = handshakeAcksInFlight - 1
  /\ handshakeAckReceived' = handshakeAckReceived + 1
  /\ UNCHANGED <<handshakePc, handshakesInFlight>>

\* Mutant: the sender does not try again.
HandshakeGivesUp ==
  /\ handshakePc = "wait"
  /\ handshakePc' = "wait"
  /\ UNCHANGED <<handshakeAckReceived, handshakeLink>>

HandshakeTimesOut ==
  /\ handshakePc = "wait"
  /\ ~HandshakeOver
  /\ handshakePc' = "send"
  /\ UNCHANGED <<handshakeAckReceived, handshakeLink>>

\* The acknowledgements beyond HANDSHAKE_DUPLICATE arrive during the transfer;
\* receiveAck throws them away.
DropHandshakeAck ==
  /\ handshakeAcksInFlight > 0
  /\ handshakeAcksInFlight' = handshakeAcksInFlight - 1
  /\ UNCHANGED <<handshakePc, handshakeAckReceived, handshakesInFlight>>

-----------------------------------------------------------------------------
\* The receiver takes a handshake packet and puts `copies` of the answer on
\* the link.
AnswerHandshake(copies) ==
  /\ handshakesInFlight > 0
  /\ handshakesInFlight' = handshakesInFlight - 1
  /\ handshakeAcksInFlight' = Carried(handshakeAcksInFlight + copies)
  /\ UNCHANGED <<handshakePc, handshakeAckReceived>>

\* The link loses a handshake packet or its answer.
LoseHandshake == AnswerHandshake(0) \/ DropHandshakeAck

-----------------------------------------------------------------------------
HandshakeTypeOK ==
  /\ handshakePc \in {"send", "wait"}
  /\ handshakeAckReceived \in 0..HANDSHAKE_DUPLICATE
  /\ handshakesInFlight \in 0..MaxHandshakes
  /\ handshakeAcksInFlight \in 0..MaxHandshakes

=============================================================================
