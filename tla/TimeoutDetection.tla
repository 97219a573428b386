-------------------------- MODULE TimeoutDetection --------------------------
(***************************************************************************)
(* How the sender detects a loss: the round-trip estimator, fed by the     *)
(* acknowledgements, and the checkTimeout thread, which looks every so     *)
(* often for items that are older than the estimated timeout.              *)
(*                                                                         *)
(* SlideWindowSender lets any outstanding item expire at any time.  This   *)
(* module is about time: how long a lost packet may go unnoticed, and when *)
(* a packet is taken for lost although its acknowledgement is on its way.  *)
(* It follows one item of the window; the others are treated alike.        *)
(*                                                                         *)
(* Times are in microseconds.  Time advances by TickUs at once, and        *)
(* checkTimeout, once its sleep is over, is not kept from running for      *)
(* longer than MaxDelayUs.                                                 *)
(***************************************************************************)
EXTENDS RttEstimatorJacobson

CONSTANTS
  Rtts,                  \* the round-trip times the link has
  MinRttUs, MaxRttUs,    \* the smallest and the largest of them
  HANDSHAKE_TIMEOUT_US,
  TickUs,                \* bound: the grain of time
  MaxDelayUs             \* bound: what the scheduler may add to a sleep

ASSUME RttAssumption ==
  /\ MinRttUs \in Nat /\ MaxRttUs \in Nat
  /\ MinRttUs <= MaxRttUs
  /\ Rtts \subseteq MinRttUs..MaxRttUs
  /\ HANDSHAKE_TIMEOUT_US \in Nat
  /\ TickUs \in Nat \ {0}
  /\ MaxDelayUs \in Nat

VARIABLES
  outstanding,  \* is the item SENT or RESENT?
  ageUs,        \* if so, the time since lastSentTime
  checkPc,      \* is checkTimeout sleeping, or about to examine the window?
  wakeInUs,     \* the rest of its sleep, negative when it is late
  thresholdUs   \* currentTimeoutThresholdUs while it is used, otherwise 0

timeoutVars == <<estimatorVars, outstanding, ageUs, checkPc, wakeInUs, thresholdUs>>

Larger(a, b)  == IF a >= b THEN a ELSE b
Smaller(a, b) == IF a <= b THEN a ELSE b

\* performHandshake returns the smallest of some round-trip times, but at most
\* HANDSHAKE_TIMEOUT_US.
TimeoutInit ==
  /\ \E elapsedUs \in Rtts :
       EstimatorInit(Smaller(elapsedUs, HANDSHAKE_TIMEOUT_US))
  /\ outstanding = FALSE
  /\ ageUs = 0
  /\ checkPc = "sleep"
  /\ wakeInUs = 0
  /\ thresholdUs = 0

-----------------------------------------------------------------------------
\* receiveAck hands every acknowledgement to the estimator, also those of
\* other items and repeated ones.
ReceiveAck ==
  /\ \E elapsedUs \in Rtts : EstimatorAckArrived(elapsedUs)
  /\ UNCHANGED <<outstanding, ageUs, checkPc, wakeInUs, thresholdUs>>

\* prepareDataPacketsToSend stamps the item when it is sent (again).
Send ==
  /\ ~outstanding
  /\ outstanding' = TRUE
  /\ ageUs' = 0
  /\ UNCHANGED <<estimatorVars, checkPc, wakeInUs, thresholdUs>>

\* The window takes an acknowledgement of the item, or marks it for fast
\* retransmission.
Settle ==
  /\ outstanding
  /\ outstanding' = FALSE
  /\ ageUs' = 0
  /\ UNCHANGED <<estimatorVars, checkPc, wakeInUs, thresholdUs>>

-----------------------------------------------------------------------------
(***************************************************************************)
(* checkTimeout: read the timeout, examine the window, sleep for a part of *)
(* the timeout (CHECK_TIMEOUT_INTERVAL_FRACTION = 0.5).                    *)
(***************************************************************************)

\* Mutant: a sleep as long as the timeout.
TimeToSleepWhole(timeoutUs) == timeoutUs

TimeToSleepUs(timeoutUs) == timeoutUs \div 2

GetTimeout ==
  /\ checkPc = "sleep" /\ wakeInUs <= 0
  /\ checkPc' = "check"
  /\ thresholdUs' = GetCurrentTimeoutUs
  /\ UNCHANGED <<estimatorVars, outstanding, ageUs, wakeInUs>>

\* Mutant: an item expires at twice the timeout.
ItemExpiresTwice == outstanding /\ ageUs > 2 * thresholdUs

ItemExpires == outstanding /\ ageUs > thresholdUs

ExamineWindow ==
  /\ checkPc = "check"
  /\ checkPc' = "sleep"
  /\ outstanding' = (outstanding /\ ~ItemExpires)
  /\ ageUs' = IF ItemExpires THEN 0 ELSE ageUs
  /\ wakeInUs' = TimeToSleepUs(thresholdUs)
  /\ thresholdUs' = 0
  /\ UNCHANGED estimatorVars

Tick ==
  /\ wakeInUs - TickUs >= -MaxDelayUs
  /\ wakeInUs' = wakeInUs - TickUs
  /\ ageUs' = IF outstanding THEN ageUs + TickUs ELSE 0
  /\ UNCHANGED <<estimatorVars, outstanding, checkPc, thresholdUs>>

TimeoutNext ==
  \/ ReceiveAck
  \/ Send
  \/ Settle
  \/ GetTimeout
  \/ ExamineWindow
  \/ Tick

TimeoutSpec == TimeoutInit /\ [][TimeoutNext]_timeoutVars

-----------------------------------------------------------------------------
\* The types of the variables.
TimeoutTypeOK ==
  /\ curTimeoutUs \in Nat
  /\ curStdDevUs \in Nat
  /\ outstanding \in BOOLEAN
  /\ ageUs \in Nat
  /\ checkPc \in {"sleep", "check"}
  /\ wakeInUs \in Int
  /\ thresholdUs \in Nat

LowestEstimateUs == Smaller(MinRttUs, HANDSHAKE_TIMEOUT_US)

WorstStdDevUs == Larger(MaxRttUs - LowestEstimateUs, MaxRttUs \div 4)

WorstTimeoutUs == (11 * MaxRttUs) \div 10 + 4 * WorstStdDevUs

\* Rounding and repeated samples never take the estimate out of the range of
\* the round-trip times, nor the deviation beyond the width of that range
\* (or the first guess of it, a quarter of the first estimate).
EstimateBounded ==
  /\ curTimeoutUs \in LowestEstimateUs..MaxRttUs
  /\ curStdDevUs <= WorstStdDevUs

\* An item that is outstanding is not older than one and a half times the
\* worst timeout: by then checkTimeout has noticed that it is lost, however
\* the estimate changed between its rounds.
LossDetectedInTime ==
  outstanding =>
    ageUs <= WorstTimeoutUs + WorstTimeoutUs \div 2 + MaxDelayUs

\* The estimate does not change any more while round trips take elapsedUs.
SettledAt(elapsedUs) ==
  /\ SmoothedTimeout(elapsedUs) = curTimeoutUs
  /\ SmoothedStdDev(elapsedUs) = curStdDevUs

\* The truncations leave the settled estimate up to 7 us below the round-trip
\* time, and the deviation up to 3 us below that difference.  The ratio of 1.1
\* makes up for that from 33 us on: an acknowledgement that takes as long as
\* those before is not late.
NoFalseTimeoutWhenSettled ==
  \A elapsedUs \in Rtts :
    elapsedUs >= 33 /\ SettledAt(elapsedUs) => elapsedUs <= GetCurrentTimeoutUs

\* The inductive strengthening: however late checkTimeout is, the age and the
\* rest of the sleep together stay within the bound.
TimeoutInv ==
  /\ TimeoutTypeOK
  /\ EstimateBounded
  /\ wakeInUs \in (-MaxDelayUs)..(WorstTimeoutUs \div 2)
  /\ thresholdUs <= WorstTimeoutUs
  /\ outstanding =>
       ageUs + wakeInUs <= WorstTimeoutUs + WorstTimeoutUs \div 2

=============================================================================
