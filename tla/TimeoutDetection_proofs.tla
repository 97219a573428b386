----------------------- MODULE TimeoutDetection_proofs -----------------------
(***************************************************************************)
(* Proofs about the detection of losses, for every set of round-trip       *)
(* times, every handshake timeout and every delay of the scheduler.        *)
(***************************************************************************)
EXTENDS TimeoutDetection, TLAPS

\* A smoothed average with weights 1/8 and 7/8, truncated, stays in any range
\* that contains both values.
LEMMA SmoothedInRange ==
  ASSUME NEW low \in Nat, NEW high \in Nat,
         NEW elapsedUs \in low..high, curTimeoutUs \in low..high
  PROVE  SmoothedTimeout(elapsedUs) \in low..high
  BY DEF SmoothedTimeout

\* A smoothed deviation does not exceed what bounds the old one and the
\* distance of the new sample.
LEMMA SmoothedStdDevBounded ==
  ASSUME NEW bound \in Nat, NEW elapsedUs \in Nat,
         curTimeoutUs \in Nat, curStdDevUs \in 0..bound,
         Distance(elapsedUs, curTimeoutUs) <= bound
  PROVE  SmoothedStdDev(elapsedUs) \in 0..bound
  BY DEF SmoothedStdDev, Distance

\* A larger estimate and a larger deviation give a larger timeout.
LEMMA TimeoutBounded ==
  ASSUME NEW low \in Nat, NEW high \in Nat, NEW bound \in Nat,
         curTimeoutUs \in low..high, curStdDevUs \in 0..bound
  PROVE  GetCurrentTimeoutUs \in 0..((11 * high) \div 10 + 4 * bound)
<1>1. (11 * curTimeoutUs) \div 10 \in 0..((11 * high) \div 10)
  OBVIOUS
<1> QED
  BY <1>1 DEF GetCurrentTimeoutUs

\* The bounds are natural numbers.
LEMMA BoundsAreNat ==
  /\ LowestEstimateUs \in Nat /\ LowestEstimateUs <= MaxRttUs
  /\ WorstStdDevUs \in Nat /\ MaxRttUs - LowestEstimateUs <= WorstStdDevUs
  /\ MaxRttUs \div 4 <= WorstStdDevUs
  /\ WorstTimeoutUs \in Nat
<1>1. LowestEstimateUs \in Nat /\ LowestEstimateUs <= MaxRttUs
  BY RttAssumption DEF LowestEstimateUs, Smaller
<1>2. MaxRttUs \div 4 \in Nat /\ (11 * MaxRttUs) \div 10 \in Nat
  BY RttAssumption
<1> QED
  BY <1>1, <1>2, RttAssumption DEF WorstStdDevUs, WorstTimeoutUs, Larger

\* The first estimate is in range.
LEMMA InitTimeoutInv ==
  ASSUME TimeoutInit
  PROVE  TimeoutInv
<1>1. PICK elapsedUs \in Rtts :
        EstimatorInit(Smaller(elapsedUs, HANDSHAKE_TIMEOUT_US))
  BY DEF TimeoutInit
<1>2. /\ curTimeoutUs \in LowestEstimateUs..MaxRttUs
      /\ curStdDevUs = curTimeoutUs \div 4
  BY <1>1, RttAssumption DEF EstimatorInit, LowestEstimateUs, Smaller
<1>3. /\ curTimeoutUs \in Nat
      /\ curStdDevUs \in Nat /\ curStdDevUs <= WorstStdDevUs
  <2>1. curTimeoutUs \in Nat /\ curTimeoutUs <= MaxRttUs
    BY <1>2, BoundsAreNat, RttAssumption
  <2>2. curTimeoutUs \div 4 \in Nat /\ curTimeoutUs \div 4 <= MaxRttUs \div 4
    BY <2>1, RttAssumption
  <2> QED
    BY <1>2, <2>1, <2>2, BoundsAreNat, RttAssumption
<1>4. 0 \in (-MaxDelayUs)..(WorstTimeoutUs \div 2) /\ 0 <= WorstTimeoutUs
  BY BoundsAreNat, RttAssumption
<1>5. TimeoutTypeOK
  <2>1. outstanding \in BOOLEAN /\ checkPc \in {"sleep", "check"}
    BY ZenonT(20) DEF TimeoutInit
  <2>2. ageUs = 0 /\ wakeInUs = 0 /\ thresholdUs = 0
    BY DEF TimeoutInit
  <2> QED
    BY <1>3, <2>1, <2>2 DEF TimeoutTypeOK
<1>6. EstimateBounded
  BY <1>2, <1>3 DEF EstimateBounded
<1>7. /\ wakeInUs \in (-MaxDelayUs)..(WorstTimeoutUs \div 2)
      /\ thresholdUs <= WorstTimeoutUs
      /\ ~outstanding
  BY <1>4 DEF TimeoutInit
<1> QED
  BY <1>5, <1>6, <1>7 DEF TimeoutInv

\* An acknowledgement keeps the estimate within its bounds.
LEMMA EstimateStep ==
  ASSUME TimeoutInv, NEW elapsedUs \in Rtts, EstimatorAckArrived(elapsedUs)
  PROVE  /\ EstimateBounded'
         /\ curTimeoutUs' \in Nat /\ curStdDevUs' \in Nat
<1>1. /\ curTimeoutUs \in LowestEstimateUs..MaxRttUs
      /\ curTimeoutUs \in Nat
      /\ curStdDevUs \in 0..WorstStdDevUs
  BY BoundsAreNat DEF TimeoutInv, TimeoutTypeOK, EstimateBounded
<1>2. elapsedUs \in LowestEstimateUs..MaxRttUs /\ elapsedUs \in Nat
  BY RttAssumption, BoundsAreNat DEF LowestEstimateUs, Smaller
<1>3. Distance(elapsedUs, curTimeoutUs) <= WorstStdDevUs
  BY <1>1, <1>2, BoundsAreNat, RttAssumption DEF Distance
<1>4. SmoothedTimeout(elapsedUs) \in LowestEstimateUs..MaxRttUs
  BY <1>1, <1>2, SmoothedInRange, BoundsAreNat, RttAssumption
<1>5. SmoothedStdDev(elapsedUs) \in 0..WorstStdDevUs
  BY <1>1, <1>2, <1>3, SmoothedStdDevBounded, BoundsAreNat
<1> QED
  BY <1>4, <1>5, BoundsAreNat, RttAssumption
     DEF EstimatorAckArrived, EstimateBounded, LowestEstimateUs, WorstStdDevUs

\* Every step keeps the invariant.
LEMMA NextTimeoutInv ==
  ASSUME TimeoutInv, [TimeoutNext]_timeoutVars
  PROVE  TimeoutInv'
<1> DEFINE bound == WorstTimeoutUs + WorstTimeoutUs \div 2
<1>1. /\ WorstTimeoutUs \in Nat /\ WorstTimeoutUs \div 2 \in Nat
      /\ MaxDelayUs \in Nat /\ TickUs \in Nat \ {0}
  BY BoundsAreNat, RttAssumption
<1>2. /\ ageUs \in Nat /\ wakeInUs \in Int /\ thresholdUs \in Nat
      /\ wakeInUs >= -MaxDelayUs /\ wakeInUs <= WorstTimeoutUs \div 2
      /\ thresholdUs <= WorstTimeoutUs
      /\ outstanding => ageUs + wakeInUs <= bound
      /\ outstanding \in BOOLEAN
  BY <1>1 DEF TimeoutInv, TimeoutTypeOK
<1>3. ASSUME UNCHANGED estimatorVars
      PROVE  /\ EstimateBounded'
             /\ curTimeoutUs' \in Nat /\ curStdDevUs' \in Nat
  BY <1>3 DEF TimeoutInv, TimeoutTypeOK, EstimateBounded, estimatorVars
<1>4. CASE ReceiveAck
  <2>1. PICK elapsedUs \in Rtts : EstimatorAckArrived(elapsedUs)
    BY <1>4 DEF ReceiveAck
  <2>2. /\ EstimateBounded'
        /\ curTimeoutUs' \in Nat /\ curStdDevUs' \in Nat
    BY <2>1, EstimateStep
  <2> QED
    BY <1>4, <2>2 DEF ReceiveAck, TimeoutInv, TimeoutTypeOK
<1>5. CASE Send
  <2>1. 0 + wakeInUs <= bound
    BY <1>1, <1>2
  <2> QED
    BY <1>3, <1>5, <2>1 DEF Send, TimeoutInv, TimeoutTypeOK
<1>6. CASE Settle
  BY <1>3, <1>6 DEF Settle, TimeoutInv, TimeoutTypeOK
<1>7. CASE GetTimeout
  <2>1. GetCurrentTimeoutUs \in 0..WorstTimeoutUs
    <3>1. /\ curTimeoutUs \in LowestEstimateUs..MaxRttUs
          /\ curStdDevUs \in 0..WorstStdDevUs
      BY BoundsAreNat DEF TimeoutInv, TimeoutTypeOK, EstimateBounded
    <3> QED
      BY <3>1, TimeoutBounded, BoundsAreNat, RttAssumption DEF WorstTimeoutUs
  <2> QED
    BY <1>1, <1>3, <1>7, <2>1 DEF GetTimeout, TimeoutInv, TimeoutTypeOK
<1>8. CASE ExamineWindow
  <2>1. /\ thresholdUs \div 2 \in Nat
        /\ thresholdUs \div 2 <= WorstTimeoutUs \div 2
    BY <1>1, <1>2
  <2>2. wakeInUs' = thresholdUs \div 2
    BY <1>8 DEF ExamineWindow, TimeToSleepUs
  <2>3. wakeInUs' \in (-MaxDelayUs)..(WorstTimeoutUs \div 2)
    BY <1>1, <2>1, <2>2
  <2>4. ageUs' \in Nat /\ outstanding' \in BOOLEAN
    BY <1>2, <1>8 DEF ExamineWindow
  <2>5. outstanding' => ageUs' + wakeInUs' <= bound
    BY <1>1, <1>2, <1>8, <2>1, <2>2 DEF ExamineWindow, ItemExpires
  <2> QED
    BY <1>1, <1>3, <1>8, <2>3, <2>4, <2>5
       DEF ExamineWindow, TimeoutInv, TimeoutTypeOK
<1>9. CASE Tick
  <2>1. /\ wakeInUs' = wakeInUs - TickUs
        /\ wakeInUs' \in (-MaxDelayUs)..(WorstTimeoutUs \div 2)
    BY <1>1, <1>2, <1>9 DEF Tick
  <2>2. outstanding' = outstanding /\ ageUs' \in Nat
    BY <1>1, <1>2, <1>9 DEF Tick
  <2>3. outstanding' => ageUs' + wakeInUs' <= bound
    BY <1>1, <1>2, <1>9 DEF Tick
  <2> QED
    BY <1>1, <1>3, <1>9, <2>1, <2>2, <2>3 DEF Tick, TimeoutInv, TimeoutTypeOK
<1>10. CASE UNCHANGED timeoutVars
  BY <1>3, <1>10 DEF timeoutVars, TimeoutInv, TimeoutTypeOK
<1> QED
  BY <1>4, <1>5, <1>6, <1>7, <1>8, <1>9, <1>10 DEF TimeoutNext

\* The invariant of the detection of losses: whatever the round-trip times,
\* the estimate stays in range and no item gets older than the bound.
THEOREM TimeoutInvariance == TimeoutSpec => []TimeoutInv
  BY InitTimeoutInv, NextTimeoutInv, PTL DEF TimeoutSpec

\* The estimate stays within the round-trip times the link has, the deviation
\* within their spread.
THEOREM EstimateInRange == TimeoutSpec => []EstimateBounded
<1>1. TimeoutInv => EstimateBounded
  BY DEF TimeoutInv
<1> QED
  BY <1>1, TimeoutInvariance, PTL

\* A lost packet is noticed within one and a half times the worst timeout,
\* plus the delay of the scheduler.
THEOREM LossDetected == TimeoutSpec => []LossDetectedInTime
<1>1. TimeoutInv => LossDetectedInTime
  <2>1. SUFFICES ASSUME TimeoutInv, outstanding
                 PROVE  ageUs <= WorstTimeoutUs + WorstTimeoutUs \div 2 + MaxDelayUs
    BY DEF LossDetectedInTime
  <2>2. /\ ageUs + wakeInUs <= WorstTimeoutUs + WorstTimeoutUs \div 2
        /\ wakeInUs \in Int /\ wakeInUs >= -MaxDelayUs /\ ageUs \in Nat
    BY <2>1, BoundsAreNat, RttAssumption DEF TimeoutInv, TimeoutTypeOK
  <2> QED
    BY <2>2, BoundsAreNat, RttAssumption
<1> QED
  BY <1>1, TimeoutInvariance, PTL

\* Once the estimate has settled on a round-trip time of at least 33 us, an
\* acknowledgement that takes that long is not taken for lost.
THEOREM SettledTimeoutSuffices == TimeoutSpec => []NoFalseTimeoutWhenSettled
<1>1. TimeoutInv => NoFalseTimeoutWhenSettled
  <2>1. SUFFICES ASSUME TimeoutInv,
                        NEW elapsedUs \in Rtts, elapsedUs >= 33,
                        SettledAt(elapsedUs)
                 PROVE  elapsedUs <= GetCurrentTimeoutUs
    BY DEF NoFalseTimeoutWhenSettled
  <2>2. elapsedUs \in Nat /\ curTimeoutUs \in Nat /\ curStdDevUs \in Nat
    BY <2>1, RttAssumption DEF TimeoutInv, TimeoutTypeOK
  <2>3. curTimeoutUs <= elapsedUs /\ elapsedUs <= curTimeoutUs + 7
    BY <2>1, <2>2 DEF SettledAt, SmoothedTimeout
  <2>4. Distance(elapsedUs, curTimeoutUs) = elapsedUs - curTimeoutUs
    BY <2>2, <2>3 DEF Distance
  <2>5. elapsedUs - curTimeoutUs <= curStdDevUs + 3
    BY <2>1, <2>2, <2>3, <2>4 DEF SettledAt, SmoothedStdDev
  <2>6. /\ (11 * curTimeoutUs) \div 10 \in Nat
        /\ (11 * curTimeoutUs) \div 10 >= curTimeoutUs
        /\ curTimeoutUs >= 30 => (11 * curTimeoutUs) \div 10 >= curTimeoutUs + 3
    BY <2>2
  <2>7. CASE curStdDevUs = 0
    BY <2>1, <2>2, <2>3, <2>5, <2>6, <2>7 DEF GetCurrentTimeoutUs
  <2>8. CASE curStdDevUs >= 1
    BY <2>2, <2>3, <2>5, <2>6, <2>8 DEF GetCurrentTimeoutUs
  <2> QED
    BY <2>2, <2>7, <2>8
<1> QED
  BY <1>1, TimeoutInvariance, PTL

=============================================================================
