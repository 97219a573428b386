------------------------ MODULE RttEstimatorJacobson ------------------------
(***************************************************************************)
(* The round-trip estimator: src/src/rttEstimatorJacobson.{h,cpp}.         *)
(*                                                                         *)
(* Each method holds the object's mutex for its whole body.  The code      *)
(* computes in double precision with alpha = 1/8, beta = 1/4 and a ratio   *)
(* of 1.1, and truncates; the divisions below are those truncations.  They *)
(* are exact as long as times stay below 2^50 us.  Elapsed times are those *)
(* of a clock that is not set back while a datagram travels.               *)
(***************************************************************************)
EXTENDS Integers

VARIABLES
  curTimeoutUs,  \* the smoothed round-trip time
  curStdDevUs    \* its smoothed deviation

estimatorVars == <<curTimeoutUs, curStdDevUs>>

EstimatorInit(initTimeoutUs) ==
  /\ curTimeoutUs = initTimeoutUs
  /\ curStdDevUs = initTimeoutUs \div 4

Distance(a, b) == IF a >= b THEN a - b ELSE b - a

\* Mutants: the new sample is added to the old estimate at full weight; the
\* old deviation is divided, and the new one not.
SmoothedTimeoutHeavy(elapsedUs) == (elapsedUs + 8 * curTimeoutUs) \div 8

SmoothedStdDevHeavy(elapsedUs) ==
  Distance(elapsedUs, curTimeoutUs) + (3 * curStdDevUs) \div 4

SmoothedTimeout(elapsedUs) == (elapsedUs + 7 * curTimeoutUs) \div 8

SmoothedStdDev(elapsedUs) ==
  (Distance(elapsedUs, curTimeoutUs) + 3 * curStdDevUs) \div 4

\* An acknowledgement of a datagram sent elapsedUs ago.  The deviation is
\* updated first, from the old estimate.
EstimatorAckArrived(elapsedUs) ==
  /\ curStdDevUs' = SmoothedStdDev(elapsedUs)
  /\ curTimeoutUs' = SmoothedTimeout(elapsedUs)

\* Mutant: without the ratio.
GetCurrentTimeoutUsPlain == curTimeoutUs + 4 * curStdDevUs

GetCurrentTimeoutUs == (11 * curTimeoutUs) \div 10 + 4 * curStdDevUs

=============================================================================
