------------------------- MODULE MCReliableTransfer -------------------------
(***************************************************************************)
(* ReliableTransfer for TLC: the receiver's threads are interchangeable.   *)
(* For safety only; liveness is checked without symmetry.                  *)
(***************************************************************************)
EXTENDS ReliableTransfer, TLC

ThreadSymmetry == Permutations(ReceiveThreads)

=============================================================================
