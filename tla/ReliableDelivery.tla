-------------------------- MODULE ReliableDelivery --------------------------
(***************************************************************************)
(* What the protocol promises, with no windows, packets or network: the    *)
(* chunks of a file reach the receiving file in any order, each is written *)
(* once and unaltered, and the sender counts a prefix of the file as       *)
(* delivered only when all of that prefix is in the receiving file.        *)
(***************************************************************************)
EXTENDS Integers

CONSTANT Chunks                 \* the number of chunks of the file

VARIABLES
  file,                         \* the receiving file, chunk by chunk
  confirmed                     \* chunks the sender knows to be delivered

vars == <<file, confirmed>>

Init ==
  /\ file = [s \in {} |-> "chunk"]
  /\ confirmed = 0

Deliver(s) ==
  /\ s \notin DOMAIN file
  /\ file' = [t \in DOMAIN file \cup {s} |->
                IF t = s THEN "chunk" ELSE file[t]]
  /\ UNCHANGED confirmed

Confirm(n) ==
  /\ n > confirmed
  /\ 0..(n - 1) \subseteq DOMAIN file
  /\ confirmed' = n
  /\ UNCHANGED file

Next ==
  \/ \E s \in 0..(Chunks - 1) : Deliver(s)
  \/ \E n \in 1..Chunks : Confirm(n)

Spec == Init /\ [][Next]_vars

=============================================================================
