----------------------------- MODULE MCThreads -----------------------------
(* Instances of Threads for TLC: workers are interchangeable, and so are   *)
(* heap addresses.                                                         *)
EXTENDS Threads, TLC

Symmetry == Permutations(Threads \ {main}) \cup Permutations(Objects)

\* All threads together work on two objects in chains of two frames; all
\* objects and longer chains are used as long as one thread does not exist.
Bounded ==
  \/ \E t \in Threads : pc[t] = "absent"
  \/ Cardinality(heap) <= 2 /\ \A t \in Threads : Len(rootFrame[t]) <= 2
=============================================================================
