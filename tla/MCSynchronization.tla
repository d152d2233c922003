------------------------- MODULE MCSynchronization -------------------------
(* Instances of Synchronization for TLC: threads are interchangeable.      *)
EXTENDS Synchronization, TLC

Symmetry == Permutations(Threads)
=============================================================================
