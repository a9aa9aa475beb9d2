---------------------------- MODULE MCLinkedList ----------------------------
(* LinkedList for TLC. *)
EXTENDS LinkedList, TLC

\* Lists and values are only compared for equality.
Symmetry == Permutations(Lists) \cup Permutations(Value)
=============================================================================
