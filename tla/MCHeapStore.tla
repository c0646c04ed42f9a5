---------------------------- MODULE MCHeapStore ----------------------------
(* Instances of HeapStore for TLC. *)
EXTENDS HeapStore, TLC

Symmetry == Permutations(Participants)

=============================================================================
