------------------------------ MODULE MCHeap4 ------------------------------
(* TLC instances of Heap4. *)
EXTENDS Heap4, TLC

TaskSymmetry == Permutations(Tasks)
=============================================================================
