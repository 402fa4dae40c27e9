----------------------------- MODULE MCSparseSet -----------------------------
(* Four indices on two pages of two, so that a page goes away behind and     *)
(* before another one, and two generations of each slot.                     *)
EXTENDS SparseSet, TLC

Symmetry == Permutations(Value)
=============================================================================
