------------------------------- MODULE MCWorld -------------------------------
(* Two slots of which each serves two entities before it retires, two        *)
(* tables and two tasks.                                                     *)
EXTENDS World, TLC

Symmetry == Permutations(Tasks)
=============================================================================
