--------------------------- MODULE MCTMpmcIndexRing ---------------------------
(* Three threads on a ring of two slots; three-bit positions wrap after     *)
(* eight operations.                                                       *)
EXTENDS TMpmcIndexRing, TLC

ThreadSymmetry == Permutations(Thread)
==============================================================================
