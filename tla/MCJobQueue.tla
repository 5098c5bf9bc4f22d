----------------------------- MODULE MCJobQueue -----------------------------
(* Instances of JobQueue for TLC.                                           *)
EXTENDS JobQueue, TLC

CONSTANTS w1, w2, c1, k1, k2
Symmetry == Permutations(Workers) \cup Permutations(Locks)
=============================================================================
