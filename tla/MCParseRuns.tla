---------------------------- MODULE MCParseRuns -----------------------------
(* Instances of ParseRuns for TLC.                                          *)
EXTENDS ParseRuns, TLC

CONSTANTS s1, s2, s3

Symmetry == Permutations(Sessions)
=============================================================================
