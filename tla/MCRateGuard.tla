---------------------------- MODULE MCRateGuard ----------------------------
(* An instance of RateGuard for TLC.                                        *)
EXTENDS RateGuard, TLC

Backoffs == <<1, 2>>

Symmetry == Permutations(Callers)
=============================================================================
