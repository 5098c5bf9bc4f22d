---------------------------- MODULE MCSmartRetry ----------------------------
(* Instances of SmartRetry for TLC.                                         *)
EXTENDS SmartRetry

CONSTANTS a, e, P, p1, p2
=============================================================================
