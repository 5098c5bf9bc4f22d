----------------------------- MODULE StockLock -----------------------------
(***************************************************************************)
(* The advisory lock of one stock. Every write of a metric fact takes it   *)
(* in a row trigger, and some code asks for it before it reads; a          *)
(* transaction keeps it until it ends.                                     *)
(***************************************************************************)
VARIABLE holder  \* the session whose transaction holds the lock

Nobody == "nobody"

\* Mutant: a session that finds the lock taken goes on without it.
TakesAnyway(s) == holder' = s

Takes(s) == holder = Nobody /\ holder' = s

Releases(s) == holder' = IF holder = s THEN Nobody ELSE holder
=============================================================================
