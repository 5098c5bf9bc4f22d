---------------------------- MODULE MCDailySync ----------------------------
(* Instances of DailySync for TLC.                                          *)
EXTENDS DailySync, TLC

CONSTANTS a, P, p1, fri, sat

FridayLists == fri :> {a} @@ sat :> {}

InitWith(recorded, requests) ==
    /\ Init
    /\ sync = [d \in Dates |-> [status |-> IF d \in recorded THEN "success" ELSE "none",
                                attempts |-> IF d \in recorded THEN 1 ELSE 0]]
    /\ calendar = [d \in Dates |-> "none"]
    /\ over = recorded
    /\ fetch = [d \in Dates |-> NoFetch]
    /\ poll = [p \in Schedulers |-> NoPass]
    /\ named = {}
    /\ left = requests

\* Both dates undisturbed; one date, or a weekend, and what others ask for; retries of
\* what others ask for, every date being synced.
Inits ==
    \/ InitWith({}, 0)
    \/ InitWith({sat}, 1) \/ InitWith({fri}, 1)
    \/ InitWith(Dates, 2)

NightsSpec == Inits /\ [][DailyNext]_<<vars, dailyVars>> /\ DailyFairness
=============================================================================
