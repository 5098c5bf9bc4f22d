------------------------------ MODULE RateGuard ------------------------------
(***************************************************************************)
(* One upstream of the Rate Guard gateway: threads that fetch through its  *)
(* token bucket, retry with backoff, and pause when the upstream throttles *)
(* one of them.                                                            *)
(*                                                                         *)
(* The unit of time is a tick, and a token is refilled in Interval ticks.  *)
(* tokens counts in ticks too, so that a full bucket holds Burst *         *)
(* Interval and everything is whole.                                       *)
(***************************************************************************)
EXTENDS Integers, Sequences, FiniteSets

CONSTANTS
    Callers,       \* threads of the gateway
    Interval,      \* ticks per token
    Burst,
    MaxRetries,
    Backoff,       \* the backoff of each retry, the last of them for all later ones
    Pause,         \* how long a throttled upstream is left alone
    MaxPauseWait,
    MaxLate,       \* bound: how late a thread that slept goes on
    MaxFetches     \* bound: fetches in a history

ASSUME RateGuardAssumption ==
    /\ {Interval, Burst} \subseteq Nat \ {0}
    /\ {MaxRetries, MaxLate, MaxFetches} \subseteq Nat
    /\ Backoff \in Seq(Nat) /\ Backoff # <<>>
    /\ Pause \in Nat /\ MaxPauseWait \in Nat /\ Pause <= MaxPauseWait

VARIABLES
    now,
    tokens,     \* negative when turns to come are reserved
    updated,    \* when tokens was right
    pause,      \* _global_pause_until
    caller,     \* the threads
    turns,      \* history: the times the bucket has given
    left        \* the fetches still to come, of MaxFetches

vars == <<now, tokens, updated, pause, caller, turns, left>>

\* until: when the thread wakes; barred: history, when the pause it caused ends.
CallerState == [at : {"idle", "trying", "paused", "waiting", "asking"},
                attempt : 0..MaxRetries, until : Nat, turn : Nat, barred : Nat]

Idle == [at |-> "idle", attempt |-> 0, until |-> 0, turn |-> 0, barred |-> 0]

TypeOK ==
    /\ now \in Nat /\ updated \in 0..now /\ pause \in Nat
    /\ tokens \in Int /\ tokens <= Burst * Interval
    /\ caller \in [Callers -> CallerState]
    /\ \A r \in Callers : caller[r].at = "waiting" => caller[r].turn \in 1..Len(turns)
    /\ turns \in Seq(Nat)
    /\ left \in 0..MaxFetches

Init ==
    /\ now = 0 /\ updated = 0 /\ pause = 0
    /\ tokens = Burst * Interval
    /\ caller = [r \in Callers |-> Idle]
    /\ turns = <<>>
    /\ left = MaxFetches

Least(a, b) == IF a <= b THEN a ELSE b
Greatest(a, b) == IF a >= b THEN a ELSE b

-----------------------------------------------------------------------------
(* The token bucket.                                                        *)

\* Mutant: tokens never stay negative.
RefilledFromZero == Least(Burst * Interval, Greatest(tokens, 0) + (now - updated))

Refilled == Least(Burst * Interval, tokens + (now - updated))

\* Mutant: the token is taken before the wait is computed.
WaitAfterTaking ==
    IF Refilled >= 2 * Interval THEN 0 ELSE 2 * Interval - Refilled

Wait == IF Refilled >= Interval THEN 0 ELSE Interval - Refilled

Acquire(r) ==
    /\ caller[r].at = "paused" /\ caller[r].until <= now
    /\ tokens' = Refilled - Interval
    /\ updated' = now
    /\ turns' = Append(turns, now + Wait)
    /\ caller' = [caller EXCEPT ![r] = [@ EXCEPT !.at = "waiting", !.until = now + Wait,
                                                 !.turn = Len(turns) + 1]]
    /\ UNCHANGED <<now, pause, left>>

-----------------------------------------------------------------------------
(* _request_with_retry                                                      *)

Fetch(r) ==
    /\ left > 0 /\ left' = left - 1
    /\ caller[r].at = "idle"
    /\ caller' = [caller EXCEPT ![r] = [Idle EXCEPT !.at = "trying", !.until = now]]
    /\ UNCHANGED <<now, tokens, updated, pause, turns>>

\* Mutant: only the first attempt looks for a pause.
PauseSeenOnce(r) ==
    IF pause > now /\ caller[r].attempt = 0 THEN Least(pause - now, MaxPauseWait) ELSE 0

PauseSeen(r) == IF pause > now THEN Least(pause - now, MaxPauseWait) ELSE 0

RespectPause(r) ==
    /\ caller[r].at = "trying" /\ caller[r].until <= now
    /\ caller' = [caller EXCEPT ![r] = [@ EXCEPT !.at = "paused",
                                                 !.until = now + PauseSeen(r)]]
    /\ UNCHANGED <<now, tokens, updated, pause, turns, left>>

Send(r) ==
    /\ caller[r].at = "waiting" /\ caller[r].until <= now
    /\ caller' = [caller EXCEPT ![r] = [@ EXCEPT !.at = "asking", !.until = 0, !.turn = 0]]
    /\ UNCHANGED <<now, tokens, updated, pause, turns, left>>

BackoffOf(n) == Backoff[Least(n, Len(Backoff))]

\* The thread after an answer that did not settle its fetch.
Retrying(r, barred) ==
    IF caller[r].attempt = MaxRetries THEN Idle
    ELSE [caller[r] EXCEPT !.at = "trying", !.attempt = caller[r].attempt + 1,
                           !.until = now + BackoffOf(caller[r].attempt + 1),
                           !.barred = barred]

\* Any status below 500 but 429, 403 included
Settled(r) ==
    /\ caller[r].at = "asking"
    /\ caller' = [caller EXCEPT ![r] = Idle]
    /\ UNCHANGED <<now, tokens, updated, pause, turns, left>>

\* 429 or 503
Throttled(r) ==
    /\ caller[r].at = "asking"
    /\ pause' = Greatest(pause, now + Pause)
    /\ caller' = [caller EXCEPT ![r] = Retrying(r, now + Pause)]
    /\ UNCHANGED <<now, tokens, updated, turns, left>>

\* Another 5xx, or no answer
Failed(r) ==
    /\ caller[r].at = "asking"
    /\ caller' = [caller EXCEPT ![r] = Retrying(r, caller[r].barred)]
    /\ UNCHANGED <<now, tokens, updated, pause, turns, left>>

\* Time passes while something still depends on it.
Deadlines == {caller[r].until : r \in Callers}
             \cup {pause, updated + Burst * Interval - tokens}

Tick ==
    /\ \E t \in Deadlines : t > now
    /\ \A r \in Callers : caller[r].at \in {"trying", "paused", "waiting"}
                            => now < caller[r].until + MaxLate
    /\ now' = now + 1
    /\ UNCHANGED <<tokens, updated, pause, caller, turns, left>>

Next ==
    \/ \E r \in Callers :
          \/ Fetch(r) \/ RespectPause(r) \/ Acquire(r) \/ Send(r)
          \/ Settled(r) \/ Throttled(r) \/ Failed(r)
    \/ Tick

Spec == Init /\ [][Next]_vars

-----------------------------------------------------------------------------
Sends(r) == caller[r].at = "waiting" /\ caller'[r].at = "asking"

\* "the combined egress rate [...] is bounded by one limiter": of the turns the bucket
\* gives, however many threads compete, no Burst + k are closer than k intervals, and no
\* thread sends before its turn, however late the ones before it are.
Paced ==
    [][\A r \in Callers : Sends(r) =>
          \A i \in 1..(caller[r].turn - Burst) :
              now >= turns[i] + (caller[r].turn - i - Burst + 1) * Interval]_vars

\* No capacity is lost either: who comes now waits an interval for each turn that was
\* given for the last interval or for later, and for nothing else.
NothingWasted ==
    Wait <= Interval * Cardinality({n \in 1..Len(turns) : turns[n] > now - Interval})

\* A thread that was throttled does not ask again before the pause it caused is over,
\* whatever the other threads are told meanwhile.
OwnPauseWaited == [][\A r \in Callers : Sends(r) => now >= caller[r].barred]_vars

\* "every retry must wait that pause out before its next attempt": not so for the pause
\* that another thread causes while the retry is already waiting for its turn.
RetriesPause ==
    [][\A r \in Callers : Sends(r) /\ caller[r].attempt > 0 => now >= pause]_vars
=============================================================================
