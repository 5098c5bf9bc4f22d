----------------------------- MODULE DailySync -----------------------------
(***************************************************************************)
(* EDGAR's daily indexes: the hourly pass that gives up what has failed    *)
(* too often and queues what is due, the sync of one date, the calendar of *)
(* dates without an index, and the accession runs a sync creates, which    *)
(* smart retries, pipelines and admins run as well. That one worker at a   *)
(* time executes the job of a date is JobQueue's.                          *)
(***************************************************************************)
EXTENDS SmartRetry

CONSTANTS
    Dates,           \* dates that the hourly pass scans
    Weekends,        \* those on which there is no index
    Listed,          \* the filings of tracked managers in each date's index
    MaxSyncAttempts, \* THIRTEENF_DAILY_SYNC_MAX_ATTEMPTS; more are not told apart
    MaxRequests      \* bound: what admins and others ask for, and workers that die

ASSUME DailySyncAssumption ==
    /\ Weekends \subseteq Dates /\ Listed \in [Dates -> SUBSET Accessions]
    /\ \A d \in Dates : IsFiniteSet(Listed[d])
    /\ MaxSyncAttempts \in Nat \ {0} /\ MaxRequests \in Nat

VARIABLES
    sync,      \* edgar_sync_status, as committed
    calendar,  \* no_index_expected_dates
    over,      \* the dates whose day has ended
    fetch,     \* the active fetch_daily_index job of each date
    poll,      \* the hourly pass of each scheduler
    named,     \* history: the accessions in an index that was synced
    left       \* how much more of that there is

dailyVars == <<sync, calendar, over, fetch, poll, named, left>>

\* "none": there is no row.
SyncStatus == [status : {"none", "failed", "success", "no_data"}, attempts : 0..MaxSyncAttempts]

(* at: "syncing" in a transaction that began after the first since runs      *)
(* were created, "looked" for the runs there are already: add is missing;    *)
(* "done", while the job is still to be completed.                           *)
Fetch == [at : {"none", "queued", "syncing", "looked", "done"}, since : Nat, add : SUBSET Accessions]

\* dates: to be given up, or queued. close: weekends to be put in the calendar.
HourlyPass == [at : {"idle", "sweeping", "swept", "queuing"},
               dates : SUBSET Dates, close : SUBSET Dates]

SyncTypeOK ==
    /\ TypeOK
    /\ sync \in [Dates -> SyncStatus]
    /\ calendar \in [Dates -> {"none", "active", "inactive"}]
    /\ over \subseteq Dates
    /\ fetch \in [Dates -> Fetch]
    /\ \A d \in Dates : fetch[d].since <= Len(runs)
    /\ poll \in [Schedulers -> HourlyPass]
    /\ named \subseteq Accessions
    /\ left \in 0..MaxRequests

NoFetch == [at |-> "none", since |-> 0, add |-> {}]
FetchAt(stage) == [NoFetch EXCEPT !.at = stage]
NoPass == [at |-> "idle", dates |-> {}, close |-> {}]

DailyInit ==
    /\ Init
    /\ sync = [d \in Dates |-> [status |-> "none", attempts |-> 0]]
    /\ calendar = [d \in Dates |-> "none"]
    /\ over = {}
    /\ fetch = [d \in Dates |-> NoFetch]
    /\ poll = [p \in Schedulers |-> NoPass]
    /\ named = {}
    /\ left = MaxRequests

-----------------------------------------------------------------------------
(* run_daily_sync_poll                                                      *)

\* Mutant: what has failed is not queued again.
NewOnly(d) == sync[d].status = "none"

\* Never recorded, or to be tried again.
Retryable(d) == sync[d].status \in {"none", "failed"}

\* Failed too often, and the day is over; a date in the calendar is left as it is.
Exhausted ==
    {d \in over : /\ sync[d].status = "failed" /\ sync[d].attempts >= MaxSyncAttempts
                  /\ calendar[d] # "active"}

ToClose == {d \in Weekends : Retryable(d) /\ calendar[d] = "none"}

ToQueue ==
    {d \in Dates \ ToClose : Retryable(d) /\ calendar[d] # "active" /\ fetch[d].at = "none"}

\* mark_retry_exhausted_daily_syncs_no_data reads. A pass with nothing to do is left out.
BeginPass(p) ==
    /\ poll[p].at = "idle" /\ Exhausted \cup ToClose \cup ToQueue # {}
    /\ poll' = [poll EXCEPT ![p] = [NoPass EXCEPT !.at = "sweeping", !.dates = Exhausted]]
    /\ UNCHANGED <<sync, calendar, over, fetch, named, left>>

InTransaction(d) == fetch[d].at \in {"syncing", "looked"}

\* It waits for a sync that has written the row, and then writes over what that
\* sync has committed.
SweepCommits(p) ==
    LET D == poll[p].dates
    IN  /\ poll[p].at = "sweeping" /\ \A d \in D : ~InTransaction(d)
        /\ sync' = [d \in Dates |-> IF d \in D THEN [sync[d] EXCEPT !.status = "no_data"]
                                    ELSE sync[d]]
        /\ poll' = [poll EXCEPT ![p] = [NoPass EXCEPT !.at = "swept"]]
        /\ UNCHANGED <<calendar, over, fetch, named, left>>

\* queue_daily_sync_poll reads.
LookForDates(p) ==
    /\ poll[p].at = "swept"
    /\ poll' = [poll EXCEPT ![p] = [at |-> "queuing", dates |-> ToQueue, close |-> ToClose]]
    /\ UNCHANGED <<sync, calendar, over, fetch, named, left>>

\* One date that has been queued or closed meanwhile undoes the whole pass.
QueueCommits(p) ==
    LET D == poll[p].dates
        C == poll[p].close
        unique == (\A d \in D : fetch[d].at = "none") /\ (\A d \in C : calendar[d] = "none")
    IN  /\ poll[p].at = "queuing"
        /\ fetch' = [d \in Dates |-> IF unique /\ d \in D THEN FetchAt("queued") ELSE fetch[d]]
        /\ calendar' = [d \in Dates |-> IF unique /\ d \in C THEN "active" ELSE calendar[d]]
        /\ poll' = [poll EXCEPT ![p] = NoPass]
        /\ UNCHANGED <<sync, over, named, left>>

Hourly(p) == BeginPass(p) \/ SweepCommits(p) \/ LookForDates(p) \/ QueueCommits(p)

-----------------------------------------------------------------------------
(* run_daily_index_sync: one transaction, from the count of the attempt to  *)
(* the status.                                                              *)

Tried(d, status) ==
    sync' = [sync EXCEPT ![d] = [status |-> status,
                                 attempts |-> IF @.attempts < MaxSyncAttempts
                                              THEN @.attempts + 1 ELSE @.attempts]]

StartSync(d) ==
    /\ fetch[d].at = "queued"
    /\ fetch' = [fetch EXCEPT ![d] = [FetchAt("syncing") EXCEPT !.since = Len(runs)]]
    /\ UNCHANGED <<vars, sync, calendar, over, poll, named, left>>

\* Any error of the fetch or the parse; a missing index is expected of the dates in
\* the calendar.
FailSync(d) ==
    /\ fetch[d].at = "syncing"
    /\ \/ Tried(d, "failed")
       \/ calendar[d] = "active" /\ Tried(d, "no_data")
    /\ fetch' = [fetch EXCEPT ![d] = FetchAt("done")]
    /\ UNCHANGED <<vars, calendar, over, poll, named, left>>

\* Runs of an accession are looked for by the dedupe key that syncs alone give them.
FromSync(a) ==
    \E i \in Of(a) : runs[i].status = "active" /\ runs[i].whole /\ ~runs[i].retry

LookListed(d) ==
    /\ fetch[d].at = "syncing"
    /\ fetch' = [fetch EXCEPT ![d].at = "looked", ![d].add = {a \in Listed[d] : ~FromSync(a)}]
    /\ UNCHANGED <<vars, sync, calendar, over, poll, named, left>>

\* Mutant: a run that a sync creates is given the accession alone.
BareRun(a) == NewRun(a, FALSE, FALSE)

\* The run is given the manager, the form and all else its retry needs.
Placeholder(a) == NewRun(a, TRUE, FALSE)

\* A run is as old as the transaction that creates it: it goes before the runs that
\* were created during the fetch.
CommitSync(d) ==
    LET n == fetch[d].since
        new == SetToSeq(fetch[d].add)
        Moved(i) == IF i > n THEN i + Len(new) ELSE i
        MovedAll(s) == [x \in DOMAIN s |-> Moved(s[x])]
    IN  /\ fetch[d].at = "looked" /\ \A a \in fetch[d].add : ~Active(a)
        /\ runs' = SubSeq(runs, 1, n) \o [x \in DOMAIN new |-> Placeholder(new[x])]
                                      \o SubSeq(runs, n + 1, Len(runs))
        /\ ended' = MovedAll(ended)
        /\ pass' = [p \in Schedulers |-> [pass[p] EXCEPT !.left = MovedAll(@)]]
        /\ fetch' = [e \in Dates |-> IF e = d THEN FetchAt("done")
                                     ELSE [fetch[e] EXCEPT !.since = Moved(@)]]
        /\ Tried(d, "success")
        /\ named' = named \cup Listed[d]
        /\ UNCHANGED <<aged, calendar, over, poll, left>>

\* Another active run of one of them: the session cannot even commit the failure, and
\* nothing of this sync remains.
CollideSync(d) ==
    /\ fetch[d].at = "looked" /\ \E a \in fetch[d].add : Active(a)
    /\ fetch' = [fetch EXCEPT ![d] = FetchAt("done")]
    /\ UNCHANGED <<vars, sync, calendar, over, poll, named, left>>

\* complete_leased_job
CompleteSync(d) ==
    /\ fetch[d].at = "done"
    /\ fetch' = [fetch EXCEPT ![d] = NoFetch]
    /\ UNCHANGED <<vars, sync, calendar, over, poll, named, left>>

EndSync(d) == FailSync(d) \/ CommitSync(d) \/ CollideSync(d)

Syncs(d) == StartSync(d) \/ LookListed(d) \/ EndSync(d) \/ CompleteSync(d)

-----------------------------------------------------------------------------
(* Others, time and crashes.                                                *)

Request == left > 0 /\ left' = left - 1

\* Runs that pipelines, admins and the syncs of other dates create.
AskRun ==
    /\ Request
    /\ OthersTrigger
    /\ UNCHANGED <<sync, calendar, over, fetch, poll, named>>

\* trigger_job, whatever the date's status.
TriggerSync(d) ==
    /\ Request
    /\ fetch[d].at = "none"
    /\ fetch' = [fetch EXCEPT ![d].at = "queued"]
    /\ UNCHANGED <<sync, calendar, over, poll, named>>

\* create_no_index_date, update_no_index_date
EditCalendar(d) ==
    /\ Request
    /\ calendar' = [calendar EXCEPT ![d] = IF @ = "active" THEN "inactive" ELSE "active"]
    /\ UNCHANGED <<sync, over, fetch, poll, named>>

\* The job's lease runs out, and another worker takes it over, even if it was done.
CrashSync(d) ==
    /\ Request
    /\ fetch[d].at \notin {"none", "queued"}
    /\ fetch' = [fetch EXCEPT ![d] = FetchAt("queued")]
    /\ UNCHANGED <<sync, calendar, over, poll, named>>

DayEnds(d) ==
    /\ d \notin over
    /\ over' = over \cup {d}
    /\ UNCHANGED <<sync, calendar, fetch, poll, named, left>>

-----------------------------------------------------------------------------
DailyNext ==
    \/ Proceed /\ UNCHANGED dailyVars
    \/ AskRun
    \/ \E p \in Schedulers : Hourly(p) /\ UNCHANGED vars
    \/ \E d \in Dates : Syncs(d)
    \/ \E d \in Dates : (TriggerSync(d) \/ EditCalendar(d) \/ CrashSync(d)) /\ UNCHANGED vars
    \/ \E d \in Dates : DayEnds(d) /\ UNCHANGED vars

NoPassRuns == \A p \in Schedulers : poll[p].at = "idle"

\* Besides what SmartRetry asks for: days end, hours strike, and jobs are executed.
\* Passes take moments and are an hour apart: a sync does not begin or end within one
\* of them every time.
DailyFairness ==
    /\ Fairness
    /\ WF_dailyVars(\E d \in Dates : DayEnds(d))
    /\ WF_dailyVars(\E d \in Dates : Syncs(d))
    /\ \A d \in Dates : /\ SF_dailyVars(StartSync(d) /\ NoPassRuns)
                        /\ SF_dailyVars(EndSync(d) /\ NoPassRuns)
    /\ \A p \in Schedulers : WF_dailyVars(Hourly(p))

DailySpec == DailyInit /\ [][DailyNext]_<<vars, dailyVars>> /\ DailyFairness

-----------------------------------------------------------------------------
\* Settled for good: synced, given up, or known to have no index.
Settled(d) == sync[d].status \in {"success", "no_data"} \/ calendar[d] = "active"

(* Every date is synced in the end, or given up, or closed: no error, no      *)
(* crash, no pass that is undone and no sync that collides with another run   *)
(* of a filing leaves a date behind.                                          *)
DatesSettle == \A d \in Dates : <>[]Settled(d)

(* An accession that a synced index has named is ingested in the end, or its  *)
(* failure has been retried, unless an admin cancels it: whatever admins and  *)
(* pipelines run of it, and whoever looks at whose failure.                   *)
NamedIsTried ==
    \A a \in Accessions :
        a \in named ~> \E i \in Of(a) : runs[i].retry \/ runs[i].status \in {"succeeded", "canceled"}
=============================================================================
