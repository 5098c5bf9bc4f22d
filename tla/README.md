# ValuePilot in TLA+

TLA+ models of the parts of ValuePilot whose correctness hangs on the order in which
sessions, workers, threads and outside services act, checked with TLC on small instances
and, where section 11 says so, proved with TLAPS for every instance.

## 1. The system

ValuePilot is a FastAPI backend (`src/backend/app`) over PostgreSQL, a Next.js front end
(`src/frontend`), and a small outbound gateway (`src/rate-guard/app`). The API process
also hosts an in-process scheduler (APScheduler) and the 13F job worker threads; more
API and worker processes may run. Everything they share is in the database: sessions run
at READ COMMITTED with `autoflush=False` and `expire_on_commit=True`; most handlers read
a row, decide in Python and commit later, and what protects two of them from each other
is a partial unique index, a `FOR UPDATE [SKIP LOCKED]`, an advisory lock, or nothing.
Paths below are relative to `src/` or, when they begin with `app/`, to `src/backend/`; a
bare file name is that of the section's source.

| component | state | operations | interacts with | hard behaviour | what makes it correct | module |
|---|---|---|---|---|---|---|
| 13F job queue | `job_runs` rows: status, lock key, lease, heartbeat | trigger, claim, heartbeat, stage, complete, cancel, release, watchdog | every 13F job; admin API; CLI | leases, takeover, late writes, crashes | one execution per lock key; nothing runs again; nothing stays for ever | `JobQueue` |
| Smart retries | `job_runs`: what failed, when, what it names | the nightly pass: look at a target, trigger it | job queue, scheduler | ids, ends and parents' ends in three orders; a limit that counts only what is newer | what failed is tried again, and not for ever | `SmartRetry` |
| Filing authority | `filings_13f`: active flag, amendment status, warning | detail and bulk ingest, parse, controlled reparse, resolve, sweep, policy | job queue, holdings, user API | disordered amendments, sessions that decide on rows they remember | the rightful filing serves, and only one; decisions stand | `FilingPolicy`, `FilingAuthority` |
| Holdings parse runs | `parse_runs`: status, `is_current`; the filing's `parse_status` | ingest, re-parse, quarantine, validation gate | filing authority; admin API, CLI, jobs | overlapping re-parses, failures after the demotion | what is shown stays shown and is never replaced by something older or worse | `ParseRuns` |
| Notification outbox | delivery attempts, destinations and their secrets | deliver, retry, give up, verify, replace, revoke, rotate | Slack, SMTP; scheduler; API | crashes between send and record, slow batches, rotation against revocation | one sender, no second acceptance, everything settles | `Outbox` |
| Notification production and digests | notifications, subscriptions, digests | produce, edit a subscription, digest a day or a week | scheduler replicas, outbox | ids, transaction times and commits in three orders | told once, and in the end | `Digests` |
| Rate Guard gateway | token bucket and pause of an upstream | fetch, wait for a turn, retry, pause | EDGAR, market data | threads racing for turns, throttling | the pace is kept, pauses are waited out | `RateGuard` |
| Price crossings | `notification_price_alert_states`, prices, the case's value and threshold | refresh a price, revise a case, set a threshold, evaluate | scheduler replicas, production, digests | a commit in the middle of a handler, decisions remembered while a lock is waited for, prices out of order | only the market crosses, never in silence, and the projection catches up | `PriceAlerts` |
| Daily index sync and its scheduler | `edgar_daily_sync_status`, queued jobs | poll the queue, sync a date, retry, give up | job queue, EDGAR | a pass racing with its own jobs; one transaction for a date and its filings; runs that others trigger | every date is settled; what an index names is ingested or retried | `DailySync` |
| Rate Guard client and cache | route state, response cache | route, fall back, cache | gateway | a direct fallback past the gateway's pace | planned | - |
| Documents and parsed facts | `pdf_documents`, `metric_facts.is_current`, the calculated fact | upload, re-parse, archive, withdraw, deduplicate | calculated metrics; the stock's lock | two documents of one stock at once, rows locked before the lock, calculations that outlive their inputs | what is current is what the latest reports say, disagreements included | `ParsedFacts`, `StockFacts` |
| SEC financial lineage | parse runs, operations and their availability, publications | ingest, finalize, recover, publish for a cutoff | Rate Guard; the stock's lock | a stop between two commits; a time stamped before it is committed | what was known at a time never changes afterwards | `SecLineage`, `PointInTime`, `StockFacts` |
| Account erasure | every row of a user | request, execute | everything | requests that must be kept out | planned | - |
| Market data providers, CUSIP enrichment | mappings | fetch, backfill | Rate Guard | rate limits | none beyond upserts | - |
| Pools, portfolios, research cases | rows of one user | create, edit | user API | two requests of one user | last write wins | - |
| Scoring, screening, 13F read side, front end | none | read | all | numeric edges | values, not orders | - |

`PROJECT.json` lists every component with its files and, where it is not modelled, the
reason.

Modules marked MC only instantiate a specification for TLC. `StockFacts` composes
`ParsedFacts` and `SecLineage`, which share the lock of a stock (`StockLock`), and
`DailySync` extends `SmartRetry`, as both create and judge the same runs; `PriceAlerts`
extends `Digests`, since an alert is a notification like any other. Otherwise
no module models another one's part: the filing authority's jobs run under the queue's lock keys, but the lock
keys are per quarter or per accession, and several of the operations of
`FilingAuthority` run in API requests without one, so its sessions are left as free as
they would be without the queue. `SmartRetry` takes from the queue that an active run ends
(`Drains`) and keeps of it only who is active under a key. `Digests` counts what is queued for a destination and
`Outbox` starts from what has been queued. `ParseRuns` is what `FilingAuthority` takes for
granted of one accession: there a parse is an outcome and another session's parse is the
action `ParsedByOther`; here nothing is said of the quarter.

Two idioms recur. An SQLAlchemy session that reads a row without locking it, decides,
and commits later is two actions, a read that remembers the row and a commit that writes
*only the columns that differ from what was read* over whatever the row has become
(`Columns` in `FilingAuthority`, `Written` in `Outbox`, the `EXCEPT` of single columns
in `JobQueue`). And the operators marked "Mutant" in the modules are wrong variants of
the definition below them, with a plausible bug each; they show that a property is able
to fail, and no specification uses them.

## 2. The 13F job queue: `JobQueue.tla`

The `job_runs` table (`app/models/institutions.py`), the worker and its heartbeat thread
(`app/services/thirteenf_job_worker.py`) and the admin, scheduler and CLI operations
(`app/services/thirteenf_admin_dashboard.py`).

**State.** `job[j]` is a row: status, lock key, owner, fencing token, what is left of
the lease, age of the heartbeat and of `started_at`. `wk[w]` is where a worker
incarnation is (a crashed one never comes back; a restarted process has a new worker
id), `beat[w]` its heartbeat thread, `tx[c]` the read-but-not-yet-written transaction of
a client, `dog` the rows the watchdog has selected.

**Actions.**

| code | actions |
|---|---|
| `trigger_job`: look for an active row, insert, IntegrityError is a conflict | `CheckTrigger`, `InsertQueued` |
| `cancel_job`, `release_stale_job_lock` | `LoadCancel`/`WriteCancel`, `LoadRelease`/`WriteRelease` |
| `claim_next_job` under `FOR UPDATE SKIP LOCKED` | `Claim` |
| `heartbeat_job_lease` in the heartbeat thread | `LoadBeat`, `WriteBeat` |
| `_execute_pipeline_stage_job`, from a payload or through `run_locked_job` | `CheckStage`, `InsertStage`, `FinishStage` |
| `execute_queued_job_once`, `complete_leased_job` | `EndPayload`, `WriteComplete` |
| `mark_stale_running_jobs_abandoned` | `LoadWatchdog`, `WriteWatchdog` |
| death of a process | `Crash` |
| the clock | `Tick` |

`EndPayload` has the one place where the worker's session matters: a payload that
committed, ran a stage or raised has expired the row in the session and the owner check
reads the table; after one that wrote nothing the check reads the row as cached at the
claim, and always agrees.

**Time.** A row stores what is left of its lease and the ages of its heartbeat and of
its start; `Tick` moves them all. A tick stands for the heartbeat interval (100 s), so
that no transaction spans one, and everything may interleave between two of them.

**Assumptions on timing** are constants, so that each run says what it needs.
`TimelyBeats`: the heartbeat thread of a live owner is scheduled within its interval.
`ShortStages`: a stage ends before the watchdog's timeout. `QuickWatchdog`: no claim
commits between the watchdog's select and its commit. `AdminOps`: which admin operations
are in play. `LockUnique`, `NeverRunsAgain` and `StageNotClaimed` need none of them;
`Exclusive` needs all of them and `AdminOps = {}`: without any one of the four TLC finds
two executions under one key (without `QuickWatchdog` only from three workers on: one
has died, the second took its row over, the third gets the row that is queued after the
watchdog has failed the second's).

**Properties.** `LockUnique`, `StageNotClaimed`, `NeverRunsAgain` under every race
(`queue_races`: two rows, two workers, a client that cancels and releases, leases,
timeout and staleness of one tick, two claims of a row). `Exclusive`: no two processes
run under one lock key, and the invariant that explains it, `ExclusiveInv`; `Drains`:
whatever is queued or running stops being so (`queue_exclusive`, the timing assumptions
on, a crash that leaves one worker; the run checks `Exclusive` and `Drains`, and the
invariant is proved).

**Fairness** (`LiveSpec`): time goes on, the APScheduler job of the watchdog fires for
ever, a live worker polls for ever, its heartbeat thread runs, payloads and stages end
(all their requests have timeouts), and a transaction begun is finished. Nothing makes a
client begin one, and nothing makes a process crash.

**Where documents and code disagree.** Four statements are kept in the module with their
counterexamples known and no run of their own: `OnlyOwnerCompletes`
(`complete_leased_job` looks and then writes, without a lock or a condition on the
token, so a worker whose lease ran out completes the execution of the worker that took
over; `docs/tasks/2026-05-09_13f-job-scheduler-lease.md:11` says that only the owner
can), `NoSecondCopy` (a stage that outlasts the watchdog's timeout is failed
while it runs, and a second copy of it can start;
`thirteenf_admin_dashboard.py:3694-3696`), `RecoveryLeavesFinishedAlone` (the watchdog
and the release write over a row that was completed after they had read it;
`docs/tasks/2026-05-08_13f-production-hardening-batch.md:63`) and
`WatchdogNeedsExpiredLease` (a heartbeat between select and write renews what the
watchdog fails; `docs/tasks/2026-05-09_13f-job-scheduler-lease.md:72`). A row in
`cancel_requested` whose worker is gone is ended by nobody but an admin's release;
`Drains` does not speak of it.

## 3. Smart retries: `SmartRetry.tla`

`smart_retry_failed_jobs` (`app/services/thirteenf_admin_dashboard.py:1449`), which the
scheduler runs every night when `THIRTEENF_SMART_RETRY_ENABLED` is set.

**State.** `runs` the job rows in the order of `created_at`, each with its lock key, its
status (`failed` stands for `partial_success` too), whether its own input is all a retry
needs (`whole`), whether a smart retry triggered it, and the targets its failure names;
`ended` the failed ones in the order of `finished_at`; `aged` how many of them are a day
old; `pass[p]` the jobs a scheduler has still to look at, the lock keys it has seen, and
the target it is about to trigger.

**Actions.** `TriggerOther` (syncs, pipelines and admins), `End` (success, cancellation,
failure), `GrowOld`; then the pass: `Begin` selects the failed jobs that are a day old,
`Look` takes the next target of the job at hand and decides, `Trigger` is `trigger_job`,
for which another active run is a conflict, `NextJob` and `Done`. `NamedBy` is
`_job_retry_targets`: an `ingest_accession` job names itself only when it has the
manager, the form and the rest that a daily sync gives it; `enrich_metadata` always
does; a parent job names any of the stages and accessions that failed in it.

**Bounds.** A pass may begin at any time, which is more than one a night. `MaxOthers`
runs are triggered by others and `MaxFollowed` retries of each key are followed; `Due` is
false beyond them. One accession and one parent are enough for every relation of ids and
ends between a run and those that name it, three runs (a retry may be one) for two failures
about one target with a success between or after them. Without dates, three runs of others
(201 K states), or two attempts and three retries followed (1.3 M), the same holds.

**Properties** (`sync_nights`). `NamedEnds`: a target that only its parents name is not
tried more than `MaxAttempts` times after the last run that named it, and once more for
every further scheduler: two of them choose on the same rows, the first retry ends before
the second triggers. `OwedIsTried`: the failure that ended last is never left
behind because an older one has been looked at first.

**Fairness.** Days go by, runs end, and schedulers run their passes.

**Where comments and code disagree.** `retry_ends`: attempts are counted among the runs
*newer than the job at hand*, and the job at hand is the failed one that ended last. A
failed retry that names itself is that job, finds no attempt after itself, and is tried
again: a target that cannot succeed is queued every other night without end
(`thirteenf_admin_dashboard.py:1457` and `:1501`). The test of the limit
(`tests/unit/test_smart_retries.py:191`) arranges retries that finished before the job
they retry. Not given a run of its own: the same look hides a failure. A parent that
was created first and ended last finds a success newer than itself and marks the key
as seen, although a run after that success has failed and its own retry is due
(`:1456`, "hasn't been successfully processed by a newer job"); it does so every night.

### The daily sync: `DailySync.tla`

`thirteenf_scheduler.py` and `thirteenf_daily_sync.py` (`app/services`) on top of
`SmartRetry`: both create `ingest_accession` runs, and each looks at the other's.

**State.** `sync` the committed rows of `edgar_sync_status` (a sync writes `pending`,
`running` and its result in one transaction, so that only results are seen, and a crash
loses the attempt it counted), `calendar` the dates without an index, `over` the days that
have ended, `fetch[d]` the active `fetch_daily_index` job of a date, `poll[p]` the hourly pass
of a scheduler, and `named`, a history: the accessions of a synced index.

**Actions.** An hourly pass is `BeginPass` (what failed too often is read), `SweepCommits` (and
given up), `LookForDates` and `QueueCommits` (weekends are closed and dates queued, all or
nothing). A sync is `StartSync`, then `FailSync`, or `LookListed` (which of its accessions
have an active run) with `CommitSync` or `CollideSync`, and `CompleteSync` ends its job. A run
is as old as the transaction that creates it, so `CommitSync` puts its runs before those
that were created while the index was fetched. `AskRun`, `TriggerSync`, `EditCalendar` and
`CrashSync` are others, admins and workers that die, each a `Request`; `DayEnds` is the clock.

**Properties** (`sync_nights`). `DatesSettle`: every date is, from some time on, synced, given
up, or in the calendar of dates without an index. `NamedIsTried`: an accession that a synced
index named is ingested in the end, or retried, unless an admin cancels its run.

**Bounds.** The run starts from both dates, one of them on a weekend, undisturbed; from
either date with a request; and from synced dates with two requests. Two attempts are told
apart. Which dates are scanned is a constant: the first date ever is forgotten when it falls
out of the window (`THIRTEENF_DAILY_SYNC_BOOTSTRAP_DAYS`) before any date was recorded.

**Fairness.** Days end, hours strike, jobs are executed, and a sync does not begin or end
between the sweep and the queueing of a pass every time (`NoPassRuns`): a pass takes
moments. Without that assumption TLC shows a date that is given up while its job is
queued, fails right after, is queued by the same pass, and so on.

**Where the code surprises.** Active runs of an accession are looked for by
`dedupe_key == accession_no` (`thirteenf_daily_sync.py:181`), but only syncs give that key:
`trigger_job`, pipelines and smart retries write the lock key there
(`thirteenf_admin_dashboard.py:1388`, `:3753`). So an active run of theirs is not seen, the
insert violates the unique index, the handler's own commit fails on the broken transaction,
and nothing of the whole date remains, neither its status nor its attempt nor the runs of its
other filings (`CollideSync`). It is repeated every hour until that run has ended, which is
why `DatesSettle` still holds; if an index listed one accession under two tracked managers,
the date would collide with itself for ever (`Listed` is a set, which leaves that out). The
test of it (`tests/unit/test_13f_daily_index_sync.py:191`) has only a run of the sync's own
kind. Besides: the sweep may write `no_data` over a success that was committed after its
read; and a failed date that is put in the calendar later is neither tried nor given up, and
stays failed.

## 4. The filing authority: `FilingPolicy.tla`, `FilingAuthority.tla`

Which of the filings of a manager for a quarter serves the product. `FilingPolicy` is
`competition_pool` and `apply_active_filing_policy`
(`app/services/thirteenf_filing_detail.py`) as a function on the rows of one (manager,
quarter): the pools and rules in order, missing and tied acceptance times, the warnings
and statuses a dispute leaves and the recovery that clears them. There is no state in
it. `FilingAuthority` is the sessions around it.

**State.** `filed` is the set of accessions the manager files for the quarter, chosen
once; `db` the committed rows; `ses[s]` what a session is doing with the rows it has
read (`read`), as they were (`orig`) and as they are in its memory (`view`), and the row
locks its flushes hold (`rows`); `holder` the owner of the period's advisory lock.

**Actions.** `Discover` (the quarter index), `Backfill` (period routing), `Detail`
(`ingest_accession_filing_detail`), `Bulk` (phases 2 and 2.5 of `_execute_ingest_job`),
`StartParse` with `ParseOk`, `ParseFails`, `ParseQuarantined` (`_do_ingest_holdings`), the
loop over the filings of phase 3 (`PassOver`, `ParseNext`, `EndLoop`, `LoopRollsBack`, with
`ingest_if_needed`), `GatePasses` and `GateFails` (`controlled_reparse_accession`), `Resolve` (`resolve_amendment`), `Sweep` (phase 5 of
the ingest job). All those that reach the policy go through `TakeLock`, which is the
advisory lock, the group's query and the policy in one step since nobody else decides
meanwhile, and `Commit`, which writes the changed columns unless the partial unique
index forbids it and releases the lock; where it does, the decision is rolled back and only a
parse leaves something, its failure (`Refused`). `AbortDeadlocked` is PostgreSQL breaking a
deadlock between the period lock and row locks.

The point of the module is `Queried`: the query under the lock does not refresh a row
the session has loaded before. The decision is then taken on a row from before the lock.
Two transactions remember more than the filing they are about. `Bulk` applies what the
documents of all its filings `E` say before it asks the policy about the first of them (and
with `E = {f}` is one of the transactions that follow). The loop does not commit
where it passes over a filing that has a current run or no information table: the row stays
remembered, and locked if its parse status was mended (`Mended`), until the next filing it
parses commits, phase 4 does (`EndLoop`), or a document cannot be loaded (`LoopRollsBack`).

**Bounds.** The quarters, acceptance times, routes and admin decisions are chosen per
filing by constants (`SerialQuarters` and the rest in `MCFilingAuthority`). `Spec` starts
from filings that are not known yet; `RoutedSpec`, which the run of two sessions uses, from a
quarter whose documents have been read one after another, each with a time of its own
(`Stated`, `Routed`). What a document says of its quarter is one of four (`Routings`): a clean
one, one that ended suspiciously long ago, none that can be told, no date at all. Two parses of one accession do not overlap (`ParsedByOther`): what they do to each other's parse
runs is `ParseRuns`.

**Properties.** With one session at a time and every operation (`filing_serial`; a report
with two restatements, two restatements that may tie, a report with a notice and its
amendment, a notice with two amendments, an amendment that adds holdings; acceptance times
missing, equal and in any order; the notice that loses its quarter and finds it again): when nothing is disputed any more the
rightful filing serves, whatever the history (`SettledServes`), no warning or pending status of an old dispute
stays (`DisputesFade`; the warning of an applied amendment that owns the slot is the one that
does, see `ResolvedTieClears` below, and the property says so), a sweep is a fixed point
(`SweepSettles`), what an admin decided stands (`DecisionStands`) and no decision runs into
the unique index, though the loop and the bulk pass decide on rows they have read earlier in
the transaction (`IndexNeverFires`). `Rightful` is the reference: tiers and acceptance
times, with none of the pools and rules of the code. With two sessions that parse,
re-parse, loop over and sweep two restatements (`filing_parses`): the rightful one serves when
the sessions rest (`LatestServes`), also when a decision has run into the index and been
rolled back, and every session gets its turn (`SessionsEnd`).

**Fairness.** For each session: a parse, a loop and a deadlock end (weak fairness), and a lock
it waits for, of the period or of a row, is granted in turn (strong fairness of `TakeLock` and
`Commit`). Nobody is bound to start anything.

**Where documents and code disagree.** `filing_decision`: a parse that has read a
restatement before an admin rejects it takes the lock, sees the remembered row, elects
it and writes `applied` over `rejected`. Not given a run of their own:
- `IndexNeverFires` with two sessions and the operations of `filing_decision`, or with the
  loop beside another session (`filing_parses` with this invariant): a session
  that remembers the active flag of before runs into the index its demote-flush-activate
  order is meant to satisfy (`thirteenf_filing_detail.py:624`). Two restatements suffice: the loop
  of one session passes over `r1`, which another is about to elect; the other commits; the
  first parses `r2` and elects it without demoting `r1`. With a report `o1` and two
  restatements of it: the loop passes over `o1` while `r2` serves, `r2` fails its gate
  in another session and `o1` serves again, the loop parses `r1` and elects it beside `o1`.
  The parse is then recorded as failed, and its holdings are gone until it is retried.
- With the loop beside another session a quarter can be left with no serving filing: the loop
  passes over `r2` while it serves, `r2` fails its gate and `r1` is elected, the loop parses
  `r1` again and, going by the `r2` it remembers, demotes `r1` for it. `r2` itself is not
  written, as in this session nothing about it has changed. The next sweep repairs it, and
  `LatestServes` does not reach it: a filing rejected by its gate leaves the quarter disputed.
- `NoDeadlock` with `{"detail", "parse", "sweep"}` in two sessions: `Detail` flushes the
  filing's row and then asks for the period lock, the sweep does it the other way round.
  `thirteenf_admin_dashboard.py:4108` and `:528` argue that it cannot happen.
- `ResolvedTieClears`: when an applied amendment owns the slot, its own warning is not
  cleared (`thirteenf_filing_detail.py:615` says everywhere).
- `RejectHandsOver`, with two originals accepted at one time and an applied restatement:
  rejecting it leaves it serving, since the originals cannot be ordered and the active
  filing is kept (`thirteenf_admin_dashboard.py:525` says that the slot is handed over
  at once).
- An active amendment with a terminal status whose re-fetched document has lost its
  period leaves the quarter without being demoted and collides with the index when it is
  routed back; `Routes` of the run leaves this to the notice.
- A reparse that fails after the filing's detail was ingested again restores `succeeded`
  without the policy; the quarter waits for the next sweep. `SettledServes` therefore
  asks for `Policy(db) = db`.

## 5. The parse runs of a filing: `ParseRuns.tla`

`ingest_if_needed`, `reparse_accession`, `_do_ingest_holdings`
(`app/services/thirteenf_holdings_ingest.py`) and `controlled_reparse_accession`
(`app/services/thirteenf_controlled_reparse.py`) on one accession. A job
`ingest_holdings:{quarter}`, one `reparse_accession:{acc}`, the endpoint that re-parses
a filing in its request and the CLI hold no lock in common.

**State.** `runs` the committed rows of `parse_runs` in the order of their ids, `parse`
the filing's `parse_status`, `declared` its reported total, `ses[s]` a session: where it
is, the status it remembers, the run it demoted, and, of a controlled re-parse, the run
that served before and the one it has committed. A run's holdings are a number of rows
of equal value. The run a session is working on is in no state: it is inserted in the
transaction that decides it, and so no `running` run is ever committed, and the
watchdog for parse runs (`thirteenf_job_worker.py:243`), which nothing calls, would have
nothing to find.

**Actions.** `Skip`, `IngestFirst`, `IngestStale`, `Reparse`, `Control` start;
`FindCurrent` looks for the serving run and `Demote` takes its row lock, both before the
parse; `Activate`, `Quarantine`, `FirstFails`, `ReparseFails` are the outcomes of a
parse and its one commit, and `FirstLoses`, `ReparseLoses` those of a commit at which
`uq_parse_runs_current_accession` finds another run serving, with each restore the code
attempts. `GatePasses` and `GateFails` are the second transaction of a controlled
re-parse, `Crash` a roll-back, `Refetch` the cover page read again.

**Bounds** (`parse_overlap`): two sessions, three runs, no or one declared row, up to two
parsed rows. Two sessions of which one may have committed a second run are what it takes
to make every noted run stale; with four runs (7.2 M states) the same holds. All
sessions may be idle with all runs used up, but `Refetch` is always possible.
The declared total does not change, as the cover page of an accession does not.

**Properties.** `NeverDark`: once a run serves, some run serves in every committed
state. `NeverBack`: no older run takes over. `NeverWorse`: what takes over has passed
the regression check against the run it takes over from, although the check is made
against the run that was noted. All three except the end of a gate, which is there to go
back. What saves the last two is that the unique index refuses a session whose noted
run is not the serving one at its commit.

**Where comments and code disagree.** `ServedNotFailed` is stated in the module and has
no run of its own: when a re-parse fails, the filing "is not "failed" from the product's
point of view" while good holdings serve (`thirteenf_holdings_ingest.py:468-469`), but of
two first parses the one that fails, or loses at the index, writes `failed` over the
other's `succeeded`. TLC finds it in five states. A restatement that failed does not
compete for its quarter. Other histories TLC shows, which no text forbids: `before` is
noted before the re-parse looks for the serving run itself, so that a refusal does not
reinstate the run the candidate replaced; a run that a gate has refused serves again
when a second gate noted it; when a third run serves by the time of a refusal the index
fires and the refusal is lost; and a re-parse that loses at the index leaves no failed
run behind, although the endpoint's description promises one
(`app/api/v1/endpoints/thirteenf_admin.py:907-917`).

## 6. The notification outbox: `Outbox.tla`

`deliver_pending_attempts`, the destinations and the rotation of their secrets
(`app/services/research_notifications.py`, `app/models/notifications.py`).

**State.** `att` the attempts (status, count, when due, until when leased), `dst` the
destinations (status, which secret, under which key, whether a code was sent), `sub` the
destinations with an enabled subscription, `wk` the workers in their batches, `tx` the
requests that have read a destination and will write it, `rot` the rotation job, `key`
the current key. `given` and `accepted` are history: how many secrets a destination was
given, and how often a provider accepted an attempt.

**Actions.** A batch is `StartBatch`, `Expire` (leases that ran out are given up), then
for each attempt `Pick` (`FOR UPDATE SKIP LOCKED`), one of `Block`, `Defer`,
`BlockUnreadable` or `TakeLease` (which commits), `Send`, `Record`; `EndBatch` when
nothing is due. `Begin` and `Commit` are the three requests on a destination,
`Subscribe` the edit of a subscription, `RotateRead`, `RotateWrite`, `RotateCrash` and
`Watchdog` the rotation and its job row, `NewKey` a restart with another keyring.

**Time** is relative, in ticks of the lease's two minutes. A worker goes by the time its
batch began, `lag` ticks ago, and the lease it takes ends `Lease - lag` from now: in a
slow batch a lease is over when it is committed.

**Constants.** `LostAnswers`: an answer that the adapter calls transient (a read
timeout) may hide an acceptance. `SlowCalls`: time passes during a call. `MaxLag` bounds
a batch, `MaxEvents` the requests, key changes and crashes, each of which is an `Event`.
The run starts from four sizes: one attempt with one event and two clients, two attempts
undisturbed, two events on the destinations with nothing to deliver, and one attempt whose
destination has a secret under a key that is no longer kept. One tick of lease, backoffs of one and two ticks, two of deferral, two attempts at most and
batches of up to two ticks are the smallest numbers at which leases expire before they
are taken, while an attempt is sent, and after a crash, and at which a retry is due
while another batch still runs.

**Abstractions.** The limit of 50 attempts in a batch and of 100 rows in a rotation,
cooldowns, the expiry of a code and the error classes are left out; attempts exist from
the start; what has been committed in `TakeLease` is never rolled back.

**Properties** (`outbox_delivery`). `OneSender`, `AcceptedOnce`, `SecretIsLatest`, and
`Settles`: every attempt is, in the end, delivered, given up or blocked.
`AcceptedOnce` rests on `LostAnswers` being FALSE; with TRUE, TLC finds a second
acceptance: that is the price of calling a read timeout transient
(`research_notifications.py:1532`).

**Fairness.** Time goes on; a scheduler starts batches for ever and its batches go on;
locks held against it are granted in turn (strong fairness of `BlockUnreadable`); quiet
hours end (strong fairness of `TakeLease` for each attempt: an attempt that can be
leased again and again is, some time, not deferred).

**Where documents and code disagree.** `FailuresRemain` is stated in the module and has no
run of its own; under the configuration of `outbox_delivery` TLC violates it: another
worker gives up an attempt while it is being sent, because its lease was born expired,
and the sender then records `succeeded` or `retry_scheduled` over the permanent failure
(`docs/plans/research_decision_loop_product_roadmap.md:638`). Behaviours no text
forbids: verifying a code does not look at the destination's status and enables one that
was revoked since; `BlockUnreadable` and an update write their columns over a concurrent
revocation; a rotation that selects a hundred unreadable destinations each time never
reaches the rest (not in the model).

## 7. Digests and price alerts: `Digests.tla`, `PriceAlerts.tla`

What one user is told about one family of events at one destination:
`produce_notification` with the attempts it queues, `upsert_subscription`, and
`materialize_scheduled_digests`.

**Time.** `created_at` and `updated_at` are the beginning of a transaction (PostgreSQL's
`now()`), ids are drawn at the insert, and others see a row at the commit. An instant is
the number of transactions begun so far; `midnights` holds the instant of every midnight
that has passed, and `morning` whether it has been eight o'clock since, from when on the
last day is digested.

**State.** `note` the notification of each key and how often it has been told, `prod`
the producers' transactions, `sub` and `edit` the subscription as committed and as it is
being edited, `latest` and `made` the digests, `rep` the schedulers between the reads of
a digest and its insert.

**Actions.** `Begin`, `Write`, `Store`, `RollBack` produce; `BeginEdit`, `CommitEdit`
edit; `Collect` reads the subscription, its latest digest and the sources after it,
`Digest` takes the lock of the period, looks and inserts; `MidnightStrikes` and
`EightOClock` are the clock.

**Assumptions.** A scheduler's batch begins less than eight hours before it collects
(`asof` is `Now` or `Before` the last of the events midnight and eight o'clock); no
scheduler or edit spans one of them, and no producer that began before midnight lasts
until eight. `Straddling`: a producer's transaction may span midnight. `SlowEdits`:
notifications may be produced while an edit is written. The reads of `Collect` are one
step, because what an edit between them would change about the sources was stored hours
ago. An edit of a sibling destination that copies its threshold is an edit here; a
subscription switched off is the frequency `off`.

**Properties** (`alerts_told`, two keys, producers and schedulers, weeks of two days,
three midnights, three transactions): `ToldOnce`, `WithinReach` (what is untold is
beyond the cursor of the next digest), and `CaughtUp`: when the period of a notification
is over it is told in the end, unless the user edits the subscription. Three midnights
are a week, and a day after it; two transactions of producers and an edit, in any order,
are what the races of a cursor with a window need. The days are bounded, so the run does
not check for deadlocks.

**Fairness.** Morning comes, transactions end, edits are committed, schedulers run again
and again by the present time. New midnights are not owed.

**Where documents and code disagree.** With `Straddling`, `WithinReach` fails: a transaction
from before midnight inserts after one from after midnight; the digest of the old day
records the higher id and the event of the new day is never selected
(`docs/prd/value-pilot-prd-v0.1.md:771`). With `SlowEdits`, `ToldOnce` fails: a
notification produced while the edit from immediate to a digest is being written is
queued at once, and lies after the edit's `updated_at`, so the digest holds it again.
Any edit drops what no digest has covered yet; `CaughtUp` exempts it. The cooldown is
judged when an attempt is queued, not when it is sent, so two events close together pass
it both; that cooldown is not modelled.

### Price alerts: `PriceAlerts.tla`

`materialize_intrinsic_value_crossings` for one user and one stock, with what it reads: the
prices (`refresh_stock_prices`, `read_current_eod_price`), the case and the value its
revisions publish (`save_revision`), and the threshold (`upsert_subscription`). What it
produces is a notification of `Digests`, which the module extends; a scheduler evaluates
crossings before it makes digests, in the same batch.

**State.** `rows` the prices (their ids are their places), `fetch` the refreshes under way,
`desk` the case, the value in force and the margin of the threshold, `crossing` the one
`notification_price_alert_states` row, `ev` what each scheduler remembers of its batch,
`alert` what each alert says. `now` counts ticks of the market, a cooldown and a throttle in
them; a session counts from its close to the next one.

**Actions.** `StartRefresh` looks at the rows and asks the provider, `EndRefresh` adds
what it says; nothing keeps two requests from adding two rows of one session. The coverage
queue stamps its rows with the end of the day (`coverage.py:205`), so that they are not
known before, and before the close it asks for the session to come (`DayEnd`). `BeginRun`
takes the batch's time, the policy and the case; under the advisory lock the price of that
time, the value of the present and the state are read and one of `NothingToSee`,
`Initialize`, `Observe` and `Cross` happens; `Cross` is the commit inside
`produce_notification`, which gives up the lock, and `RecordNotified` the write of
`last_notified_at` after it. `SaveRevision`, `SaveWithoutValue`, `SetMargin` are the user;
`CrashRun` ends a batch at any point.

**Properties.** `OnlyMarketCrosses`: whatever the user edits while a batch waits, an alert
rests on a row from the other side of the very boundary it names
(`docs/plans/research_decision_loop_product_roadmap.md:593`). `NoSilentCrossing`: with value, decision and
threshold unchanged, the side changes only together with an alert that says so, unless the
last one is too recent. `FollowsMarket`: an older batch may overwrite what a newer one found,
but in the end the projection is about the current row, value, decision and threshold.

**The run** `alerts_told` has four kinds of initial states: no alerts (the digests above);
two sessions still to come, so that two requests, two schedulers and two alerts with a
cooldown between them fit; one change or crash against a session in progress and one to
come; and the same with alerts that a daily digest tells, two rows waiting to be looked at.
Two closes, two values and two margins put a close on the other side of a boundary by an
edit alone, and inside the hysteresis. The value's margin and the hysteresis are absolute.
Edits, crashes, rows and ticks are bounded.

**Without a hysteresis** (0 is allowed: `app/schemas/notifications.py:40`,
`app/services/research_notifications.py:563`, `:1246`) a close that equals the boundary is
on both sides of it, and every further row at that price crosses again. `OnlyMarketCrosses` is proved for every hysteresis above 0 and the run has
one; what is proved for every hysteresis is `OtherSide`: some row is on the other side of an
alert, or at its boundary.

**Fairness.** Batches are begun and evaluated for ever; sessions, prices and edits are
not owed.

**Where documents and code disagree, or say nothing.** The state compares the ids of
prices, not their sessions, so a second row of one session is evaluated and may cross
(`docs/plans/research_decision_loop_product_roadmap.md:587` says that a duplicate in the session
cannot). After a crash, or another scheduler's evaluation, between `Cross` and
`RecordNotified`, the next crossing does not wait for the cooldown, which is to prevent
oscillation (line 586): `CooldownKept` is stated in the module, has no run of its own, and
TLC violates it under the configuration of `alerts_told`. A crossing during a
cooldown is recorded and never told. A row that the coverage queue fetches before the close
passes for the close of the session, and keeps the real one from being fetched. Advisory locks of cases that are skipped are kept until
the next commit, in an order nobody fixes, so that two schedulers may deadlock; the model has
one stock.

## 8. The Rate Guard gateway: `RateGuard.tla`

`Gateway._request_with_retry` and `TokenBucket` (`src/rate-guard/app`), for one upstream
and the gateway's threads. The cache, the identity of requests and the other upstreams
share nothing with it.

**State.** `tokens` and `updated` are the bucket (in ticks, so that a token is
`Interval` of them and all is whole), `pause` the instant until which the upstream is
left alone, `caller[r]` a thread: trying, waiting for the pause, for its turn, or for
the answer. `turns` records the times the bucket gave; `barred` when the pause a thread
caused ends.

**Actions.** `Fetch`, `RespectPause`, `Acquire`, `Send`, then `Settled`, `Throttled` or
`Failed`. Each holds a mutex of the code at most once, and what happens between them
interleaves. A thread that sleeps goes on up to `MaxLate` ticks late. `Tick` stops when
no deadline lies ahead, so that the clock stays finite: nothing that follows depends on
how much later it is. The run does not check for deadlocks, as all fetches end.

**Properties** (`guard_pacing`: three threads, three fetches, a retry each, a burst of
one, turns of two ticks): `Paced` (no thread sends in the time of the turns before its
own), `NothingWasted` (no thread waits for capacity nobody uses), `OwnPauseWaited`. The
comments at `gateway.py:129-131` and `config.py:21-22` say more: every retry waits out
the pause of *any* request. `RetriesPause` states it, and TLC violates it: a retry that
has looked for a pause and now waits for its turn sends during a pause that another
thread causes meanwhile.

## 9. The facts of a stock: `StockLock`, `ParsedFacts`, `SecLineage`, `PointInTime`, `StockFacts`

Value Line documents and SEC filings both end in `metric_facts`. Every write of a fact
takes one advisory lock per stock in a row trigger
(`backend/alembic/versions/20260901280000-metric-fact-stock-lock.py`), some code takes it
before it reads, and a transaction keeps it until it ends: `StockLock` is that lock, and
`StockFacts` the two sides on one of it.

### Documents: `ParsedFacts.tla`

One slot, which is a metric and a period of a stock, with the fact calculated from it
(`ingestion_service.py` and `document_dedupe_service.py` in `app/services`).

**State.** `docs` the committed document rows (parse status, how often its report
identity was set, report date, archived or not), `facts` the parsed facts in the order of
their ids, `calc` the facts from which the current calculated fact was computed, `tx[s]` a
request: what it is about, which document rows and which fact row it holds, the facts as it
read them.

**Actions.** `Upload` commits the document before its pages are read; `Reparse` asks whether
it is archived, once; `Parse` writes the document's row with what it has read; `TakeToWrite`
is the first insert, whose trigger takes the lock; `Publish` or `Refuse` the reconciliation of
the slot (`Targets`, `Reconciled`), the calculation (`Calculated`) and the commit. `Retire`
(delete, withdraw) and `Deduplicate` with `RetireDuplicates` lock document rows and the first
fact they demote, then wait for the lock in that UPDATE's trigger (`TakeToRetire`), and
recalculate (`FinishRetire`) or fail as a whole (`RetireFails`). Rows before the lock in one,
the lock before rows in the other: `AbortDeadlocked` is PostgreSQL breaking the tie, `Crash` a
process that dies.

**Properties.** `CurrentIsLatest`: no fact of an older report is current, and no two current
facts agree. `DisagreementShown`: while no document of the latest date is retired, every
value a parse of one of them has read is current. `CalculatedRests`: at most one calculated
fact, resting on a value that is current, and an undisputed value is calculated with.

**Where documents and code disagree.** `RetiredNotCurrent` is stated in the module and
violated: whether a document is archived is asked before any lock, so one that is retired
while it is parsed gets current facts afterwards
(`docs/tasks/2026-09-09_evidence-retirement.md:26`: "Current document lists, active Value
Line reports, and derived projections do not treat archived documents as current."). Other
histories that TLC shows and no text forbids: a document cannot be withdrawn while other
facts disagree, as the recalculation raises; after the last document of the latest date has
been retired, no earlier one can be parsed again, since the reconciliation refuses to make
current what has ceased to be (`ingestion_service.py:1657`), and the slot stays without a
current fact; and duplicates are looked for before anything is locked, so that a group may
no longer be one.

### SEC filings: `SecLineage.tla`, `PointInTime.tla`

The filings of one report cycle (`app/services/sec_financial_ingestion.py`,
`app/services/sec_metric_publication.py`, `app/cli/sec_financials.py`). `ingest_latest_financial_filings` commits an
operation with the parse runs it made or reused; a second transaction makes it available,
with a time it stamps before it commits; publications select the sources that were available
at a cutoff. A process may stop in between, and the next one makes what it finds pending
available in its own first transaction, which lasts as long as its fetches.

**State.** `clock`, the committed `runs`, `op[o]` (done, the runs it rests on, when it became
available; 0 is pending), `pubs`, and `cli[c]` a process with what it remembers. Instants at
which something is stamped differ from each other (`Ticks`).

**Properties.** `WholeLineage`: what is available rests on runs that became available no
later. `PastIsKept` is a refinement: `PointInTime` is a record of evidence that can be asked
what was known at a time; what becomes known is later than every time an answer was given
about, and an answer depends on what was known then only. `SecLineage` implements it, with
the available runs as evidence, the publications as answers and `Sources` as the choice. The
consequence, `Reproducible`, is that a publication about a time is what would be published
about that time now. It rests on the lock being asked for by the publication, although it
has selected its sources without it.

**Where comments and code disagree.** An amendment that was parsed, and is then ingested
again with one document that cannot be fetched, gets a failed run that was known later; every
ingest after that finds the same content and reuses the earlier successful run, so the failed
one stays the authority for good, while `_resolve_latest_known_v1_authority` says that "A
later successful parse of that same filing is selected above and replaces its earlier failed
parse authority". `known_at` is the time at which the process started, before it had
the lock; two processes can commit in the other order. And `replay` reads what is pending and
what is available in separate statements without the lock.

**Left out**: the identities of companies, history cursors, the reuse of failed operations,
parser versions and runs of the earlier format, and the fact slots a publication writes.

### The run

`stock_facts` starts from three sets of states: users alone (two requests, two documents of
one or two dates, two values, three facts), processes alone (two processes, three operations,
an original and its amendment, contents that can and cannot be parsed, five instants), and
both together, with a document that has a current fact and may be parsed once more beside an
operation that is pending. Two of each is what every race described above needs. Facts and
instants are bounded, and so the run does not check for deadlocks of the model; the
database's are in it. The theorems are about `StockSpec`, which starts from an empty
database.

## 10. The runs

| run | configuration | shows | distinct states |
|---|---|---|---|
| `queue_races` | 2 rows, 2 workers, 1 client, 2 lock keys, cancels and releases, no timing assumption | unique lock keys, stages are not claimed, nothing runs again | 1.5 M |
| `queue_exclusive` | 2 rows, 2 workers, 1 client, timing assumptions, fairness | exclusion; jobs drain | 125 K |
| `sync_nights` | 2 dates, 1 accession, 1 parent, 1 scheduler, 2 retries and up to 2 requests, fairness | dates settle; what an index named, and what is owed, is tried; what is only named is tried once | 161 K |
| `retry_ends` | 1 accession, 1 enrichment, 1 parent, 2 runs and 2 retries | a retry that names itself is retried past the limit (violation) | 17 K |
| `filing_serial` | one session, all operations, five kinds of quarter | the policy and its recovery; the index stays quiet | 2.5 M |
| `filing_parses` | two sessions, two restatements, parses, the bulk loop and sweeps, fairness | the latest wins and every session ends | 205 K |
| `filing_decision` | two sessions, a report, a restatement and an admin | a remembered row overturns a decision (violation) | 1.3 K |
| `parse_overlap` | 2 sessions, 3 runs | shown stays shown, no older and no worse run takes over | 686 K |
| `outbox_delivery` | 2 workers, clients, attempts and destinations, 2 events, in four slices; fairness | leases, acceptances, secrets; every attempt settles | 75 K |
| `alerts_told` | 2 keys, producers, schedulers, 3 midnights; 3 rows, 2 requests, 1 change; in four slices; fairness | told once, and told; only the market crosses, no crossing is silent, the projection catches up | 247 K |
| `guard_pacing` | 3 threads, 3 fetches, 1 retry | pace, capacity, pauses | 2.0 M |
| `stock_facts` | 2 sessions on 2 documents, 2 processes on 2 filings, and both together | current facts, calculations, lineage, the past | 777 K |

Symmetry is used for workers, sessions, lock keys, clients, threads, keys, producers and replicas
where only safety is checked; never with a liveness property. Each run finishes in
minutes with two workers of TLC: `tlc -workers 2 -config X.cfg MC<module>.tla`.

## 11. The proofs

| module | theorem | statement |
|---|---|---|
| `JobQueueProofs` | `TypeCorrect`, `LockKeysUnique`, `StagesPassedOver`, `LeavesForGood` | `Spec => []TypeOK`, `[]LockUnique`, `[]StageNotClaimed`, `NeverRunsAgain` |
| | `ExclusiveExecution` | `Env => (Spec => []Exclusive)` |
| `DailySyncProofs` | `RetryTypes`, `RetriesAreBounded` | `Spec => []TypeOK`, `[]NamedEnds` (`SmartRetry`) |
| | `DailyTypes`, `NightsEnd` | `DailySpec => []SyncTypeOK`, `[]NamedEnds` |
| `FilingAuthorityProofs` | `FilingTypes` | `Spec => []TypeOK` |
| | `TheRightfulServes`, `TheDisputesFade`, `TheSweepSettles`, `TheDecisionStands` | with one session after another: `Spec => []SettledServes`, `[]DisputesFade`, `SweepSettles`, `DecisionStands` |
| | `TheIndexIsQuiet` | the same, and no amendment loses its quarter: `Spec => []IndexNeverFires` |
| | `TheIndexNeverFires`, `TheLatestServes` | any number of sessions that parse, re-parse, gate and sweep, one filing a transaction: `RoutedSpec => []IndexNeverFires`, `[]LatestServes` |
| `ParseRunsProofs` | `TypeCorrect`, `StaysShown`, `NeverHandedBack`, `NeverReplacedByWorse` | `[]TypeOK`, `NeverDark`, `NeverBack`, `NeverWorse` |
| `OutboxProofs` | `TypeCorrect`, `ExclusiveLease`, `NothingBroughtBack`, `DeliveredOnce` | `[]TypeOK`, `[]OneSender`, `[]SecretIsLatest`, and `[]AcceptedOnce` if `~LostAnswers` |
| `PriceAlertsProofs` | `AlertTypes`, `NobodyToldTwice`, `NothingOutOfReach` | `AllSpec => []TypeOK`, and `[]ToldOnce`, `[]WithinReach` if `~Straddling` and `~SlowEdits` |
| | `OnlyTheMarket`, `NothingCrossesSilently` | `[]OtherSide`, `[]OnlyMarketCrosses` if `Hysteresis > 0`, and `NoSilentCrossing` |
| `RateGuardProofs` | `TypeCorrect`, `KeepsPace`, `WastesNothing`, `WaitsOutItsPause` | `[]TypeOK`, `Paced`, `[]NothingWasted`, `OwnPauseWaited` |
| `StockFactsProofs` | `FactsInvariant` | `FactsSpec => []FactsInv` |
| | `LineageInvariant`, `LineageIsPointInTime`, `AskedAgain` | `[]LineageInv`, the refinement `PastIsKept`, and `[]Past!Reproducible` |
| | `StockTypes`, `StockLatestIsCurrent`, `StockDisputesAreShown`, `StockCalculationsRest`, `StockLineageIsWhole`, `StockIsPointInTime` | the properties of `stock_facts` for documents and SEC filings on one lock |

They hold for every value of the constants that the named assumptions of the modules
admit: any number of rows, workers, sessions, runs, attempts, threads, documents, facts, processes,
filings and events, any lease, timeout, burst and pause.

*Lock keys.* `LockUnique` is inductive with `TypeOK`: a row becomes active by an insert
that the unique index lets through or by `cancel_requested` over a row that has left the
active statuses, which the same index guards.

*Leaving for good.* No write of a late transaction moves a row back: what is written is
a final status, `cancel_requested`, or columns other than the status.

*Exclusion* needs to say why a lease cannot run out under a live worker, and that is not
visible in who runs what. `ExclusiveInv` adds: the lease and the age of the heartbeat of
an owned row add up to `Lease`, and the age never exceeds `BeatEvery <= Lease`
(`OwnersHold`); the row of a live stage is running, unleased and younger than the
timeout (`StagesHold`); a heartbeat belongs to what its worker executes or to a row that
is finished (`BeatsHold`); and the watchdog has selected none of those
(`WatchdogSpares`). `Exclusive`
follows with `LockUnique`: two executions under one key are two active rows, or one row
with two owners.

*Stages* are passed over by claims (`StageNotClaimed`) because the row of a stage never has a
lease, and a claim takes a running row only for its lease. `StageInv` says so, of whatever a
worker is in a stage of, and that a heartbeat, which is what could write a lease late, belongs
to a row that was claimed.

*Retries.* `NamedEnds` counts attempts after the last run that named a target, and is not
inductive: what is counted depends on which failures there are, and a scheduler that has
chosen a target counts before it triggers. `Bounded(k)` is: once `k` has been retried, or been
chosen, there is some failure naming `k` after which the retries, together with
the schedulers that have chosen `k`, are at most `MaxAttempts - 1` and one for each
scheduler. `Look` provides that failure, the one it looks at, since a retry was still due
(`LeftFailed`: what is left to be looked at has failed); `Trigger` moves one
unit from the schedulers to the retries; what ends, fails or is triggered by others leaves it
alone. It bounds `Tries(k)` because the last failure has no more retries after it than any
other (`FewerSince`), provided that no retry names `k`: `TargetsNamed` says that a run other
than a parent names itself at most, and only if it was given all it takes. That is where
the proof ends for the targets which `retry_ends` is about.

*Backdated runs.* A sync puts its runs in the middle of the others, and every index moves.
`BoundCarried` is therefore stated for any order-preserving map of the old runs into the new
ones; the map is the identity for all steps but `CommitSync`, for which `Backdated` and
`BackdatedKeeps` say what moves where (`Inserted`: a sequence put into another). It assumes
that an index lists finitely many filings.

*The policy.* `FilingAuthorityProofs` begins with what `FilingPolicy` does to each row: who
competes and under which rule, that there is a latest filing of a pool that is not tied
(`LatestExists`, by the smallest of finitely many differences), what is elected and
cleared (`PolicyDoes`), and that it never changes what a parse or a route says (`PolicyKeeps`).
From these follow the facts the state machine needs: the policy keeps a quarter with one
serving filing (`ServesAfter`), what it decided once it decides again (`DecidesOnce`: pool,
rule and order of the result are those of the input), a fixed point of it that is undisputed
is served by the rightful filing (`PeaceServes`) and remembers no dispute (`PeaceForgets`).

*One session after another.* `FilingTypes` holds for any number of sessions. The
theorems about who serves have the hypothesis that there is one, which is what
`filing_serial` checks, too; they
hold for any quarter, any times, routes and decisions and every operation. With several sessions
they do not hold: `filing_decision` is a counterexample to `DecisionStands`, and the bulk
pass writes a remembered status over a newer one. `Solo` is the invariant: the committed rows
satisfy `Books` (an active amendment has been decided about, as has one that is warned of and
only adds holdings; a parsed amendment of a notice is applied; what is pending about originals
and restatements is warned of) and one filing serves; the session remembers what is
committed (`Steady`), and what it will commit satisfies the same, so that `Written` and
`Outcomes` carry it over the commit. `TheIndexIsQuiet` needs `Anchored`, that no
amendment is taken off its quarter: an applied one goes on being active while its document is without a
period (section 4), and collides when it comes back.

*Many sessions.* Where sessions only parse, re-parse, gate and sweep a quarter whose
documents have been read (`RoutedSpec`, with the operations of `filing_parses` but the bulk
loop), the table is
`Right` at all times: its rows are of a few kinds (`EvenRow`: no warning, and a restatement that
is parsed but has no run has been decided about), and who is ahead of those who compete
serves. The decision of a session goes by a row of its own filing that may be out of date in
three columns, and `Claims` says how far: who serves may have changed, a pending restatement
may have been applied, but what was decided by hand or by a gate was so when it was read
(`Follows`). `ClaimsDecide` is the core: the
columns that such a decision writes over the table as it is make the table right again, because
where the session's filing wins or loses against what the table says, it has competed in both
(`StillAhead`) and its acceptance is the same. What others commit meanwhile leaves that intact:
before the decision because one session at a time parses a filing (`OnePerFiling`) and
others change no more of it than who serves (`QuietStays`, `HeavyCommits`), after it because it
holds the lock, and a parse that ends without asking the policy takes nobody into or out
of the competition (`Harmless`, `DecidedStays`).
The loop is left out because it breaks the argument and `TheIndexNeverFires` with it: it
remembers who served when it passed over a filing, and the decision of another session in
between is exactly what `QuietStays` allows only for rows the decision does not
go by (section 4). That the rightful filing serves with the loop, too, when nothing is disputed is
checked for two restatements (`filing_parses`), not proved.

*Parse runs.* `Inv` adds two facts to the types: at most one run serves (`OneServes`), and
sessions remember runs that exist, a gate an older one than its own (`Remembered`). A
commit that does not lose has nothing serving beside the run it demoted (`Beside`), so
what it replaces is either nothing or exactly the run it was compared with; that gives
all three action properties at once. `GateFails` changes two different runs because
`before < new`, and leaves the one or the other serving.

*One sender* rests on `Leases`: a picked attempt waits and is locked by one worker, and
one that is being sent is leased, or has been given up by another worker's clock, and in
neither case waits. That an attempt given up may still be recorded as waiting is
harmless here, because its sender lets go in the same step. *One acceptance* adds that
nothing that waits or is about to be sent has been accepted, which is where
`~LostAnswers` comes in.

*Secrets.* What is under way knows no more secrets than the destination was given
(`ReadBefore`), so that whoever writes a secret writes the newest one; the rotation writes
the secret it has read of a row it has kept locked since (`RotatesLatest`). That
`FailuresRemain` is false is no obstacle: it is about attempts.

*Digests.* With `~Straddling` and `~SlowEdits` ids respect midnights (`Ordered`), although they do
not respect commits. `Reach` ties the cursor of the next digest to them: no digest covers
anything of the present day (`AheadOfDigests`), schedulers that are awake together have collected
the same (`OneWindow`), and that is what is still untold unless their digest has been made
(`Windows`). Both hypotheses are needed: TLC refutes `WithinReach` without the first and
`ToldOnce` without the second.

*Crossings.* `Sided` says that a side which is known, for the value in force, is the side of some
row; whoever crosses has therefore a row on the other side, whichever scheduler saw it.
`NoSilentCrossing` then follows from the handler alone.

*Pace.* `Debt`: the bucket will not be full before an interval has passed for each turn
from any given turn on. From it follows `Spaced`, the distance of any two turns, when a
new turn is appended. `Used` bounds the wait of whoever comes by the turns of the last
interval, counted. With `OwnTurn` (a thread sleeps until its turn) a late thread is
late but never early. *Pauses.* `Barred`: the pause a thread caused is not over before
the pause of the upstream, and who has looked for it sleeps at least as long; it needs
`Pause <= MaxPauseWait`.

*Documents.* The three properties of `ParsedFacts` are not inductive, because a session
decides on the facts it has read. `FactsInv` adds who holds the lock (`Held`), that whoever
writes has read all the facts there are (`Stages`), which the lock makes true and which is
what a lost update would break, that report identities are given once (`Numbered`), and that
the bound leaves room for the parses under way (`RoomLeft`). Publishing is then
reconciliation as a function: its targets are one fact for each value among the newest facts
of the reports of the latest date, and what it refuses to make current it does not publish.

*Lineage.* `LineageInv` says that a transaction which stamps holds the lock (`Locked`), that
nothing is known or asked of the future (`Times`), that what is stamped is later than all
that is available and all that was asked (`Stamped`), and that committed operations rest on
their own runs and on available ones (`Rests`). The refinement follows step by step: a commit
of a stamp is `Learn`, a publication is `Answer`, every other step stutters. `AskedAgain` is
then a theorem about `PointInTime` alone.

*Both.* A step of either side changes the lock only in its own name (`LockStep`), so the other
side's invariant survives it; the names of their sessions differ (`SessionsDiffer`).

Only model-checked: everything about liveness (`Drains`, `SessionsEnd`, `Settles`,
`CaughtUp`, `FollowsMarket`, `OwedIsTried`, `DatesSettle`, `NamedIsTried`), since TLAPS does not
prove liveness under fairness. Every other property of the passing runs is a theorem, under the
hypotheses above. Only proved: the types of `JobQueue`, `ParseRuns`, `Outbox`,
`RateGuard` and of the two halves of `StockFacts`, whose runs are about their other
properties.

## 12. What is not modelled

The components marked "planned" or "-" in section 1 (most of the remaining code maps layouts,
XBRL concepts and formulas to values, or reads: it changes no state that two actors share); in the modelled ones: row contents
that no decision reads, formatting, logging and audit rows; pagination and batch limits;
the parsers of EDGAR documents, whose outcome is a choice here; database outages (a
transaction that fails for any reason is one that is not begun, or, where it matters, a
roll-back or a crash); clocks that jump.

## 13. Plan

In this order:

1. Account erasure against the requests it must keep out: the notification tables are not
   among those that the erasure barrier guards, and a request in flight may create a
   destination, a subscription or a follow after the erasure.
2. `ParseRuns` composed with `FilingAuthority` in place of `ParsedByOther`, and the
   value-unit overrides a controlled re-parse applies.
3. The fact slots of SEC publications beside `SecLineage`, where the last commit decides
   whatever its cutoff was, and manual corrections on the lock of `StockFacts`.
4. The Rate Guard client (route state and direct fallback) and the gateway's cache, in which
   an older answer may be stored over a newer one.

Abstract specifications: a lock service that `JobQueue` implements under `Env` (who holds a
key), a delivery that happens at most once (`Outbox`), a register of the serving filing
(`FilingAuthority` with one session), each as `PointInTime` is for `SecLineage`.

Proofs: the new abstract specifications.
