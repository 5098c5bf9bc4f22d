------------------------------ MODULE JobQueue ------------------------------
(***************************************************************************)
(* The 13F job queue: the job_runs table, the workers that lease rows of   *)
(* it and execute their payload, the heartbeat thread that renews a lease, *)
(* the pipeline stages a payload (or the CLI) runs as child rows, the      *)
(* admin operations, and the watchdog.                                     *)
(*                                                                         *)
(* The sessions run at READ COMMITTED and, except for the claim, read a    *)
(* row without locking it, decide, and write it later: every such handler  *)
(* is two actions here, a Load (or Check) and the write that commits.      *)
(* Only the columns a handler assigns change.                              *)
(*                                                                         *)
(* Time is relative: a row stores what is left of its lease and the age of *)
(* its heartbeat and of its start, and Tick moves them all.                *)
(***************************************************************************)
EXTENDS Integers, FiniteSets

CONSTANTS
    NumJobs,     \* bound: rows of job_runs; ids 1..NumJobs, in insertion order
    Locks,       \* lock keys
    Workers,     \* incarnations of a worker process: a crashed one never returns
    Clients,     \* admin, scheduler and CLI sessions that trigger, cancel, release
    Lease,       \* length of a lease, in ticks
    Stale,       \* heartbeat age at which an admin may release a row
    Timeout,     \* age of started_at beyond which the watchdog abandons a row
    BeatEvery,   \* interval of the heartbeat thread
    MaxClaims,   \* bound: claims of one row
    AdminOps,    \* the admin operations in play: a subset of {"cancel", "release"}
    TimelyBeats, \* heartbeat threads are scheduled on time
    ShortStages, \* stages end before the watchdog's timeout
    QuickWatchdog \* no claim commits between the watchdog's select and write

ASSUME JobQueueAssumption ==
    /\ NumJobs \in Nat
    /\ Lease \in Nat /\ Stale \in Nat /\ Timeout \in Nat
    /\ BeatEvery \in Nat \ {0} /\ BeatEvery <= Lease
    /\ MaxClaims \in Nat
    /\ AdminOps \subseteq {"cancel", "release"}
    /\ {TimelyBeats, ShortStages, QuickWatchdog} \subseteq BOOLEAN
    /\ "no lock" \notin Locks /\ "no worker" \notin Workers

VARIABLES
    job,   \* the rows of job_runs
    wk,    \* what each worker is doing
    beat,  \* the heartbeat thread of each worker
    tx,    \* the transaction each client has read for and not written yet
    dog    \* the rows the watchdog has selected and not written yet

vars == <<job, wk, beat, tx, dog>>

Jobs == 1..NumJobs
NoJob == 0
NoLock == "no lock"
NoWorker == "no worker"
NoLease == -2          \* lease_expires_at IS NULL; -1 is a lease in the past

Outcomes == {"succeeded", "failed"}
Unfinished == {"queued", "running"}
ActiveStatuses == Unfinished \cup {"cancel_requested"}
Finished == Outcomes \cup {"canceled"}
Statuses == {"none"} \cup ActiveStatuses \cup Finished

HbMax == IF Stale > BeatEvery THEN Stale ELSE BeatEvery
LeaseValues == {NoLease} \cup (-1)..Lease

Row == [status : Statuses, lock : Locks \cup {NoLock},
        worker : Workers \cup {NoWorker}, token : Nat,
        lease : LeaseValues, hb : 0..HbMax, age : 0..(Timeout + 1)]

NewRow(l, s) == [status |-> s, lock |-> l, worker |-> NoWorker, token |-> 0,
                 lease |-> NoLease, hb |-> 0, age |-> 0]

NoRow == NewRow(NoLock, "none")

WorkerState == [pc : {"idle", "executing", "stage check", "stage", "completing", "dead"},
                job : Jobs \cup {NoJob}, token : Nat,
                stage : Jobs \cup {NoJob}, lock : Locks \cup {NoLock},
                outcome : Outcomes, expired : BOOLEAN]

IdleWorker == [pc |-> "idle", job |-> NoJob, token |-> 0, stage |-> NoJob,
               lock |-> NoLock, outcome |-> "failed", expired |-> FALSE]

BeatState == [on : BOOLEAN, job : Jobs \cup {NoJob}, token : Nat,
              pending : BOOLEAN]

NoBeat == [on |-> FALSE, job |-> NoJob, token |-> 0, pending |-> FALSE]

TxState == [op : {"none", "insert", "cancel", "release"},
            job : Jobs \cup {NoJob}, lock : Locks \cup {NoLock}, seen : Statuses]

NoTx == [op |-> "none", job |-> NoJob, lock |-> NoLock, seen |-> "none"]

TypeOK ==
    /\ job \in [Jobs -> Row]
    /\ wk \in [Workers -> WorkerState]
    /\ beat \in [Workers -> BeatState]
    /\ tx \in [Clients -> TxState]
    /\ dog \in SUBSET Jobs

Init ==
    /\ job = [j \in Jobs |-> NoRow]
    /\ wk = [w \in Workers |-> IdleWorker]
    /\ beat = [w \in Workers |-> NoBeat]
    /\ tx = [c \in Clients |-> NoTx]
    /\ dog = {}

-----------------------------------------------------------------------------
(* What the handlers look up.                                              *)

Active(j) == job[j].status \in ActiveStatuses

ActiveOn(l) == {j \in Jobs : Active(j) /\ job[j].lock = l}

\* The rows not inserted yet; the next insert takes the smallest.
Free == {j \in Jobs : job[j].status = "none"}
IsNext(j) == j \in Free /\ \A i \in Free : j <= i

\* Mutant: no unique index behind trigger_job's own look-up.
IndexAllowsAll(j) == TRUE

\* The partial unique index lets row j become (or stay) active.
IndexAllows(j) == ActiveOn(job[j].lock) \subseteq {j}

Live(w) == wk[w].pc \notin {"idle", "dead"}

OwnerMatches(j, w, t) ==
    /\ job[j].status = "running"
    /\ job[j].worker = w
    /\ job[j].token = t

\* Row j exists and is no longer waiting or running.
Left(j) == job[j].status \notin Unfinished \cup {"none"}

Owns(w) == wk[w].job # NoJob /\ OwnerMatches(wk[w].job, w, wk[w].token)

\* Mutants: a lease counts as expired in the instant it ends; a row without a
\* lease counts as expired.
ClaimableAtExpiry(j) ==
    \/ job[j].status = "queued"
    \/ job[j].status = "running" /\ job[j].lease \in (-1)..0

ClaimableUnleased(j) ==
    \/ job[j].status = "queued"
    \/ job[j].status = "running" /\ job[j].lease < 0

Claimable(j) ==
    \/ job[j].status = "queued"
    \/ /\ job[j].status = "running"
       /\ job[j].lease # NoLease
       /\ job[j].lease < 0

\* Rows some session has read and may be holding locked while its UPDATE
\* commits: the claim skips them.
InFlight == {tx[c].job : c \in Clients}
            \cup {beat[w].job : w \in {v \in Workers : beat[v].pending}}
            \cup {wk[w].job : w \in {v \in Workers : wk[v].pc = "completing"}}
            \cup dog

-----------------------------------------------------------------------------
(* trigger_job: look for an active row with the lock key, then insert.     *)

CheckTrigger(c, l) ==
    /\ tx[c].op = "none"
    /\ Free # {}
    /\ ActiveOn(l) = {}
    /\ tx' = [tx EXCEPT ![c] = [NoTx EXCEPT !.op = "insert", !.lock = l]]
    /\ UNCHANGED <<job, wk, beat, dog>>

\* An IntegrityError of the unique index becomes the conflict answer; so does,
\* in a bounded instance, a full table.
InsertQueued(c) ==
    /\ tx[c].op = "insert"
    /\ \/ /\ ActiveOn(tx[c].lock) = {}
          /\ \E j \in Jobs :
                /\ IsNext(j)
                /\ job' = [job EXCEPT ![j] = NewRow(tx[c].lock, "queued")]
       \/ /\ ActiveOn(tx[c].lock) # {} \/ Free = {}
          /\ job' = job
    /\ tx' = [tx EXCEPT ![c] = NoTx]
    /\ UNCHANGED <<wk, beat, dog>>

(* cancel_job: the status read decides what is written over the row. A row  *)
(* already cancel_requested is not dirty, so nothing is written.            *)

LoadCancel(c, j) ==
    /\ "cancel" \in AdminOps
    /\ tx[c].op = "none"
    /\ job[j].status \in Unfinished
    /\ tx' = [tx EXCEPT ![c] = [NoTx EXCEPT !.op = "cancel", !.job = j,
                                            !.seen = job[j].status]]
    /\ UNCHANGED <<job, wk, beat, dog>>

WriteCancel(c) ==
    LET j == tx[c].job IN
    /\ tx[c].op = "cancel"
    /\ \/ /\ tx[c].seen = "queued"
          /\ job' = [job EXCEPT ![j].status = "canceled"]
       \/ /\ tx[c].seen = "running"
          /\ IndexAllows(j)
          /\ job' = [job EXCEPT ![j].status = "cancel_requested"]
       \/ /\ tx[c].seen = "running"
          /\ ~IndexAllows(j)
          /\ job' = job
    /\ tx' = [tx EXCEPT ![c] = NoTx]
    /\ UNCHANGED <<wk, beat, dog>>

(* release_stale_job_lock, allowed once the heartbeat is stale.             *)

LoadRelease(c, j) ==
    /\ "release" \in AdminOps
    /\ tx[c].op = "none"
    /\ job[j].status \in {"running", "cancel_requested"}
    /\ job[j].hb >= Stale
    /\ tx' = [tx EXCEPT ![c] = [NoTx EXCEPT !.op = "release", !.job = j,
                                            !.seen = job[j].status]]
    /\ UNCHANGED <<job, wk, beat, dog>>

WriteRelease(c) ==
    /\ tx[c].op = "release"
    /\ job' = [job EXCEPT ![tx[c].job].status = "failed"]
    /\ tx' = [tx EXCEPT ![c] = NoTx]
    /\ UNCHANGED <<wk, beat, dog>>

-----------------------------------------------------------------------------
(* claim_next_job: the oldest claimable row that is not locked, under       *)
(* SELECT ... FOR UPDATE SKIP LOCKED, so read and write are one step. The   *)
(* worker then starts the lease heartbeat thread. A thread left over from   *)
(* the previous job has ended by then: join waits a second and the next     *)
(* poll comes after two.                                                    *)

Claim(w, j) ==
    /\ wk[w].pc = "idle"
    /\ ~beat[w].pending
    /\ Claimable(j)
    /\ \A i \in Jobs : i < j /\ Claimable(i) => i \in InFlight
    /\ QuickWatchdog => dog = {}
    /\ job[j].token < MaxClaims
    /\ job' = [job EXCEPT ![j] = [@ EXCEPT !.status = "running", !.worker = w,
                                           !.token = job[j].token + 1,
                                           !.lease = Lease, !.hb = 0]]
    /\ wk' = [wk EXCEPT ![w] = [IdleWorker EXCEPT !.pc = "executing", !.job = j,
                                                  !.token = job[j].token + 1]]
    /\ beat' = [beat EXCEPT ![w] = [NoBeat EXCEPT !.on = TRUE, !.job = j,
                                                  !.token = job[j].token + 1]]
    /\ UNCHANGED <<tx, dog>>

(* heartbeat_job_lease, called by the thread with the identity captured     *)
(* when it started. Renewing a full lease writes what is there already.     *)

LoadBeat(w) ==
    /\ beat[w].on
    /\ ~beat[w].pending
    /\ OwnerMatches(beat[w].job, w, beat[w].token)
    /\ job[beat[w].job].lease < Lease
    /\ beat' = [beat EXCEPT ![w].pending = TRUE]
    /\ UNCHANGED <<job, wk, tx, dog>>

\* Mutant: a renewal writes the status its check has seen.
RevivingBeat(w) ==
    /\ beat[w].pending
    /\ job' = [job EXCEPT ![beat[w].job] = [@ EXCEPT !.lease = Lease, !.hb = 0,
                                                     !.status = "running"]]
    /\ beat' = [beat EXCEPT ![w].pending = FALSE]
    /\ UNCHANGED <<wk, tx, dog>>

WriteBeat(w) ==
    /\ beat[w].pending
    /\ job' = [job EXCEPT ![beat[w].job] = [@ EXCEPT !.lease = Lease, !.hb = 0]]
    /\ beat' = [beat EXCEPT ![w].pending = FALSE]
    /\ UNCHANGED <<wk, tx, dog>>

StopBeat(w) == beat' = [beat EXCEPT ![w].on = FALSE]

-----------------------------------------------------------------------------
(* _execute_pipeline_stage_job: a payload, or the CLI through               *)
(* run_locked_job, runs a stage as a row of its own that is born running,   *)
(* without lease or worker. A worker here with no job is such a CLI         *)
(* process. When the stage is over its status is written unconditionally.   *)

CheckStage(w, l) ==
    /\ wk[w].pc \in {"idle", "executing"}
    /\ Free # {}
    /\ ActiveOn(l) = {}
    /\ wk' = [wk EXCEPT ![w] = [@ EXCEPT !.pc = "stage check", !.lock = l]]
    /\ UNCHANGED <<job, beat, tx, dog>>

AfterStage(w) == IF wk[w].job = NoJob THEN "idle" ELSE "executing"

InsertStage(w) ==
    /\ wk[w].pc = "stage check"
    /\ \/ /\ ActiveOn(wk[w].lock) = {}
          /\ \E j \in Jobs :
                /\ IsNext(j)
                /\ job' = [job EXCEPT ![j] = NewRow(wk[w].lock, "running")]
                /\ wk' = [wk EXCEPT ![w] = [@ EXCEPT !.pc = "stage", !.stage = j,
                                                     !.expired = TRUE]]
       \/ /\ ActiveOn(wk[w].lock) # {} \/ Free = {}
          /\ wk' = [wk EXCEPT ![w] = [@ EXCEPT !.pc = AfterStage(w), !.lock = NoLock,
                                               !.expired = TRUE]]
          /\ job' = job
    /\ UNCHANGED <<beat, tx, dog>>

FinishStage(w, o) ==
    /\ wk[w].pc = "stage"
    /\ job' = [job EXCEPT ![wk[w].stage] = [@ EXCEPT !.status = o, !.hb = 0]]
    /\ wk' = [wk EXCEPT ![w] = [@ EXCEPT !.pc = AfterStage(w), !.stage = NoJob,
                                         !.lock = NoLock]]
    /\ UNCHANGED <<beat, tx, dog>>

-----------------------------------------------------------------------------
(* execute_queued_job_once after the payload: complete_leased_job reads the *)
(* row through the worker's session. A payload that committed, ran a stage, *)
(* or raised and was rolled back has expired the row there and the check    *)
(* sees the table; after a payload that wrote nothing (dataroma_sync) it    *)
(* sees the row as it was at the claim, which matches. A check that fails   *)
(* ends the attempt.                                                        *)

EndPayload(w, o, commits) ==
    LET fresh == commits \/ wk[w].expired \/ o = "failed" IN
    /\ wk[w].pc = "executing"
    /\ \/ /\ fresh => Owns(w)
          /\ wk' = [wk EXCEPT ![w] = [@ EXCEPT !.pc = "completing", !.outcome = o]]
          /\ beat' = beat
       \/ /\ fresh /\ ~Owns(w)
          /\ wk' = [wk EXCEPT ![w] = IdleWorker]
          /\ StopBeat(w)
    /\ UNCHANGED <<job, tx, dog>>

WriteComplete(w) ==
    LET j == wk[w].job IN
    /\ wk[w].pc = "completing"
    /\ job' = [job EXCEPT ![j] = [@ EXCEPT !.status = wk[w].outcome, !.hb = 0,
                                           !.lease = NoLease]]
    /\ wk' = [wk EXCEPT ![w] = IdleWorker]
    /\ StopBeat(w)
    /\ UNCHANGED <<tx, dog>>

\* A worker process dies, its threads with it. Some worker remains.
Crash(w) ==
    /\ Live(w)
    /\ \E v \in Workers \ {w} : wk[v].pc # "dead"
    /\ wk' = [wk EXCEPT ![w] = [IdleWorker EXCEPT !.pc = "dead"]]
    /\ beat' = [beat EXCEPT ![w] = NoBeat]
    /\ UNCHANGED <<job, tx, dog>>

-----------------------------------------------------------------------------
(* mark_stale_running_jobs_abandoned: select, then write failed over every  *)
(* selected row in one commit.                                              *)

\* Mutant: lease_expires_at < now without the IS NULL branch.
TimedOutExpired == {j \in Jobs : /\ job[j].status = "running"
                                 /\ job[j].age > Timeout
                                 /\ job[j].lease = -1}

TimedOut == {j \in Jobs : /\ job[j].status = "running"
                          /\ job[j].age > Timeout
                          /\ job[j].lease \notin 0..Lease}

LoadWatchdog ==
    /\ dog = {}
    /\ TimedOut # {}
    /\ dog' = TimedOut
    /\ UNCHANGED <<job, wk, beat, tx>>

WriteWatchdog ==
    /\ dog # {}
    /\ job' = [j \in Jobs |->
                 IF j \in dog THEN [job[j] EXCEPT !.status = "failed"] ELSE job[j]]
    /\ dog' = {}
    /\ UNCHANGED <<wk, beat, tx>>

-----------------------------------------------------------------------------
(* Time. A tick is long (the heartbeat interval is 100 seconds) against a   *)
(* transaction, so none spans one; everything may still interleave between  *)
(* two ticks. Under TimelyBeats no live owner's heartbeat gets older than   *)
(* BeatEvery; under ShortStages no live stage outlasts the timeout.         *)

NothingPending ==
    /\ \A c \in Clients : tx[c].op = "none"
    /\ \A w \in Workers : ~beat[w].pending
    /\ \A w \in Workers : wk[w].pc \notin {"stage check", "completing"}
    /\ dog = {}

Timely ==
    /\ TimelyBeats =>
          \A w \in Workers : Live(w) /\ Owns(w) => job[wk[w].job].hb < BeatEvery
    /\ ShortStages =>
          \A w \in Workers : wk[w].pc = "stage" => job[wk[w].stage].age < Timeout

\* Only the ages some guard still reads move on.
Aged(r) ==
    [r EXCEPT !.lease = IF r.status = "running" /\ r.lease >= 0 THEN @ - 1 ELSE @,
              !.hb = IF r.status \notin {"none", "queued"} /\ @ < HbMax THEN @ + 1 ELSE @,
              !.age = IF r.status = "running" /\ @ <= Timeout THEN @ + 1 ELSE @]

Tick ==
    /\ NothingPending
    /\ Timely
    /\ job' = [j \in Jobs |-> Aged(job[j])]
    /\ UNCHANGED <<wk, beat, tx, dog>>

-----------------------------------------------------------------------------
ClientNext(c) ==
    \/ \E l \in Locks : CheckTrigger(c, l)
    \/ \E j \in Jobs : LoadCancel(c, j) \/ LoadRelease(c, j)
    \/ InsertQueued(c) \/ WriteCancel(c) \/ WriteRelease(c)

WorkerNext(w) ==
    \/ \E j \in Jobs : Claim(w, j)
    \/ \E l \in Locks : CheckStage(w, l)
    \/ InsertStage(w)
    \/ \E o \in Outcomes : FinishStage(w, o)
    \/ \E o \in Outcomes, commits \in BOOLEAN : EndPayload(w, o, commits)
    \/ WriteComplete(w)
    \/ Crash(w)

BeatNext(w) == LoadBeat(w) \/ WriteBeat(w)

Next ==
    \/ \E c \in Clients : ClientNext(c)
    \/ \E w \in Workers : WorkerNext(w) \/ BeatNext(w)
    \/ LoadWatchdog \/ WriteWatchdog
    \/ Tick

Spec == Init /\ [][Next]_vars

-----------------------------------------------------------------------------
(* The lock keys a worker's code is running under right now.               *)
LocksHeld(w) ==
    (IF wk[w].job # NoJob /\ wk[w].pc \in {"executing", "stage check", "stage"}
     THEN {job[wk[w].job].lock} ELSE {})
    \cup (IF wk[w].pc = "stage" THEN {wk[w].lock} ELSE {})

\* At most one active row per lock key, whatever the sessions interleave.
LockUnique ==
    \A i, j \in Jobs :
        Active(i) /\ Active(j) /\ job[i].lock = job[j].lock => i = j

\* No two processes run a job or a stage under the same lock key at a time:
\* the point of leases and lock keys. It needs heartbeats on time, stages shorter
\* than the watchdog's timeout, no admin taking locks away, and a watchdog whose
\* select no claim overtakes.
Exclusive ==
    \A v, w \in Workers : v # w => LocksHeld(v) \cap LocksHeld(w) = {}

\* Why it holds then. A live worker owns its row, with what is left of the lease
\* and the age of the heartbeat adding up, so the lease cannot run out ...
OwnersHold ==
    \A w \in Workers : wk[w].job # NoJob =>
        /\ Live(w) /\ Owns(w)
        /\ job[wk[w].job].lease = Lease - job[wk[w].job].hb
        /\ job[wk[w].job].hb <= BeatEvery

\* ... a live stage has a row of its own that is neither leased nor timed out ...
StagesHold ==
    /\ \A w \in Workers : wk[w].pc = "stage" =>
          /\ wk[w].stage \in Jobs
          /\ job[wk[w].stage].status = "running"
          /\ job[wk[w].stage].lock = wk[w].lock
          /\ job[wk[w].stage].worker = NoWorker
          /\ job[wk[w].stage].lease = NoLease
          /\ job[wk[w].stage].age <= Timeout
    /\ \A v, w \in Workers :
          wk[v].pc = "stage" /\ wk[w].pc = "stage" /\ wk[v].stage = wk[w].stage
          => v = w

\* ... a heartbeat thread belongs to what its worker executes, or has one last
\* renewal of a finished row to write ...
BeatsHold ==
    \A w \in Workers :
        /\ beat[w].on => /\ wk[w].job # NoJob
                         /\ wk[w].job = beat[w].job
                         /\ wk[w].token = beat[w].token
        /\ beat[w].pending /\ ~beat[w].on => /\ beat[w].job \in Jobs
                                             /\ job[beat[w].job].status \in Finished

\* ... and the watchdog has selected neither.
WatchdogSpares ==
    \A j \in dog : /\ job[j].status = "running"
                   /\ job[j].lease < 0
                   /\ \A w \in Workers : wk[w].pc = "stage" => wk[w].stage # j

NoAdmin == \A c \in Clients : tx[c].op \in {"none", "insert"}

ExclusiveInv ==
    LockUnique /\ OwnersHold /\ StagesHold /\ BeatsHold /\ WatchdogSpares /\ NoAdmin

\* The row of a live stage is never handed to a worker by the queue.
StageNotClaimed ==
    \A w \in Workers : wk[w].pc = "stage" => job[wk[w].stage].worker = NoWorker

\* A job that has left queued/running never returns to it: it is not executed
\* again, whatever late writes of cancels, heartbeats and completions arrive.
NeverRunsAgain == [][\A j \in Jobs : Left(j) => Left(j)']_vars

\* Every job that is queued or running stops being so: a crashed worker's job is
\* taken over or abandoned, and the row of a stage that died with its worker
\* does not hold its lock key for ever.
Drains ==
    \A j \in Jobs :
        job[j].status \in Unfinished ~> job[j].status \notin Unfinished

-----------------------------------------------------------------------------
(* What the documents say and the code does not keep.                      *)

\* "Only the lease owner can heartbeat or complete a running job."
OnlyOwnerCompletes ==
    [][\A w \in Workers : WriteComplete(w) => Owns(w)]_vars

\* run_locked_job: a second copy of a stage that is executing cannot be run.
NoSecondCopy ==
    \A v, w \in Workers :
        wk[v].pc = "stage" /\ wk[w].pc = "stage" /\ v # w
        => wk[v].lock # wk[w].lock

\* "Stale recovery must not mutate completed/canceled jobs."
RecoveryLeavesFinishedAlone ==
    [][WriteWatchdog \/ (\E c \in Clients : WriteRelease(c))
         => \A j \in Jobs : job[j].status \in Finished => job'[j] = job[j]]_vars

\* "stale running jobs are marked failed only when both timeout and expired
\* lease conditions hold."
WatchdogNeedsExpiredLease ==
    [][WriteWatchdog => dog \subseteq {j \in Jobs : job[j].lease < 0}]_vars

-----------------------------------------------------------------------------
(* The scheduler and the database serve every process that keeps running;   *)
(* payloads and stages end (every request they make has a timeout); the     *)
(* APScheduler job run_job_watchdog fires for ever. Clients and crashes owe *)
(* nothing, except that a transaction begun is finished.                    *)
Fairness ==
    /\ WF_vars(Tick)
    /\ WF_vars(LoadWatchdog) /\ WF_vars(WriteWatchdog)
    /\ \A c \in Clients :
          WF_vars(InsertQueued(c) \/ WriteCancel(c) \/ WriteRelease(c))
    /\ \A w \in Workers :
          /\ WF_vars(BeatNext(w))
          /\ WF_vars(\E j \in Jobs : Claim(w, j))
          /\ WF_vars(InsertStage(w) \/ WriteComplete(w))
          /\ WF_vars(\E o \in Outcomes : FinishStage(w, o))
          /\ WF_vars(\E o \in Outcomes, commits \in BOOLEAN : EndPayload(w, o, commits))

LiveSpec == Spec /\ Fairness
=============================================================================
