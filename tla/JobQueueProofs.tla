--------------------------- MODULE JobQueueProofs ---------------------------
(* Theorems about JobQueue, for every number of rows, workers and locks and  *)
(* every length of lease, heartbeat interval and timeout.                    *)
EXTENDS JobQueue, TLAPS

USE DEF NoJob, NoLease

LEMMA StatusTypes ==
    /\ Outcomes \subseteq Statuses
    /\ {"none", "queued", "running", "cancel_requested", "canceled",
        "succeeded", "failed"} \subseteq Statuses
BY DEF Statuses, ActiveStatuses, Unfinished, Finished, Outcomes

\* The types of the numeric constants.
LEMMA Numbers ==
    /\ NumJobs \in Nat /\ Lease \in Nat /\ Stale \in Nat /\ Timeout \in Nat
    /\ BeatEvery \in Nat \ {0} /\ BeatEvery <= Lease
    /\ HbMax \in Nat /\ Stale <= HbMax /\ BeatEvery <= HbMax
<1>1. /\ NumJobs \in Nat /\ Lease \in Nat /\ Stale \in Nat /\ Timeout \in Nat
      /\ BeatEvery \in Nat \ {0} /\ BeatEvery <= Lease
  BY JobQueueAssumption
<1> QED BY <1>1 DEF HbMax

\* What every step starts from, in one place.
LEMMA RowTypes ==
    /\ NoRow \in Row
    /\ \A l \in Locks, s \in Statuses : NewRow(l, s) \in Row
    /\ IdleWorker \in WorkerState
    /\ NoBeat \in BeatState
    /\ NoTx \in TxState
<1>1. NoRow \in Row
  BY Numbers, StatusTypes DEF Row, NoRow, NewRow, LeaseValues
<1>2. \A l \in Locks, s \in Statuses : NewRow(l, s) \in Row
  BY Numbers DEF Row, NewRow, LeaseValues
<1>3. IdleWorker \in WorkerState
  BY DEF IdleWorker, WorkerState, Outcomes
<1>4. NoBeat \in BeatState
  BY DEF NoBeat, BeatState
<1>5. NoTx \in TxState
  BY StatusTypes DEF NoTx, TxState
<1> QED BY <1>1, <1>2, <1>3, <1>4, <1>5

LEMMA TypeInit == Init => TypeOK
BY RowTypes DEF Init, TypeOK

\* Writing the status of one row keeps the table well typed.
LEMMA StatusWrite ==
    ASSUME job \in [Jobs -> Row], NEW j, NEW s \in Statuses,
           job' = [job EXCEPT ![j].status = s]
    PROVE  job' \in [Jobs -> Row]
BY DEF Row

\* A row stays well typed whatever column is written with a value of its type.
LEMMA RowFields ==
    ASSUME NEW r \in Row
    PROVE  /\ \A s \in Statuses : [r EXCEPT !.status = s] \in Row
           /\ \A w \in Workers : [r EXCEPT !.worker = w] \in Row
           /\ \A n \in Nat : [r EXCEPT !.token = n] \in Row
           /\ \A v \in LeaseValues : [r EXCEPT !.lease = v] \in Row
           /\ \A n \in 0..HbMax : [r EXCEPT !.hb = n] \in Row
           /\ \A n \in 0..(Timeout + 1) : [r EXCEPT !.age = n] \in Row
BY DEF Row

\* So does the state of a worker.
LEMMA WorkerFields ==
    ASSUME NEW r \in WorkerState
    PROVE  /\ \A p \in {"idle", "executing", "stage check", "stage",
                         "completing", "dead"} : [r EXCEPT !.pc = p] \in WorkerState
           /\ \A j \in Jobs : [r EXCEPT !.job = j] \in WorkerState
           /\ \A n \in Nat : [r EXCEPT !.token = n] \in WorkerState
           /\ \A j \in Jobs \cup {NoJob} : [r EXCEPT !.stage = j] \in WorkerState
           /\ \A l \in Locks \cup {NoLock} : [r EXCEPT !.lock = l] \in WorkerState
           /\ \A o \in Outcomes : [r EXCEPT !.outcome = o] \in WorkerState
           /\ \A e \in BOOLEAN : [r EXCEPT !.expired = e] \in WorkerState
BY DEF WorkerState

\* The writes that touch several columns at once.
LEMMA RowWrites ==
    ASSUME NEW r \in Row
    PROVE  /\ \A w \in Workers, n \in Nat :
                 [r EXCEPT !.status = "running", !.worker = w, !.token = n,
                           !.lease = Lease, !.hb = 0] \in Row
           /\ [r EXCEPT !.lease = Lease, !.hb = 0] \in Row
           /\ \A o \in Outcomes :
                 /\ [r EXCEPT !.status = o, !.hb = 0] \in Row
                 /\ [r EXCEPT !.status = o, !.hb = 0, !.lease = NoLease] \in Row
<1>1. Lease \in LeaseValues /\ NoLease \in LeaseValues /\ 0 \in 0..HbMax
  BY Numbers DEF LeaseValues
<1> QED BY <1>1, RowFields, StatusTypes

LEMMA TypeClients ==
    ASSUME TypeOK, NEW c \in Clients, ClientNext(c)
    PROVE  TypeOK'
<1> USE DEF TypeOK
<1>1. ASSUME NEW l \in Locks, CheckTrigger(c, l) PROVE TypeOK'
  BY <1>1, RowTypes DEF CheckTrigger, TxState
<1>2. ASSUME NEW j \in Jobs, LoadCancel(c, j) PROVE TypeOK'
  BY <1>2, RowTypes DEF LoadCancel, Row, TxState
<1>3. ASSUME NEW j \in Jobs, LoadRelease(c, j) PROVE TypeOK'
  BY <1>3, RowTypes DEF LoadRelease, Row, TxState
<1>4. CASE InsertQueued(c)
  <2>1. tx[c].lock \in Locks \cup {NoLock}
    BY DEF TxState
  <2>2. NewRow(tx[c].lock, "queued") \in Row
    BY <2>1, Numbers, StatusTypes DEF NewRow, Row, LeaseValues
  <2> QED BY <1>4, <2>2, RowTypes DEF InsertQueued
<1>5. CASE WriteCancel(c)
  <2>1. job' \in [Jobs -> Row]
    BY <1>5, StatusWrite, StatusTypes DEF WriteCancel
  <2> QED BY <1>5, <2>1, RowTypes DEF WriteCancel
<1>6. CASE WriteRelease(c)
  <2>1. job' \in [Jobs -> Row]
    BY <1>6, StatusWrite, StatusTypes DEF WriteRelease
  <2> QED BY <1>6, <2>1, RowTypes DEF WriteRelease
<1> QED BY <1>1, <1>2, <1>3, <1>4, <1>5, <1>6 DEF ClientNext

LEMMA TypeWorkers ==
    ASSUME TypeOK, NEW w \in Workers, WorkerNext(w)
    PROVE  TypeOK'
<1> USE DEF TypeOK
<1>1. ASSUME NEW j \in Jobs, Claim(w, j) PROVE TypeOK'
  <2> DEFINE t == job[j].token + 1
             row == [job[j] EXCEPT !.status = "running", !.worker = w, !.token = t,
                                   !.lease = Lease, !.hb = 0]
             state == [IdleWorker EXCEPT !.pc = "executing", !.job = j, !.token = t]
             thread == [NoBeat EXCEPT !.on = TRUE, !.job = j, !.token = t]
  <2>1. /\ job' = [job EXCEPT ![j] = row]
        /\ wk' = [wk EXCEPT ![w] = state]
        /\ beat' = [beat EXCEPT ![w] = thread]
        /\ UNCHANGED <<tx, dog>>
    BY <1>1 DEF Claim
  <2>2. t \in Nat
    BY DEF Row
  <2> HIDE DEF t
  <2>3. row \in Row
    BY <2>2, RowWrites
  <2>4. state \in WorkerState
    BY <2>2, RowTypes, WorkerFields
  <2>5. thread \in BeatState
    BY <2>2, RowTypes DEF BeatState
  <2> HIDE DEF row, state, thread
  <2> QED BY <2>1, <2>3, <2>4, <2>5
<1>2. ASSUME NEW l \in Locks, CheckStage(w, l) PROVE TypeOK'
  BY <1>2, WorkerFields DEF CheckStage
<1>3. CASE InsertStage(w)
  <2>1. wk[w].lock \in Locks \cup {NoLock}
    BY DEF WorkerState
  <2>2. NewRow(wk[w].lock, "running") \in Row
    BY <2>1, Numbers, StatusTypes DEF NewRow, Row, LeaseValues
  <2>3. job' \in [Jobs -> Row]
    BY <1>3, <2>2 DEF InsertStage
  <2>4. wk' \in [Workers -> WorkerState]
    <3> DEFINE after == [wk[w] EXCEPT !.pc = AfterStage(w), !.lock = NoLock,
                                      !.expired = TRUE]
    <3>1. after \in WorkerState
      BY WorkerFields DEF AfterStage
    <3>2. ASSUME NEW j \in Jobs
          PROVE  [wk[w] EXCEPT !.pc = "stage", !.stage = j, !.expired = TRUE]
                   \in WorkerState
      BY WorkerFields
    <3>3. \/ wk' = [wk EXCEPT ![w] = after]
          \/ \E j \in Jobs :
               wk' = [wk EXCEPT ![w] = [wk[w] EXCEPT !.pc = "stage", !.stage = j,
                                                     !.expired = TRUE]]
      BY <1>3 DEF InsertStage
    <3> HIDE DEF after
    <3> QED BY <3>1, <3>2, <3>3
  <2> QED BY <1>3, <2>3, <2>4 DEF InsertStage
<1>4. ASSUME NEW o \in Outcomes, FinishStage(w, o) PROVE TypeOK'
  <2>1. job' \in [Jobs -> Row]
    BY <1>4, RowWrites DEF FinishStage
  <2>2. wk' \in [Workers -> WorkerState]
    BY <1>4, WorkerFields DEF FinishStage, AfterStage
  <2> QED BY <1>4, <2>1, <2>2 DEF FinishStage
<1>5. ASSUME NEW o \in Outcomes, NEW commits \in BOOLEAN,
             EndPayload(w, o, commits)
      PROVE TypeOK'
  <2>1. wk' \in [Workers -> WorkerState]
    <3>1. [wk[w] EXCEPT !.pc = "completing", !.outcome = o] \in WorkerState
      BY WorkerFields
    <3>2. \/ wk' = [wk EXCEPT ![w] = [wk[w] EXCEPT !.pc = "completing", !.outcome = o]]
          \/ wk' = [wk EXCEPT ![w] = IdleWorker]
      BY <1>5 DEF EndPayload
    <3> QED BY <3>1, <3>2, RowTypes
  <2>2. beat' \in [Workers -> BeatState]
    <3>1. beat' = beat \/ StopBeat(w)
      BY <1>5 DEF EndPayload
    <3> QED BY <3>1 DEF StopBeat, BeatState
  <2> QED BY <1>5, <2>1, <2>2 DEF EndPayload
<1>6. CASE WriteComplete(w)
  <2>1. wk[w].outcome \in Outcomes
    BY DEF WorkerState
  <2>2. job' \in [Jobs -> Row]
    BY <1>6, <2>1, RowWrites DEF WriteComplete
  <2>3. wk' \in [Workers -> WorkerState] /\ beat' \in [Workers -> BeatState]
    BY <1>6, RowTypes DEF WriteComplete, StopBeat, BeatState
  <2> QED BY <1>6, <2>2, <2>3 DEF WriteComplete
<1>7. CASE Crash(w)
  BY <1>7, RowTypes DEF Crash, IdleWorker, WorkerState
<1> QED BY <1>1, <1>2, <1>3, <1>4, <1>5, <1>6, <1>7 DEF WorkerNext

LEMMA TypeBeats ==
    ASSUME TypeOK, NEW w \in Workers, BeatNext(w)
    PROVE  TypeOK'
<1>1. CASE LoadBeat(w)
  BY <1>1 DEF LoadBeat, TypeOK, BeatState
<1>2. CASE WriteBeat(w)
  <2>1. job' \in [Jobs -> Row]
    BY <1>2, RowWrites DEF WriteBeat, TypeOK
  <2> QED BY <1>2, <2>1 DEF WriteBeat, TypeOK, BeatState
<1> QED BY <1>1, <1>2 DEF BeatNext

LEMMA TypeWatchdog ==
    ASSUME TypeOK, LoadWatchdog \/ WriteWatchdog
    PROVE  TypeOK'
<1>1. CASE LoadWatchdog
  BY <1>1 DEF LoadWatchdog, TimedOut, TypeOK
<1>2. CASE WriteWatchdog
  <2>1. job' \in [Jobs -> Row]
    BY <1>2, StatusTypes DEF WriteWatchdog, TypeOK, Row
  <2> QED BY <1>2, <2>1 DEF WriteWatchdog, TypeOK
<1> QED BY <1>1, <1>2

LEMMA AgedType == ASSUME NEW r \in Row PROVE Aged(r) \in Row
<1> DEFINE lease == IF r.status = "running" /\ r.lease >= 0 THEN r.lease - 1 ELSE r.lease
           hb == IF r.status \notin {"none", "queued"} /\ r.hb < HbMax
                 THEN r.hb + 1 ELSE r.hb
           age == IF r.status = "running" /\ r.age <= Timeout THEN r.age + 1 ELSE r.age
<1>1. lease \in LeaseValues /\ hb \in 0..HbMax /\ age \in 0..(Timeout + 1)
  BY Numbers DEF Row, LeaseValues
<1>2. Aged(r) = [r EXCEPT !.lease = lease, !.hb = hb, !.age = age]
  BY DEF Aged, Row
<1> HIDE DEF lease, hb, age
<1>3. [r EXCEPT !.lease = lease] \in Row
  BY <1>1, RowFields
<1>4. [r EXCEPT !.lease = lease, !.hb = hb] \in Row
  BY <1>1, <1>3, RowFields
<1> QED BY <1>1, <1>2, <1>4, RowFields

LEMMA TypeTick == ASSUME TypeOK, Tick PROVE TypeOK'
BY AgedType DEF Tick, TypeOK

LEMMA TypeStep == TypeOK /\ [Next]_vars => TypeOK'
<1> SUFFICES ASSUME TypeOK, [Next]_vars PROVE TypeOK'
  OBVIOUS
<1>1. CASE UNCHANGED vars
  BY <1>1 DEF TypeOK, vars
<1>2. CASE Next
  BY <1>2, TypeClients, TypeWorkers, TypeBeats, TypeWatchdog, TypeTick DEF Next
<1> QED BY <1>1, <1>2

\* The table and every process stay in the states the code can store.
THEOREM TypeCorrect == Spec => []TypeOK
<1>1. Init => TypeOK
  BY TypeInit
<1>2. TypeOK /\ [Next]_vars => TypeOK'
  BY TypeStep
<1> QED BY <1>1, <1>2, PTL DEF Spec

-----------------------------------------------------------------------------
(* One active row per lock key.                                             *)

\* Writes that keep every lock key and make no row active keep LockUnique.
LEMMA QuietWrites ==
    ASSUME LockUnique,
           \A j \in Jobs : /\ job'[j].lock = job[j].lock
                           /\ Active(j)' => Active(j)
    PROVE  LockUnique'
BY DEF LockUnique

\* Inserting an active row under a lock key nobody holds keeps it too.
LEMMA InsertWrites ==
    ASSUME TypeOK, LockUnique, NEW l, ActiveOn(l) = {}, NEW s, NEW j \in Jobs,
           job' = [job EXCEPT ![j] = NewRow(l, s)]
    PROVE  LockUnique'
BY DEF TypeOK, LockUnique, ActiveOn, Active, NewRow

LEMMA LockClients ==
    ASSUME TypeOK, LockUnique, NEW c \in Clients, ClientNext(c)
    PROVE  LockUnique'
<1> USE DEF TypeOK
<1>1. ASSUME job' = job PROVE LockUnique'
  BY <1>1 DEF LockUnique, Active
<1>2. CASE InsertQueued(c)
  BY <1>1, <1>2, InsertWrites DEF InsertQueued
<1>3. CASE WriteCancel(c)
  <2> DEFINE j == tx[c].job
  <2>1. CASE job' = [job EXCEPT ![j].status = "cancel_requested"] /\ IndexAllows(j)
    BY <2>1 DEF IndexAllows, ActiveOn, LockUnique, Active, Row
  <2>2. CASE job' = [job EXCEPT ![j].status = "canceled"]
    BY <2>2, QuietWrites DEF Active, ActiveStatuses, Unfinished, Row
  <2> QED BY <1>1, <1>3, <2>1, <2>2 DEF WriteCancel
<1>4. CASE WriteRelease(c)
  BY <1>4, QuietWrites DEF WriteRelease, Active, ActiveStatuses, Unfinished, Row
<1> QED BY <1>1, <1>2, <1>3, <1>4 DEF ClientNext, CheckTrigger, LoadCancel, LoadRelease

LEMMA LockWorkers ==
    ASSUME TypeOK, LockUnique, NEW w \in Workers, WorkerNext(w) \/ BeatNext(w)
    PROVE  LockUnique'
<1> USE DEF TypeOK
<1>0. ASSUME job' = job PROVE LockUnique'
  BY <1>0 DEF LockUnique, Active
<1>1. ASSUME NEW j \in Jobs, Claim(w, j) PROVE LockUnique'
  BY <1>1, QuietWrites
     DEF Claim, Claimable, Active, ActiveStatuses, Unfinished, Row
<1>2. CASE InsertStage(w)
  BY <1>0, <1>2, InsertWrites DEF InsertStage
<1>3. ASSUME NEW o \in Outcomes, FinishStage(w, o) PROVE LockUnique'
  BY <1>3, QuietWrites
     DEF FinishStage, Active, ActiveStatuses, Unfinished, Outcomes, Row
<1>4. CASE WriteComplete(w)
  <2>1. wk[w].outcome \in Outcomes
    BY DEF WorkerState
  <2>2. \A j \in Jobs : /\ job'[j].lock = job[j].lock
                        /\ job'[j].status \in {job[j].status, wk[w].outcome}
    BY <1>4 DEF WriteComplete, Row
  <2>3. wk[w].outcome \notin ActiveStatuses
    BY <2>1 DEF Outcomes, ActiveStatuses, Unfinished
  <2> QED BY <2>2, <2>3, QuietWrites DEF Active
<1>5. CASE WriteBeat(w)
  <2>1. \A j \in Jobs : job'[j].status = job[j].status /\ job'[j].lock = job[j].lock
    BY <1>5 DEF WriteBeat, Row
  <2> QED BY <2>1, QuietWrites DEF Active
<1> QED BY <1>0, <1>1, <1>2, <1>3, <1>4, <1>5
        DEF WorkerNext, BeatNext, CheckStage, EndPayload, Crash, LoadBeat

LEMMA LockWatchdogTick ==
    ASSUME TypeOK, LockUnique, LoadWatchdog \/ WriteWatchdog \/ Tick
    PROVE  LockUnique'
<1> USE DEF TypeOK
<1>1. CASE LoadWatchdog
  BY <1>1 DEF LoadWatchdog, LockUnique, Active
<1>2. CASE WriteWatchdog
  BY <1>2, QuietWrites DEF WriteWatchdog, Active, ActiveStatuses, Unfinished, Row
<1>3. CASE Tick
  <2>1. ASSUME NEW r \in Row
        PROVE  Aged(r).status = r.status /\ Aged(r).lock = r.lock
    BY DEF Aged, Row
  <2> QED BY <1>3, <2>1, QuietWrites DEF Tick, Active
<1> QED BY <1>1, <1>2, <1>3

LEMMA LockStep == TypeOK /\ LockUnique /\ [Next]_vars => LockUnique'
<1> SUFFICES ASSUME TypeOK, LockUnique, [Next]_vars PROVE LockUnique'
  OBVIOUS
<1>1. CASE UNCHANGED vars
  BY <1>1 DEF vars, LockUnique, Active
<1>2. CASE Next
  BY <1>2, LockClients, LockWorkers, LockWatchdogTick DEF Next
<1> QED BY <1>1, <1>2

\* At no time do two active rows share a lock key, in any environment: check-then-
\* insert races end in the unique index, and a cancel that arrives after its job
\* finished cannot take the key back from a newer row.
THEOREM LockKeysUnique == Spec => []LockUnique
<1>1. Init => LockUnique
  BY DEF Init, LockUnique, Active, NoRow, NewRow, ActiveStatuses, Unfinished
<1>2. TypeOK /\ LockUnique /\ [Next]_vars => LockUnique'
  BY LockStep
<1> QED BY <1>1, <1>2, TypeCorrect, PTL DEF Spec

-----------------------------------------------------------------------------
(* A job that has left queued/running never returns.                        *)

\* The statuses some handler writes over a row that exists, the claim apart.
LateStatuses == Outcomes \cup {"canceled", "cancel_requested"}

LEMMA LateWrites ==
    ASSUME \A j \in Jobs : job'[j].status \in {job[j].status} \cup LateStatuses
    PROVE  \A j \in Jobs : Left(j) => Left(j)'
BY DEF Left, LateStatuses, Outcomes, Unfinished

LEMMA InsertLeaves ==
    ASSUME TypeOK, NEW j \in Jobs, IsNext(j), NEW r, job' = [job EXCEPT ![j] = r]
    PROVE  \A i \in Jobs : Left(i) => Left(i)'
BY DEF TypeOK, IsNext, Free, Left

LEMMA LeftStep ==
    ASSUME TypeOK, [Next]_vars
    PROVE  \A j \in Jobs : Left(j) => Left(j)'
<1> USE DEF TypeOK
<1>0. ASSUME job' = job PROVE \A j \in Jobs : Left(j) => Left(j)'
  BY <1>0 DEF Left
<1>1. ASSUME NEW c \in Clients, ClientNext(c)
      PROVE  \A j \in Jobs : Left(j) => Left(j)'
  <2>1. CASE InsertQueued(c)
    BY <1>0, <2>1, InsertLeaves DEF InsertQueued
  <2>2. CASE WriteCancel(c)
    BY <1>0, <2>2, LateWrites DEF WriteCancel, LateStatuses, Row
  <2>3. CASE WriteRelease(c)
    BY <2>3, LateWrites DEF WriteRelease, LateStatuses, Outcomes, Row
  <2> QED BY <1>0, <1>1, <2>1, <2>2, <2>3
          DEF ClientNext, CheckTrigger, LoadCancel, LoadRelease
<1>2. ASSUME NEW w \in Workers, WorkerNext(w) \/ BeatNext(w)
      PROVE  \A j \in Jobs : Left(j) => Left(j)'
  <2>1. ASSUME NEW j \in Jobs, Claim(w, j)
        PROVE  \A i \in Jobs : Left(i) => Left(i)'
    <3>1. ~Left(j)
      BY <2>1 DEF Claim, Claimable, Left, Unfinished
    <3>2. \A i \in Jobs \ {j} : job'[i] = job[i]
      BY <2>1 DEF Claim
    <3> QED BY <3>1, <3>2 DEF Left
  <2>2. CASE InsertStage(w)
    BY <1>0, <2>2, InsertLeaves DEF InsertStage
  <2>3. ASSUME NEW o \in Outcomes, FinishStage(w, o)
        PROVE  \A i \in Jobs : Left(i) => Left(i)'
    BY <2>3, LateWrites DEF FinishStage, LateStatuses, Row
  <2>4. CASE WriteComplete(w)
    <3>1. wk[w].outcome \in Outcomes
      BY DEF WorkerState
    <3>2. \A j \in Jobs : job'[j].status \in {job[j].status, wk[w].outcome}
      BY <2>4 DEF WriteComplete, Row
    <3> QED BY <3>1, <3>2, LateWrites DEF LateStatuses
  <2>5. CASE WriteBeat(w)
    <3>1. \A j \in Jobs : job'[j].status = job[j].status
      BY <2>5 DEF WriteBeat, Row
    <3> QED BY <3>1, LateWrites
  <2> QED BY <1>0, <1>2, <2>1, <2>2, <2>3, <2>4, <2>5
          DEF WorkerNext, BeatNext, CheckStage, EndPayload, Crash, LoadBeat
<1>3. CASE LoadWatchdog
  BY <1>0, <1>3 DEF LoadWatchdog
<1>4. CASE WriteWatchdog
  BY <1>4, LateWrites DEF WriteWatchdog, LateStatuses, Outcomes, Row
<1>5. CASE Tick
  <2>1. ASSUME NEW r \in Row PROVE Aged(r).status = r.status
    BY DEF Aged, Row
  <2> QED BY <1>5, <2>1, LateWrites DEF Tick
<1>6. CASE UNCHANGED vars
  BY <1>0, <1>6 DEF vars
<1> QED BY <1>1, <1>2, <1>3, <1>4, <1>5, <1>6 DEF Next

\* Once canceled, asked to cancel, released, abandoned or finished, a job is never
\* queued or running again, in any environment: no late write revives it.
THEOREM LeavesForGood == Spec => NeverRunsAgain
<1>1. TypeOK /\ [Next]_vars => [\A j \in Jobs : Left(j) => Left(j)']_vars
  BY LeftStep
<1> QED BY <1>1, TypeCorrect, PTL DEF Spec, NeverRunsAgain

-----------------------------------------------------------------------------
(* The queue never hands a live stage's row to a worker. Whatever is written *)
(* late, the row has no lease, as only a row that was claimed gets one; and  *)
(* the claim takes a running row only if it has one.                         *)

StageRow(j) ==
    /\ j \in Jobs
    /\ job[j].worker = NoWorker /\ job[j].lease = NoLease
    /\ job[j].status \notin {"none", "queued"}

ClaimedRow(j) == j \in Jobs /\ job[j].worker # NoWorker /\ job[j].status # "none"

StagesUnleased == \A w \in Workers : wk[w].pc = "stage" => StageRow(wk[w].stage)
BeatsClaimed == \A w \in Workers : beat[w].on \/ beat[w].pending => ClaimedRow(beat[w].job)
StageInv == StagesUnleased /\ BeatsClaimed

\* What is inserted is neither of these rows.
LEMMA InsertsBeside ==
    ASSUME TypeOK, NEW i \in Jobs, IsNext(i), NEW r, job' = [job EXCEPT ![i] = r]
    PROVE  /\ \A j : StageRow(j) => StageRow(j)'
           /\ \A j : ClaimedRow(j) => ClaimedRow(j)'
BY DEF TypeOK, IsNext, Free, StageRow, ClaimedRow

\* Late statuses change neither.
LEMMA StatusesBeside ==
    ASSUME TypeOK, \A j \in Jobs : /\ job'[j].status \in {job[j].status} \cup LateStatuses
                                   /\ job'[j].worker = job[j].worker
                                   /\ job[j].lease = NoLease => job'[j].lease = NoLease
    PROVE  /\ \A j : StageRow(j) => StageRow(j)'
           /\ \A j : ClaimedRow(j) => ClaimedRow(j)'
BY DEF StageRow, ClaimedRow, LateStatuses, Outcomes

\* A step that keeps these rows, makes no worker start a stage and no thread look at
\* another row keeps the invariant.
LEMMA StageQuiet ==
    ASSUME StageInv,
           \A j : StageRow(j) => StageRow(j)',
           \A j : ClaimedRow(j) => ClaimedRow(j)',
           \A w \in Workers : wk'[w].pc = "stage" =>
               wk[w].pc = "stage" /\ wk'[w].stage = wk[w].stage,
           \A w \in Workers : beat'[w].on \/ beat'[w].pending =>
               (beat[w].on \/ beat[w].pending) /\ beat'[w].job = beat[w].job
    PROVE  StageInv'
<1>1. StagesUnleased'
  BY DEF StageInv, StagesUnleased
<1>2. BeatsClaimed'
  BY DEF StageInv, BeatsClaimed
<1> QED BY <1>1, <1>2 DEF StageInv

LEMMA StageClients ==
    ASSUME TypeOK, StageInv, NEW c \in Clients, ClientNext(c)
    PROVE  StageInv'
<1>0. UNCHANGED <<wk, beat>>
  BY DEF ClientNext, CheckTrigger, LoadCancel, LoadRelease, InsertQueued, WriteCancel,
         WriteRelease
<1>1. CASE job' = job
  BY <1>0, <1>1, StageQuiet DEF StageRow, ClaimedRow
<1>2. CASE InsertQueued(c)
  BY <1>0, <1>1, <1>2, InsertsBeside, StageQuiet DEF InsertQueued
<1>3. CASE WriteCancel(c) \/ WriteRelease(c)
  <2>1. job' = job \/ \E j, s : s \in LateStatuses /\ job' = [job EXCEPT ![j].status = s]
    BY <1>3 DEF WriteCancel, WriteRelease, LateStatuses, Outcomes
  <2>2. CASE \E j, s : s \in LateStatuses /\ job' = [job EXCEPT ![j].status = s]
    <3>1. \A i \in Jobs : /\ job'[i].status \in {job[i].status} \cup LateStatuses
                          /\ job'[i].worker = job[i].worker
                          /\ job'[i].lease = job[i].lease
      BY <2>2 DEF TypeOK, Row
    <3> QED BY <1>0, <3>1, StatusesBeside, StageQuiet
  <2> QED BY <1>1, <2>1, <2>2
<1> QED BY <1>1, <1>2, <1>3 DEF ClientNext, CheckTrigger, LoadCancel, LoadRelease

LEMMA StageWorkers ==
    ASSUME TypeOK, StageInv, NEW w \in Workers, WorkerNext(w) \/ BeatNext(w)
    PROVE  StageInv'
<1> USE DEF TypeOK
<1>0. ASSUME job' = job
      PROVE  /\ \A j : StageRow(j) => StageRow(j)'
             /\ \A j : ClaimedRow(j) => ClaimedRow(j)'
  BY <1>0 DEF StageRow, ClaimedRow
<1>1. ASSUME NEW j \in Jobs, Claim(w, j) PROVE StageInv'
  <2>1. w # NoWorker
    BY JobQueueAssumption DEF NoWorker
  <2>2. ~StageRow(j)
    BY <1>1 DEF Claim, Claimable, StageRow
  <2>3. \A i \in Jobs : i # j => job'[i] = job[i]
    BY <1>1 DEF Claim
  <2>4. job'[j].worker = w /\ job'[j].status = "running"
    BY <1>1 DEF Claim, Row
  <2>5. \A i : StageRow(i) => StageRow(i)'
    BY <2>2, <2>3 DEF StageRow
  <2>6. ClaimedRow(j)' /\ \A i : ClaimedRow(i) => ClaimedRow(i)'
    BY <2>1, <2>3, <2>4 DEF ClaimedRow
  <2>7. /\ \A v \in Workers : wk'[v].pc = "stage" =>
              wk[v].pc = "stage" /\ wk'[v].stage = wk[v].stage
        /\ \A v \in Workers : v # w => beat'[v] = beat[v]
        /\ beat'[w].job = j
    BY <1>1 DEF Claim, IdleWorker, NoBeat, WorkerState, BeatState
  <2>8. StagesUnleased'
    BY <2>5, <2>7 DEF StageInv, StagesUnleased
  <2>9. BeatsClaimed'
    BY <2>6, <2>7 DEF StageInv, BeatsClaimed
  <2> QED BY <2>8, <2>9 DEF StageInv
<1>2. ASSUME NEW l \in Locks, CheckStage(w, l) PROVE StageInv'
  BY <1>0, <1>2, StageQuiet DEF CheckStage, WorkerState
<1>3. CASE InsertStage(w)
  <2>1. ASSUME job' = job,
               wk' = [wk EXCEPT ![w] = [@ EXCEPT !.pc = AfterStage(w), !.lock = NoLock,
                                                 !.expired = TRUE]]
        PROVE  StageInv'
    <3>1. beat' = beat /\ \A v \in Workers : wk'[v].pc = "stage" => wk'[v] = wk[v]
      BY <1>3, <2>1 DEF InsertStage, AfterStage, WorkerState
    <3> QED BY <1>0, <2>1, <3>1, StageQuiet
  <2>2. ASSUME NEW j \in Jobs, IsNext(j), job' = [job EXCEPT ![j] = NewRow(wk[w].lock, "running")],
               wk' = [wk EXCEPT ![w] = [@ EXCEPT !.pc = "stage", !.stage = j, !.expired = TRUE]]
        PROVE  StageInv'
    <3>1. beat' = beat
      BY <1>3 DEF InsertStage
    <3>2. StageRow(j)'
      BY <2>2 DEF StageRow, NewRow
    <3>3. /\ \A i : StageRow(i) => StageRow(i)'
          /\ \A i : ClaimedRow(i) => ClaimedRow(i)'
      BY <2>2, InsertsBeside
    <3>4. wk'[w].stage = j /\ \A v \in Workers : v # w => wk'[v] = wk[v]
      BY <2>2 DEF WorkerState
    <3>5. StagesUnleased'
      BY <3>2, <3>3, <3>4 DEF StageInv, StagesUnleased
    <3>6. BeatsClaimed'
      BY <3>1, <3>3 DEF StageInv, BeatsClaimed
    <3> QED BY <3>5, <3>6 DEF StageInv
  <2> QED BY <1>3, <2>1, <2>2 DEF InsertStage
<1>4. ASSUME NEW o \in Outcomes, FinishStage(w, o) PROVE StageInv'
  <2>1. \A i \in Jobs : /\ job'[i].status \in {job[i].status} \cup LateStatuses
                        /\ job'[i].worker = job[i].worker
                        /\ job'[i].lease = job[i].lease
    BY <1>4 DEF FinishStage, LateStatuses, Row
  <2>2. beat' = beat /\ \A v \in Workers : wk'[v].pc = "stage" => wk'[v] = wk[v]
    BY <1>4 DEF FinishStage, AfterStage, WorkerState
  <2> QED BY <2>1, <2>2, StatusesBeside, StageQuiet
<1>5. ASSUME NEW o \in Outcomes, NEW commits \in BOOLEAN, EndPayload(w, o, commits)
      PROVE  StageInv'
  <2>0. wk[w] \in WorkerState /\ wk \in [Workers -> WorkerState]
    OBVIOUS
  <2>4. IdleWorker.pc = "idle" /\ [wk[w] EXCEPT !.pc = "completing", !.outcome = o].pc = "completing"
    BY <2>0 DEF IdleWorker, WorkerState
  <2>5. \/ wk' = [wk EXCEPT ![w] = [wk[w] EXCEPT !.pc = "completing", !.outcome = o]]
        \/ wk' = [wk EXCEPT ![w] = IdleWorker]
    BY <1>5 DEF EndPayload
  <2>3. PICK r : wk' = [wk EXCEPT ![w] = r] /\ r.pc \in {"completing", "idle"}
    BY <2>4, <2>5
  <2>1. job' = job /\ \A v \in Workers : wk'[v].pc = "stage" => wk'[v] = wk[v]
    BY <1>5, <2>0, <2>3 DEF EndPayload
  <2>2. \A v \in Workers : /\ beat'[v].on => beat[v].on
                           /\ beat'[v].pending = beat[v].pending
                           /\ beat'[v].job = beat[v].job
    BY <1>5 DEF EndPayload, StopBeat, BeatState
  <2> QED BY <1>0, <2>1, <2>2, StageQuiet
<1>6. CASE WriteComplete(w)
  <2>1. wk[w].outcome \in LateStatuses
    BY DEF WorkerState, LateStatuses
  <2>2. \A i \in Jobs : /\ job'[i].status \in {job[i].status, wk[w].outcome}
                        /\ job'[i].worker = job[i].worker
                        /\ job'[i].lease \in {job[i].lease, NoLease}
    BY <1>6 DEF WriteComplete, Row
  <2>3. \A v \in Workers : wk'[v].pc = "stage" => wk'[v] = wk[v]
    BY <1>6 DEF WriteComplete, IdleWorker, WorkerState
  <2>4. \A v \in Workers : /\ beat'[v].on => beat[v].on
                           /\ beat'[v].pending = beat[v].pending
                           /\ beat'[v].job = beat[v].job
    BY <1>6 DEF WriteComplete, StopBeat, BeatState
  <2> QED BY <2>1, <2>2, <2>3, <2>4, StatusesBeside, StageQuiet
<1>7. CASE Crash(w)
  BY <1>0, <1>7, StageQuiet DEF Crash, IdleWorker, NoBeat, WorkerState, BeatState
<1>8. CASE LoadBeat(w)
  BY <1>0, <1>8, StageQuiet DEF LoadBeat, BeatState
<1>9. CASE WriteBeat(w)
  <2>1. ClaimedRow(beat[w].job)
    BY <1>9 DEF WriteBeat, StageInv, BeatsClaimed
  <2>2. /\ \A i \in Jobs : i # beat[w].job => job'[i] = job[i]
        /\ \A i \in Jobs : job'[i].status = job[i].status /\ job'[i].worker = job[i].worker
    BY <1>9 DEF WriteBeat, Row
  <2>3. \A i : StageRow(i) => StageRow(i)'
    BY <2>1, <2>2 DEF StageRow, ClaimedRow
  <2>4. \A i : ClaimedRow(i) => ClaimedRow(i)'
    BY <2>2 DEF ClaimedRow
  <2>5. wk' = wk /\ \A v \in Workers : /\ beat'[v].on = beat[v].on
                                       /\ beat'[v].pending => beat[v].pending
                                       /\ beat'[v].job = beat[v].job
    BY <1>9 DEF WriteBeat, BeatState
  <2> QED BY <2>3, <2>4, <2>5, StageQuiet
<1> QED BY <1>1, <1>2, <1>3, <1>4, <1>5, <1>6, <1>7, <1>8, <1>9 DEF WorkerNext, BeatNext

LEMMA StageWatchdogTick ==
    ASSUME TypeOK, StageInv, LoadWatchdog \/ WriteWatchdog \/ Tick \/ UNCHANGED vars
    PROVE  StageInv'
<1> USE DEF TypeOK
<1>0. UNCHANGED <<wk, beat>>
  BY DEF LoadWatchdog, WriteWatchdog, Tick, vars
<1>1. CASE job' = job
  BY <1>0, <1>1, StageQuiet DEF StageRow, ClaimedRow
<1>2. CASE WriteWatchdog
  <2>1. \A i \in Jobs : /\ job'[i].status \in {job[i].status} \cup LateStatuses
                        /\ job'[i].worker = job[i].worker
                        /\ job'[i].lease = job[i].lease
    BY <1>2 DEF WriteWatchdog, LateStatuses, Outcomes, Row
  <2> QED BY <1>0, <2>1, StatusesBeside, StageQuiet
<1>3. CASE Tick
  <2>1. ASSUME NEW r \in Row
        PROVE  /\ Aged(r).status = r.status /\ Aged(r).worker = r.worker
               /\ r.lease = NoLease => Aged(r).lease = NoLease
    BY DEF Aged, Row
  <2>2. \A i \in Jobs : /\ job'[i].status \in {job[i].status} \cup LateStatuses
                        /\ job'[i].worker = job[i].worker
                        /\ job[i].lease = NoLease => job'[i].lease = NoLease
    BY <1>3, <2>1 DEF Tick
  <2> QED BY <1>0, <2>2, StatusesBeside, StageQuiet
<1> QED BY <1>1, <1>2, <1>3 DEF LoadWatchdog, vars

\* In any environment, the row of a live stage has no worker: the claim passes it over
\* however late the stage and however often rows are canceled, released or abandoned.
THEOREM StagesPassedOver == Spec => []StageNotClaimed
<1>1. Init => StageInv
  BY DEF Init, StageInv, StagesUnleased, BeatsClaimed, IdleWorker, NoBeat
<1>2. TypeOK /\ StageInv /\ [Next]_vars => StageInv'
  BY StageClients, StageWorkers, StageWatchdogTick DEF Next
<1>3. StageInv => StageNotClaimed
  BY DEF StageInv, StagesUnleased, StageRow, StageNotClaimed
<1> QED BY <1>1, <1>2, <1>3, TypeCorrect, PTL DEF Spec

-----------------------------------------------------------------------------
(* Mutual exclusion of executions under a lock key, for every number of      *)
(* rows, workers and locks and all lengths of time, in the environment Env.  *)

Env == TimelyBeats /\ ShortStages /\ QuickWatchdog /\ AdminOps = {}

IInv == TypeOK /\ ExclusiveInv

\* The fields of a worker, a row and a thread, as the proofs below read them.
LEMMA Fields ==
    ASSUME TypeOK
    PROVE  /\ \A w \in Workers : /\ wk[w].job \in Jobs \cup {NoJob}
                                 /\ wk[w].stage \in Jobs \cup {NoJob}
                                 /\ wk[w].token \in Nat
                                 /\ wk[w].outcome \in Outcomes
           /\ \A j \in Jobs : /\ job[j].hb \in Nat /\ job[j].age \in Nat
                              /\ job[j].lease \in Int
           /\ \A w \in Workers : beat[w].job \in Jobs \cup {NoJob}
           /\ NoJob \notin Jobs
<1>1. \A w \in Workers : /\ wk[w].job \in Jobs \cup {NoJob}
                         /\ wk[w].stage \in Jobs \cup {NoJob}
                         /\ wk[w].token \in Nat
                         /\ wk[w].outcome \in Outcomes
  BY DEF TypeOK, WorkerState
<1>2. \A j \in Jobs : job[j] \in Row
  BY DEF TypeOK
<1>3. \A r \in Row : r.hb \in Nat /\ r.age \in Nat /\ r.lease \in Int
  <2> SUFFICES ASSUME NEW r \in Row
               PROVE  r.hb \in Nat /\ r.age \in Nat /\ r.lease \in Int
    OBVIOUS
  <2>1. r.hb \in 0..HbMax /\ r.age \in 0..(Timeout + 1) /\ r.lease \in LeaseValues
    BY DEF Row
  <2>2. LeaseValues \subseteq Int
    BY Numbers DEF LeaseValues
  <2>3. r.hb \in Nat
    BY <2>1, Numbers
  <2>4. r.age \in Nat
    BY <2>1, Numbers
  <2> QED BY <2>1, <2>2, <2>3, <2>4
<1>4. \A w \in Workers : beat[w].job \in Jobs \cup {NoJob}
  BY DEF TypeOK, BeatState
<1>5. NoJob \notin Jobs
  BY Numbers DEF Jobs
<1> QED BY <1>1, <1>2, <1>3, <1>4, <1>5

\* A row that some live worker owns is running, leased for some time yet, and
\* has that worker's name in it.
LEMMA OwnedRow ==
    ASSUME IInv, NEW w \in Workers, wk[w].job # NoJob
    PROVE  /\ Live(w)
           /\ wk[w].job \in Jobs
           /\ job[wk[w].job].status = "running"
           /\ job[wk[w].job].worker = w
           /\ job[wk[w].job].worker # NoWorker
           /\ job[wk[w].job].lease >= 0
           /\ wk[w].job \notin dog
<1>1. Live(w) /\ Owns(w) /\ wk[w].job \in Jobs
  BY Fields DEF IInv, ExclusiveInv, OwnersHold
<1>2. job[wk[w].job].lease >= 0
  BY <1>1, Fields, Numbers DEF IInv, ExclusiveInv, OwnersHold
<1>3. wk[w].job \notin dog
  BY <1>1, <1>2, Fields DEF IInv, ExclusiveInv, WatchdogSpares
<1>4. w # NoWorker
  BY JobQueueAssumption DEF NoWorker
<1> QED BY <1>1, <1>2, <1>3, <1>4 DEF Owns, OwnerMatches

\* A renewal in flight is for a row its worker owns or for a finished row.
LEMMA PendingRow ==
    ASSUME IInv, NEW w \in Workers, beat[w].pending
    PROVE  /\ beat[w].job \in Jobs
           /\ \/ /\ wk[w].job = beat[w].job /\ wk[w].job # NoJob
                 /\ beat[w].on
              \/ /\ job[beat[w].job].status \in Finished
                 /\ ~beat[w].on
BY Fields DEF IInv, ExclusiveInv, BeatsHold

\* The environment never runs out a lease or a stage.
LEMMA ExclusionInit == Init => ExclusiveInv
BY DEF Init, ExclusiveInv, LockUnique, Active, NoRow, NewRow, ActiveStatuses,
   Unfinished, OwnersHold, Live, IdleWorker, StagesHold, BeatsHold, NoBeat,
   WatchdogSpares, NoAdmin, NoTx

\* Steps that touch neither workers, threads, nor any row in use.
LEMMA ExclusionClients ==
    ASSUME Env, IInv, NEW c \in Clients, ClientNext(c)
    PROVE  ExclusiveInv'
<1> USE DEF IInv
<1>1. LockUnique'
  BY LockClients DEF ExclusiveInv
<1>2. UNCHANGED <<wk, beat, dog>>
  BY DEF ClientNext, CheckTrigger, LoadCancel, LoadRelease, InsertQueued,
     WriteCancel, WriteRelease
<1>3. tx[c].op \in {"none", "insert"}
  BY DEF ExclusiveInv, NoAdmin
<1>4. \A j \in Jobs : job[j].status # "none" => job'[j] = job[j]
  <2>1. CASE InsertQueued(c)
    BY <2>1 DEF InsertQueued, IsNext, Free, TypeOK
  <2> QED BY <1>3, <2>1 DEF ClientNext, CheckTrigger, LoadCancel, LoadRelease,
             WriteCancel, WriteRelease, Env
<1>5. NoAdmin'
  <2>1. \E t : tx' = [tx EXCEPT ![c] = t] /\ t.op \in {"none", "insert"}
    BY <1>3 DEF ClientNext, CheckTrigger, LoadCancel, LoadRelease, InsertQueued,
       WriteCancel, WriteRelease, NoTx, Env
  <2> QED BY <2>1 DEF NoAdmin, ExclusiveInv, TypeOK
<1>6. OwnersHold'
  <2> SUFFICES ASSUME NEW w \in Workers, wk[w].job # NoJob
               PROVE  job'[wk[w].job] = job[wk[w].job]
    BY <1>2 DEF OwnersHold, ExclusiveInv, Live, Owns, OwnerMatches
  <2> QED BY <1>4, OwnedRow
<1>7. StagesHold'
  BY <1>2, <1>4 DEF ExclusiveInv, StagesHold
<1>8. BeatsHold'
  BY <1>2, <1>4 DEF ExclusiveInv, BeatsHold, Live, Finished, Outcomes
<1>9. WatchdogSpares'
  BY <1>2, <1>4 DEF ExclusiveInv, WatchdogSpares, TypeOK
<1> QED BY <1>1, <1>5, <1>6, <1>7, <1>8, <1>9 DEF ExclusiveInv

LEMMA ExclusionClaim ==
    ASSUME Env, IInv, NEW w \in Workers, NEW j \in Jobs, Claim(w, j)
    PROVE  ExclusiveInv'
<1> USE DEF IInv
<1> DEFINE t == job[j].token + 1
<1>1. LockUnique'
  BY LockWorkers DEF ExclusiveInv, WorkerNext
<1>2. /\ wk'[w].pc = "executing" /\ wk'[w].job = j /\ wk'[w].token = t
      /\ \A v \in Workers \ {w} : wk'[v] = wk[v]
  BY DEF Claim, TypeOK, IdleWorker
<1>3. /\ beat'[w].job = j /\ beat'[w].token = t /\ ~beat'[w].pending
      /\ \A v \in Workers \ {w} : beat'[v] = beat[v]
  BY DEF Claim, TypeOK, NoBeat
<1>4. /\ job'[j].status = "running" /\ job'[j].worker = w /\ job'[j].token = t
      /\ job'[j].lease = Lease /\ job'[j].hb = 0
      /\ \A i \in Jobs \ {j} : job'[i] = job[i]
  BY DEF Claim, TypeOK, Row
<1>5. dog = {} /\ UNCHANGED <<tx, dog>>
  BY DEF Claim, Env
<1>6. \/ job[j].status = "queued"
      \/ job[j].lease < 0 /\ job[j].lease # NoLease
  BY DEF Claim, Claimable
<1>7. ASSUME NEW v \in Workers \ {w}, wk[v].job # NoJob
      PROVE  wk[v].job \in Jobs \ {j}
  BY <1>6, <1>7, OwnedRow, Fields
<1>8. ASSUME NEW v \in Workers, wk[v].pc = "stage" PROVE wk[v].stage # j
  BY <1>6, <1>8 DEF ExclusiveInv, StagesHold
<1>9. OwnersHold'
  <2> SUFFICES ASSUME NEW v \in Workers, wk'[v].job # NoJob
               PROVE  /\ Live(v)' /\ Owns(v)'
                      /\ job'[wk'[v].job].lease = Lease - job'[wk'[v].job].hb
                      /\ job'[wk'[v].job].hb <= BeatEvery
    BY DEF OwnersHold
  <2>1. CASE v = w
    BY <1>2, <1>4, <2>1, Numbers, Fields DEF Live, Owns, OwnerMatches
  <2>2. CASE v # w
    BY <1>2, <1>4, <1>7, <2>2
       DEF Owns, OwnerMatches, ExclusiveInv, OwnersHold, Live
  <2> QED BY <2>1, <2>2
<1>10. StagesHold'
  BY <1>2, <1>4, <1>8 DEF ExclusiveInv, StagesHold
<1>11. BeatsHold'
  <2> SUFFICES ASSUME NEW v \in Workers
               PROVE  /\ beat'[v].on => /\ wk'[v].job # NoJob
                                        /\ wk'[v].job = beat'[v].job
                                        /\ wk'[v].token = beat'[v].token
                      /\ beat'[v].pending /\ ~beat'[v].on =>
                            /\ beat'[v].job \in Jobs
                            /\ job'[beat'[v].job].status \in Finished
    BY DEF BeatsHold
  <2>1. CASE v = w
    BY <1>2, <1>3, <2>1, Fields
  <2>2. CASE v # w
    <3>1. beat[v].pending /\ ~beat[v].on => beat[v].job # j
      BY DEF ExclusiveInv, BeatsHold, Claim, Claimable, Finished, Outcomes
    <3> QED BY <1>2, <1>3, <1>4, <2>2, <3>1 DEF ExclusiveInv, BeatsHold
  <2> QED BY <2>1, <2>2
<1>12. WatchdogSpares' /\ NoAdmin'
  BY <1>5 DEF WatchdogSpares, NoAdmin, ExclusiveInv
<1> QED BY <1>1, <1>9, <1>10, <1>11, <1>12 DEF ExclusiveInv

LEMMA ExclusionCheckStage ==
    ASSUME Env, IInv, NEW w \in Workers, NEW l \in Locks, CheckStage(w, l)
    PROVE  ExclusiveInv'
<1> USE DEF IInv
<1>1. LockUnique'
  BY LockWorkers DEF ExclusiveInv, WorkerNext
<1>2. /\ wk'[w].pc = "stage check" /\ wk'[w].job = wk[w].job
      /\ wk'[w].token = wk[w].token
      /\ \A v \in Workers \ {w} : wk'[v] = wk[v]
      /\ UNCHANGED <<job, beat, tx, dog>>
  BY DEF CheckStage, TypeOK, WorkerState
<1>3. OwnersHold'
  <2>1. \A v \in Workers : wk'[v].job = wk[v].job /\ wk'[v].token = wk[v].token
    BY <1>2
  <2>2. \A v \in Workers : Live(v) => Live(v)'
    BY <1>2 DEF Live
  <2>3. \A v \in Workers : Owns(v) => Owns(v)'
    BY <1>2, <2>1 DEF Owns, OwnerMatches
  <2> QED BY <1>2, <2>1, <2>2, <2>3 DEF ExclusiveInv, OwnersHold
<1>4. StagesHold'
  BY <1>2 DEF ExclusiveInv, StagesHold
<1>5. BeatsHold'
  BY <1>2 DEF ExclusiveInv, BeatsHold
<1>6. WatchdogSpares' /\ NoAdmin'
  BY <1>2 DEF ExclusiveInv, WatchdogSpares, NoAdmin
<1> QED BY <1>1, <1>3, <1>4, <1>5, <1>6 DEF ExclusiveInv

LEMMA ExclusionInsertStage ==
    ASSUME Env, IInv, NEW w \in Workers, InsertStage(w)
    PROVE  ExclusiveInv'
<1> USE DEF IInv
<1>1. LockUnique'
  BY LockWorkers DEF ExclusiveInv, WorkerNext
<1> DEFINE after == [wk[w] EXCEPT !.pc = AfterStage(w), !.lock = NoLock,
                                  !.expired = TRUE]
           staged(j) == [wk[w] EXCEPT !.pc = "stage", !.stage = j, !.expired = TRUE]
<1>a. wk[w] \in WorkerState
  BY DEF TypeOK
<1>b. /\ after.job = wk[w].job /\ after.token = wk[w].token
      /\ after.pc = AfterStage(w)
  BY <1>a DEF WorkerState
<1>c. \A j : /\ staged(j).job = wk[w].job /\ staged(j).token = wk[w].token
            /\ staged(j).pc = "stage" /\ staged(j).stage = j
            /\ staged(j).lock = wk[w].lock
  BY <1>a DEF WorkerState
<1>d. /\ UNCHANGED <<beat, tx, dog>>
      /\ \/ wk' = [wk EXCEPT ![w] = after] /\ job' = job
         \/ \E j \in Jobs : /\ IsNext(j)
                            /\ wk' = [wk EXCEPT ![w] = staged(j)]
                            /\ job' = [job EXCEPT ![j] = NewRow(wk[w].lock, "running")]
  BY DEF InsertStage
<1> HIDE DEF after, staged
<1>2. /\ wk'[w].job = wk[w].job /\ wk'[w].token = wk[w].token
      /\ wk'[w].pc \in {"stage", "executing", "idle"}
      /\ wk'[w].pc = "idle" => wk[w].job = NoJob
      /\ \A v \in Workers \ {w} : wk'[v] = wk[v]
      /\ UNCHANGED <<beat, tx, dog>>
  BY <1>b, <1>c, <1>d DEF AfterStage, TypeOK
<1>3. \A j \in Jobs : job[j].status # "none" => job'[j] = job[j]
  BY <1>d DEF IsNext, Free, TypeOK
<1>4. wk'[w].pc = "stage" =>
         /\ wk'[w].stage \in Jobs
         /\ job[wk'[w].stage].status = "none"
         /\ wk'[w].lock = wk[w].lock
         /\ job'[wk'[w].stage] = NewRow(wk[w].lock, "running")
  BY <1>b, <1>c, <1>d DEF AfterStage, IsNext, Free, TypeOK
<1>5. OwnersHold'
  <2> SUFFICES ASSUME NEW v \in Workers, wk[v].job # NoJob
               PROVE  job'[wk[v].job] = job[wk[v].job] /\ Live(v)'
    BY <1>2 DEF ExclusiveInv, OwnersHold, Owns, OwnerMatches
  <2>1. job'[wk[v].job] = job[wk[v].job]
    BY <1>3, OwnedRow
  <2>2. Live(v)'
    BY <1>2, OwnedRow DEF Live
  <2> QED BY <2>1, <2>2
<1>6. StagesHold'
  <2>1. \A v \in Workers \ {w} : wk[v].pc = "stage" =>
           job[wk[v].stage].status = "running"
    BY DEF ExclusiveInv, StagesHold
  <2>2. 0 <= Timeout
    BY Numbers
  <2>3. ASSUME NEW v \in Workers, wk'[v].pc = "stage"
        PROVE  /\ wk'[v].stage \in Jobs
               /\ job'[wk'[v].stage].status = "running"
               /\ job'[wk'[v].stage].lock = wk'[v].lock
               /\ job'[wk'[v].stage].worker = NoWorker
               /\ job'[wk'[v].stage].lease = NoLease
               /\ job'[wk'[v].stage].age <= Timeout
    <3>1. CASE v = w
      BY <1>4, <2>2, <2>3, <3>1 DEF NewRow
    <3>2. CASE v # w
      BY <1>2, <1>3, <2>1, <2>3, <3>2 DEF ExclusiveInv, StagesHold
    <3> QED BY <3>1, <3>2
  <2>4. ASSUME NEW u \in Workers, NEW v \in Workers, wk'[u].pc = "stage",
               wk'[v].pc = "stage", wk'[u].stage = wk'[v].stage
        PROVE  u = v
    BY <1>2, <1>4, <2>1, <2>4 DEF ExclusiveInv, StagesHold
  <2> QED BY <2>3, <2>4 DEF StagesHold
<1>7. BeatsHold'
  BY <1>2, <1>3 DEF ExclusiveInv, BeatsHold, Finished, Outcomes
<1>8. WatchdogSpares'
  BY <1>2, <1>3, <1>4 DEF ExclusiveInv, WatchdogSpares, TypeOK
<1>9. NoAdmin'
  BY <1>2 DEF ExclusiveInv, NoAdmin
<1> QED BY <1>1, <1>5, <1>6, <1>7, <1>8, <1>9 DEF ExclusiveInv

LEMMA ExclusionFinishStage ==
    ASSUME Env, IInv, NEW w \in Workers, NEW o \in Outcomes, FinishStage(w, o)
    PROVE  ExclusiveInv'
<1> USE DEF IInv
<1>1. LockUnique'
  BY LockWorkers DEF ExclusiveInv, WorkerNext
<1> DEFINE s == wk[w].stage
<1>2. /\ wk[w].pc = "stage" /\ s \in Jobs /\ job[s].worker = NoWorker
      /\ job[s].status = "running"
  BY DEF FinishStage, ExclusiveInv, StagesHold
<1>3. /\ wk'[w].job = wk[w].job /\ wk'[w].token = wk[w].token
      /\ wk'[w].pc = AfterStage(w)
      /\ \A v \in Workers \ {w} : wk'[v] = wk[v]
      /\ UNCHANGED <<beat, tx, dog>>
  <2>1. wk[w] \in WorkerState
    BY DEF TypeOK
  <2> QED BY <2>1 DEF FinishStage, TypeOK, WorkerState
<1>4. \A j \in Jobs \ {s} : job'[j] = job[j]
  BY DEF FinishStage, TypeOK
<1>5. OwnersHold'
  <2>1. \A v \in Workers : wk'[v].job = wk[v].job /\ wk'[v].token = wk[v].token
    BY <1>3
  <2>2. \A v \in Workers : wk[v].job # NoJob => job'[wk[v].job] = job[wk[v].job]
    BY <1>2, <1>4, OwnedRow
  <2>3. \A v \in Workers : wk[v].job # NoJob => Live(v)'
    BY <1>3, OwnedRow DEF Live, AfterStage
  <2> QED BY <2>1, <2>2, <2>3 DEF ExclusiveInv, OwnersHold, Owns, OwnerMatches
<1>6. StagesHold'
  <2>1. wk'[w].pc # "stage"
    BY <1>3 DEF AfterStage
  <2>2. \A v \in Workers \ {w} : wk[v].pc = "stage" => wk[v].stage # s
    BY <1>2 DEF ExclusiveInv, StagesHold
  <2> QED BY <1>3, <1>4, <2>1, <2>2 DEF ExclusiveInv, StagesHold
<1>7. BeatsHold'
  BY <1>2, <1>3, <1>4 DEF ExclusiveInv, BeatsHold, Finished, Outcomes
<1>8. WatchdogSpares'
  <2>1. s \notin dog
    BY <1>2 DEF ExclusiveInv, WatchdogSpares
  <2>2. wk'[w].pc # "stage"
    BY <1>3 DEF AfterStage
  <2> QED BY <1>3, <1>4, <2>1, <2>2 DEF ExclusiveInv, WatchdogSpares, TypeOK
<1>9. NoAdmin'
  BY <1>3 DEF ExclusiveInv, NoAdmin
<1> QED BY <1>1, <1>5, <1>6, <1>7, <1>8, <1>9 DEF ExclusiveInv

\* A payload ends: the check passes, since the worker owns its row.
LEMMA ExclusionEndPayload ==
    ASSUME Env, IInv, NEW w \in Workers, NEW o \in Outcomes,
           NEW commits \in BOOLEAN, EndPayload(w, o, commits)
    PROVE  ExclusiveInv'
<1> USE DEF IInv
<1>1. LockUnique'
  BY LockWorkers DEF ExclusiveInv, WorkerNext
<1>2. UNCHANGED <<job, tx, dog>>
  BY DEF EndPayload
<1>3. \A v \in Workers \ {w} : wk'[v] = wk[v] /\ beat'[v] = beat[v]
  BY DEF EndPayload, StopBeat, TypeOK
<1> DEFINE done == [wk[w] EXCEPT !.pc = "completing", !.outcome = o]
<1>a. wk[w] \in WorkerState /\ beat[w] \in BeatState
  BY DEF TypeOK
<1>b. /\ done.job = wk[w].job /\ done.token = wk[w].token
      /\ done.pc = "completing"
  BY <1>a DEF WorkerState
<1>c. \/ wk'[w] = done /\ beat' = beat
      \/ wk'[w] = IdleWorker /\ ~Owns(w)
  BY DEF EndPayload, TypeOK
<1> HIDE DEF done
<1>4. CASE wk[w].job # NoJob
  <2>1. Owns(w)
    BY <1>4 DEF ExclusiveInv, OwnersHold
  <2>2. /\ wk'[w].job = wk[w].job /\ wk'[w].token = wk[w].token
        /\ wk'[w].pc = "completing" /\ beat' = beat
    BY <1>b, <1>c, <2>1
  <2>3. OwnersHold'
    <3>1. \A v \in Workers : wk'[v].job = wk[v].job /\ wk'[v].token = wk[v].token
      BY <1>3, <2>2
    <3>2. \A v \in Workers : Live(v) => Live(v)'
      BY <1>3, <2>2 DEF Live
    <3> QED BY <1>2, <3>1, <3>2 DEF ExclusiveInv, OwnersHold, Owns, OwnerMatches
  <2>4. StagesHold' /\ WatchdogSpares'
    BY <1>2, <1>3, <2>2 DEF ExclusiveInv, StagesHold, WatchdogSpares
  <2>5. BeatsHold'
    BY <1>2, <1>3, <2>2 DEF ExclusiveInv, BeatsHold
  <2> QED BY <1>1, <1>2, <2>3, <2>4, <2>5 DEF ExclusiveInv, NoAdmin
<1>5. CASE wk[w].job = NoJob
  <2>1. ~beat[w].on
    BY <1>5 DEF ExclusiveInv, BeatsHold
  <2>2. /\ wk'[w].job = NoJob /\ wk'[w].pc # "stage"
        /\ ~beat'[w].on /\ beat'[w].job = beat[w].job
        /\ beat'[w].pending = beat[w].pending
    <3>1. ~beat'[w].on /\ beat'[w].job = beat[w].job
          /\ beat'[w].pending = beat[w].pending
      BY <1>a, <2>1 DEF EndPayload, StopBeat, TypeOK, BeatState
    <3>2. wk'[w].job = NoJob /\ wk'[w].pc # "stage"
      BY <1>5, <1>b, <1>c DEF IdleWorker
    <3> QED BY <3>1, <3>2
  <2>3. OwnersHold'
    BY <1>2, <1>3, <2>2 DEF ExclusiveInv, OwnersHold, Owns, OwnerMatches, Live
  <2>4. StagesHold' /\ WatchdogSpares'
    BY <1>2, <1>3, <2>2 DEF ExclusiveInv, StagesHold, WatchdogSpares
  <2>5. BeatsHold'
    BY <1>2, <1>3, <2>1, <2>2 DEF ExclusiveInv, BeatsHold
  <2> QED BY <1>1, <1>2, <2>3, <2>4, <2>5 DEF ExclusiveInv, NoAdmin
<1> QED BY <1>4, <1>5

LEMMA ExclusionWriteComplete ==
    ASSUME Env, IInv, NEW w \in Workers, WriteComplete(w)
    PROVE  ExclusiveInv'
<1> USE DEF IInv
<1>1. LockUnique'
  BY LockWorkers DEF ExclusiveInv, WorkerNext
<1> DEFINE j == wk[w].job
<1>2. /\ wk'[w] = IdleWorker
      /\ \A v \in Workers \ {w} : wk'[v] = wk[v] /\ beat'[v] = beat[v]
      /\ UNCHANGED <<tx, dog>>
  BY DEF WriteComplete, StopBeat, TypeOK
<1>3. ~beat'[w].on /\ beat'[w].job = beat[w].job /\ beat'[w].pending = beat[w].pending
  <2>1. beat[w] \in BeatState
    BY DEF TypeOK
  <2> QED BY <2>1 DEF WriteComplete, StopBeat, TypeOK, BeatState
<1>4. /\ \A i \in Jobs \ {j} : job'[i] = job[i]
      /\ j \in Jobs => job'[j].status \in Finished
  <2>1. wk[w].outcome \in Finished
    BY Fields DEF Finished
  <2> QED BY <2>1 DEF WriteComplete, TypeOK, Row
<1>5. j # NoJob => j \notin dog /\ job[j].worker = w /\ job[j].worker # NoWorker
  BY OwnedRow
<1>6. OwnersHold'
  <2>1. \A v \in Workers \ {w} : wk[v].job # NoJob => job'[wk[v].job] = job[wk[v].job]
    BY <1>4, <1>5, OwnedRow, Fields
  <2>2. wk'[w].job = NoJob
    BY <1>2 DEF IdleWorker
  <2> QED BY <1>2, <2>1, <2>2 DEF ExclusiveInv, OwnersHold, Owns, OwnerMatches, Live
<1>7. StagesHold'
  <2>1. \A v \in Workers : wk[v].pc = "stage" => wk[v].stage # j
    BY <1>5, Fields DEF ExclusiveInv, StagesHold
  <2>2. wk'[w].pc # "stage"
    BY <1>2 DEF IdleWorker
  <2> QED BY <1>2, <1>4, <2>1, <2>2 DEF ExclusiveInv, StagesHold
<1>8. BeatsHold'
  <2>1. ASSUME NEW v \in Workers, beat[v].pending, ~beat'[v].on
        PROVE  beat[v].job \in Jobs /\ job'[beat[v].job].status \in Finished
    <3>1. CASE job[beat[v].job].status \in Finished
      BY <1>4, <2>1, <3>1, PendingRow
    <3>2. CASE beat[v].on
      <4>1. v = w /\ beat[v].job = j
        BY <1>2, <2>1, <3>2 DEF ExclusiveInv, BeatsHold
      <4> QED BY <1>4, <2>1, <4>1, PendingRow
    <3> QED BY <2>1, <3>1, <3>2, PendingRow
  <2>2. \A v \in Workers : /\ beat'[v].job = beat[v].job
                           /\ beat'[v].pending = beat[v].pending
    BY <1>2, <1>3
  <2>3. \A v \in Workers : beat'[v].on =>
           v # w /\ beat[v].on /\ wk'[v] = wk[v] /\ beat'[v] = beat[v]
    BY <1>2, <1>3
  <2> QED BY <2>1, <2>2, <2>3 DEF ExclusiveInv, BeatsHold
<1>9. WatchdogSpares'
  <2>1. j \notin dog
    BY <1>5, Fields DEF TypeOK
  <2>2. wk'[w].pc # "stage"
    BY <1>2 DEF IdleWorker
  <2> QED BY <1>2, <1>4, <2>1, <2>2 DEF ExclusiveInv, WatchdogSpares, TypeOK
<1>10. NoAdmin'
  BY <1>2 DEF ExclusiveInv, NoAdmin
<1> QED BY <1>1, <1>6, <1>7, <1>8, <1>9, <1>10 DEF ExclusiveInv

LEMMA ExclusionCrash ==
    ASSUME Env, IInv, NEW w \in Workers, Crash(w)
    PROVE  ExclusiveInv'
<1> USE DEF IInv
<1>1. LockUnique'
  BY LockWorkers DEF ExclusiveInv, WorkerNext
<1>2. /\ wk'[w].job = NoJob /\ wk'[w].pc = "dead"
      /\ \A v \in Workers \ {w} : wk'[v] = wk[v] /\ beat'[v] = beat[v]
      /\ ~beat'[w].on /\ ~beat'[w].pending
      /\ UNCHANGED <<job, tx, dog>>
  BY DEF Crash, TypeOK, IdleWorker, NoBeat
<1>3. OwnersHold'
  BY <1>2 DEF ExclusiveInv, OwnersHold, Owns, OwnerMatches, Live
<1>4. StagesHold' /\ WatchdogSpares' /\ NoAdmin'
  BY <1>2 DEF ExclusiveInv, StagesHold, WatchdogSpares, NoAdmin
<1>5. BeatsHold'
  BY <1>2 DEF ExclusiveInv, BeatsHold
<1> QED BY <1>1, <1>3, <1>4, <1>5 DEF ExclusiveInv

LEMMA ExclusionBeat ==
    ASSUME Env, IInv, NEW w \in Workers, BeatNext(w)
    PROVE  ExclusiveInv'
<1> USE DEF IInv
<1>1. LockUnique'
  BY LockWorkers DEF ExclusiveInv
<1>2. UNCHANGED <<wk, tx, dog>>
  BY DEF BeatNext, LoadBeat, WriteBeat
<1>3. /\ beat'[w].on = beat[w].on /\ beat'[w].job = beat[w].job
      /\ beat'[w].token = beat[w].token
      /\ \A v \in Workers \ {w} : beat'[v] = beat[v]
  <2>1. beat[w] \in BeatState
    BY DEF TypeOK
  <2> QED BY <2>1 DEF BeatNext, LoadBeat, WriteBeat, TypeOK, BeatState
<1>4. CASE LoadBeat(w)
  <2>1. beat[w].on /\ job' = job
    BY <1>4 DEF LoadBeat
  <2>2. OwnersHold' /\ StagesHold' /\ WatchdogSpares' /\ NoAdmin'
    BY <1>2, <2>1 DEF ExclusiveInv, OwnersHold, Live, Owns, OwnerMatches,
       StagesHold, WatchdogSpares, NoAdmin
  <2>3. BeatsHold'
    BY <1>2, <1>3, <2>1 DEF ExclusiveInv, BeatsHold
  <2> QED BY <1>1, <2>2, <2>3 DEF ExclusiveInv
<1>5. CASE WriteBeat(w)
  <2> DEFINE j == beat[w].job
  <2>1. j \in Jobs /\ beat[w].pending
    BY <1>5, PendingRow DEF WriteBeat
  <2>2. \/ job[j].worker # NoWorker /\ j \notin dog
        \/ job[j].status \in Finished
    BY <2>1, PendingRow, OwnedRow
  <2>3. \A i \in Jobs \ {j} : job'[i] = job[i]
    BY <1>5 DEF WriteBeat, TypeOK
  <2>4. /\ job'[j].status = job[j].status /\ job'[j].worker = job[j].worker
        /\ job'[j].token = job[j].token
        /\ job'[j].lease = Lease /\ job'[j].hb = 0
    BY <1>5, <2>1 DEF WriteBeat, TypeOK, Row
  <2>5. OwnersHold'
    <3>1. \A v \in Workers : Owns(v) => Owns(v)'
      BY <1>2, <2>3, <2>4, Fields DEF Owns, OwnerMatches
    <3>2. \A v \in Workers : Live(v) => Live(v)'
      BY <1>2 DEF Live
    <3>3. \A v \in Workers : wk[v].job # NoJob =>
             /\ job'[wk[v].job].lease = Lease - job'[wk[v].job].hb
             /\ job'[wk[v].job].hb <= BeatEvery
      BY <2>3, <2>4, Fields, Numbers DEF ExclusiveInv, OwnersHold
    <3> QED BY <1>2, <3>1, <3>2, <3>3 DEF ExclusiveInv, OwnersHold
  <2>6. StagesHold'
    <3>1. \A v \in Workers : wk[v].pc = "stage" => wk[v].stage # j
      BY <2>2 DEF ExclusiveInv, StagesHold, Finished, Outcomes
    <3> QED BY <1>2, <2>3, <3>1 DEF ExclusiveInv, StagesHold
  <2>7. BeatsHold'
    <3>1. \A i \in Jobs : job'[i].status = job[i].status
      BY <2>3, <2>4
    <3>2. beat'[w].pending => beat[w].pending
      BY <2>1
    <3> QED BY <1>2, <1>3, <3>1, <3>2 DEF ExclusiveInv, BeatsHold
  <2>8. WatchdogSpares'
    <3>1. j \notin dog
      BY <2>2 DEF ExclusiveInv, WatchdogSpares, Finished, Outcomes
    <3> QED BY <1>2, <2>3, <3>1 DEF ExclusiveInv, WatchdogSpares, TypeOK
  <2> QED BY <1>1, <1>2, <2>5, <2>6, <2>7, <2>8 DEF ExclusiveInv, NoAdmin
<1> QED BY <1>4, <1>5 DEF BeatNext

LEMMA ExclusionWatchdog ==
    ASSUME Env, IInv, LoadWatchdog \/ WriteWatchdog
    PROVE  ExclusiveInv'
<1> USE DEF IInv
<1>1. LockUnique'
  BY LockWatchdogTick DEF ExclusiveInv
<1>2. UNCHANGED <<wk, beat, tx>>
  BY DEF LoadWatchdog, WriteWatchdog
<1>3. CASE LoadWatchdog
  <2>1. job' = job /\ dog' = TimedOut
    BY <1>3 DEF LoadWatchdog
  <2>2. OwnersHold' /\ StagesHold' /\ BeatsHold' /\ NoAdmin'
    BY <1>2, <2>1 DEF ExclusiveInv, OwnersHold, Live, Owns, OwnerMatches,
       StagesHold, BeatsHold, NoAdmin
  <2>3. WatchdogSpares'
    <3>1. ASSUME NEW j \in TimedOut
          PROVE  job[j].status = "running" /\ job[j].lease < 0
      <4>1. /\ j \in Jobs /\ job[j].status = "running"
            /\ job[j].lease \notin 0..Lease /\ job[j].lease \in LeaseValues
        BY DEF TimedOut, TypeOK, Row
      <4> QED BY <4>1, Numbers DEF LeaseValues
    <3>2. ASSUME NEW j \in TimedOut, NEW v \in Workers, wk[v].pc = "stage"
          PROVE  wk[v].stage # j
      <4>1. j \in Jobs /\ job[j].age > Timeout
        BY DEF TimedOut
      <4>2. wk[v].stage \in Jobs /\ job[wk[v].stage].age <= Timeout
        BY <3>2 DEF ExclusiveInv, StagesHold
      <4> QED BY <4>1, <4>2, Fields, Numbers
    <3> QED BY <1>2, <2>1, <3>1, <3>2 DEF WatchdogSpares
  <2> QED BY <1>1, <2>2, <2>3 DEF ExclusiveInv
<1>4. CASE WriteWatchdog
  <2>1. /\ dog' = {}
        /\ \A j \in Jobs \ dog : job'[j] = job[j]
    BY <1>4 DEF WriteWatchdog
  <2>2. OwnersHold'
    <3>1. \A v \in Workers : wk[v].job # NoJob => job'[wk[v].job] = job[wk[v].job]
      BY <2>1, OwnedRow
    <3> QED BY <1>2, <3>1 DEF ExclusiveInv, OwnersHold, Live, Owns, OwnerMatches
  <2>3. StagesHold'
    BY <1>2, <2>1 DEF ExclusiveInv, StagesHold, WatchdogSpares
  <2>4. BeatsHold'
    BY <1>2, <2>1 DEF ExclusiveInv, BeatsHold, WatchdogSpares, Finished, Outcomes
  <2>5. WatchdogSpares' /\ NoAdmin'
    BY <1>2, <2>1 DEF ExclusiveInv, WatchdogSpares, NoAdmin
  <2> QED BY <1>1, <2>2, <2>3, <2>4, <2>5 DEF ExclusiveInv
<1> QED BY <1>3, <1>4

\* A tick ages owned rows by one each way, and no stage past the timeout.
LEMMA ExclusionTick ==
    ASSUME Env, IInv, Tick
    PROVE  ExclusiveInv'
<1> USE DEF IInv
<1>1. LockUnique'
  BY LockWatchdogTick DEF ExclusiveInv
<1>2. UNCHANGED <<wk, beat, tx, dog>> /\ dog = {}
  BY DEF Tick, NothingPending
<1>3. \A w \in Workers : ~beat[w].pending
  BY DEF Tick, NothingPending
<1>4. \A j \in Jobs : /\ job'[j].status = job[j].status /\ job'[j].lock = job[j].lock
                      /\ job'[j].worker = job[j].worker /\ job'[j].token = job[j].token
  <2>1. ASSUME NEW r \in Row
        PROVE  /\ Aged(r).status = r.status /\ Aged(r).lock = r.lock
               /\ Aged(r).worker = r.worker /\ Aged(r).token = r.token
    BY DEF Aged, Row
  <2> QED BY <2>1 DEF Tick, TypeOK
<1>5. OwnersHold'
  <2>1. ASSUME NEW w \in Workers, wk[w].job # NoJob
        PROVE  /\ job'[wk[w].job].lease = Lease - job'[wk[w].job].hb
               /\ job'[wk[w].job].hb <= BeatEvery
    <3> DEFINE r == job[wk[w].job]
    <3>1. /\ r \in Row /\ wk[w].job \in Jobs /\ Live(w) /\ Owns(w)
          /\ r.status = "running" /\ r.lease >= 0
          /\ r.lease = Lease - r.hb
      BY <2>1, OwnedRow DEF ExclusiveInv, OwnersHold, TypeOK
    <3>2. r.hb < BeatEvery
      BY <3>1 DEF Tick, Timely, Env
    <3>3. r.hb < HbMax /\ r.hb \in Nat
      BY <3>1, <3>2, Fields, Numbers
    <3>4. Aged(r).lease = r.lease - 1 /\ Aged(r).hb = r.hb + 1
      BY <3>1, <3>3 DEF Aged, Row
    <3>5. job'[wk[w].job] = Aged(r)
      BY <3>1 DEF Tick
    <3> HIDE DEF r
    <3> QED BY <3>1, <3>2, <3>3, <3>4, <3>5, Numbers
  <2>2. \A w \in Workers : wk[w].job # NoJob => wk[w].job \in Jobs
    BY OwnedRow
  <2>3. \A w \in Workers : Live(w)' <=> Live(w)
    BY <1>2 DEF Live
  <2>4. \A w \in Workers : wk[w].job # NoJob => Owns(w)'
    BY <1>2, <1>4, <2>2 DEF ExclusiveInv, OwnersHold, Owns, OwnerMatches
  <2> QED BY <1>2, <2>1, <2>3, <2>4 DEF ExclusiveInv, OwnersHold
<1>6. StagesHold'
  <2>1. ASSUME NEW w \in Workers, wk[w].pc = "stage"
        PROVE  /\ job'[wk[w].stage].lease = NoLease
               /\ job'[wk[w].stage].age <= Timeout
    <3> DEFINE r == job[wk[w].stage]
    <3>1. /\ r \in Row /\ wk[w].stage \in Jobs
          /\ r.lease = NoLease /\ r.status = "running"
      BY <2>1 DEF ExclusiveInv, StagesHold, TypeOK
    <3>2. r.age < Timeout /\ r.age \in Nat
      BY <2>1, <3>1, Fields DEF Tick, Timely, Env
    <3>3. Aged(r).lease = NoLease /\ Aged(r).age = r.age + 1
      BY <3>1, <3>2, Numbers DEF Aged, Row
    <3>4. job'[wk[w].stage] = Aged(r)
      BY <3>1 DEF Tick
    <3> HIDE DEF r
    <3> QED BY <3>2, <3>3, <3>4, Numbers
  <2> QED BY <1>2, <1>4, <2>1 DEF ExclusiveInv, StagesHold
<1>7. BeatsHold'
  BY <1>2, <1>3 DEF ExclusiveInv, BeatsHold
<1>8. WatchdogSpares' /\ NoAdmin'
  BY <1>2 DEF ExclusiveInv, WatchdogSpares, NoAdmin
<1> QED BY <1>1, <1>5, <1>6, <1>7, <1>8 DEF ExclusiveInv

-----------------------------------------------------------------------------
\* Two executions under one lock key would be of two active rows with that key.
LEMMA InvExclusive == IInv => Exclusive
<1> SUFFICES ASSUME IInv, NEW v \in Workers, NEW w \in Workers, v # w,
                    NEW l, l \in LocksHeld(v), l \in LocksHeld(w)
             PROVE  FALSE
  BY DEF Exclusive
<1> USE DEF IInv
<1> DEFINE Runs(u, j) ==
             \/ wk[u].job # NoJob /\ j = wk[u].job
             \/ wk[u].pc = "stage" /\ j = wk[u].stage
<1>1. ASSUME NEW u \in Workers, l \in LocksHeld(u)
      PROVE  \E j \in Jobs : Runs(u, j) /\ job[j].lock = l
  <2>1. \/ wk[u].job # NoJob /\ l = job[wk[u].job].lock
        \/ wk[u].pc = "stage" /\ l = wk[u].lock
    BY <1>1 DEF LocksHeld
  <2>2. CASE wk[u].job # NoJob /\ l = job[wk[u].job].lock
    BY <2>2, OwnedRow
  <2>3. CASE wk[u].pc = "stage" /\ l = wk[u].lock
    <3>1. wk[u].stage \in Jobs /\ job[wk[u].stage].lock = l
      BY <2>3 DEF ExclusiveInv, StagesHold
    <3> QED BY <2>3, <3>1
  <2> QED BY <2>1, <2>2, <2>3
<1>2. ASSUME NEW u \in Workers, NEW j \in Jobs, Runs(u, j)
      PROVE  Active(j)
  BY <1>2, OwnedRow DEF Active, ActiveStatuses, Unfinished, ExclusiveInv, StagesHold
<1>3. PICK i \in Jobs : Runs(v, i) /\ job[i].lock = l
  BY <1>1
<1>4. PICK j \in Jobs : Runs(w, j) /\ job[j].lock = l
  BY <1>1
<1>5. i = j
  BY <1>2, <1>3, <1>4 DEF ExclusiveInv, LockUnique
<1> QED BY <1>3, <1>4, <1>5, OwnedRow DEF ExclusiveInv, StagesHold

LEMMA ExclusionStep == Env /\ IInv /\ [Next]_vars => IInv'
<1> SUFFICES ASSUME Env, IInv, [Next]_vars PROVE IInv'
  OBVIOUS
<1>1. TypeOK'
  BY TypeStep DEF IInv
<1>2. CASE UNCHANGED vars
  BY <1>1, <1>2 DEF vars, IInv, ExclusiveInv, LockUnique, Active, OwnersHold, Live,
     Owns, OwnerMatches, StagesHold, BeatsHold, WatchdogSpares, NoAdmin
<1>3. ASSUME NEW w \in Workers, WorkerNext(w) PROVE ExclusiveInv'
  BY <1>3, ExclusionClaim, ExclusionCheckStage, ExclusionInsertStage,
     ExclusionFinishStage, ExclusionEndPayload, ExclusionWriteComplete,
     ExclusionCrash DEF WorkerNext
<1>4. CASE Next
  BY <1>1, <1>3, <1>4, ExclusionClients, ExclusionBeat, ExclusionWatchdog,
     ExclusionTick DEF Next, IInv
<1> QED BY <1>2, <1>4

\* No two processes ever execute a job or a pipeline stage under the same lock key,
\* with crashes, takeovers and late heartbeats, when heartbeats are on time, stages
\* end within the timeout, the watchdog is not overtaken and admins keep out.
THEOREM ExclusiveExecution == ASSUME Env PROVE Spec => []Exclusive
<1>1. Init => IInv
  BY TypeInit, ExclusionInit DEF IInv
<1>2. IInv /\ [Next]_vars => IInv'
  BY ExclusionStep
<1>3. IInv => Exclusive
  BY InvExclusive
<1> QED BY <1>1, <1>2, <1>3, PTL DEF Spec
=============================================================================
