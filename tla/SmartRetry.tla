----------------------------- MODULE SmartRetry -----------------------------
(***************************************************************************)
(* The nightly retries of failed 13F jobs (smart_retry_failed_jobs): which *)
(* targets the failed runs name, which of them are run again, and when the *)
(* attempts end. How a run is executed is JobQueue's.                      *)
(***************************************************************************)
EXTENDS Integers, Sequences, FiniteSets, SequencesExt

CONSTANTS
    Accessions,  \* lock keys of ingest_accession jobs
    Enrichments, \* lock keys of enrich_metadata jobs
    Checks,      \* lock keys of quality_check jobs
    Parents,     \* lock keys of pipelines and holdings jobs, which name targets
    Schedulers,  \* processes whose scheduler runs the retries
    MaxAttempts, \* MAX_SMART_RETRY_ATTEMPTS
    MaxOthers,   \* bound: runs that admins, pipelines and syncs trigger
    MaxFollowed, \* bound: retries of one key that are followed
    None

Targets == Accessions \cup Enrichments \cup Checks

Keys == Targets \cup Parents

ASSUME SmartRetryAssumption ==
    /\ MaxAttempts \in Nat \ {0} /\ MaxOthers \in Nat /\ MaxFollowed \in Nat
    /\ IsFiniteSet(Schedulers)
    /\ Parents \cap Targets = {} /\ Checks \cap (Accessions \cup Enrichments) = {}
    /\ None \notin Keys

VARIABLES
    runs,  \* job_runs, by created_at
    ended, \* the failed runs, by finished_at
    aged,  \* how many of those are at least a day old
    pass   \* what each scheduler is doing

vars == <<runs, ended, aged, pass>>

\* whole: the run's own input is all it takes to run it again. retry: its
\* trigger_source is smart_retry. targets: what its failure names. failed: also
\* partial_success.
Run == [key : Keys, whole : BOOLEAN, retry : BOOLEAN, targets : SUBSET Targets,
        status : {"active", "succeeded", "failed", "canceled"}]

\* left: the jobs still to be looked at. chosen: the target to be triggered.
Pass == [at : {"idle", "looking"}, left : Seq(Nat), seen : SUBSET Targets,
         chosen : {None} \cup [key : Targets, whole : BOOLEAN]]

TypeOK ==
    /\ runs \in Seq(Run)
    /\ ended \in Seq(DOMAIN runs) /\ aged \in 0..Len(ended)
    /\ pass \in [Schedulers -> Pass]

Idle == [at |-> "idle", left |-> <<>>, seen |-> {}, chosen |-> None]

Init ==
    /\ runs = <<>> /\ ended = <<>> /\ aged = 0
    /\ pass = [p \in Schedulers |-> Idle]

-----------------------------------------------------------------------------
(* Runs come and go.                                                        *)

Of(k) == {i \in DOMAIN runs : runs[i].key = k}

Active(k) == \E i \in Of(k) : runs[i].status = "active"

NewRun(k, whole, retry) ==
    [key |-> k, whole |-> whole, retry |-> retry, targets |-> {}, status |-> "active"]

\* A daily sync names everything a run needs, an admin the accession alone.
Inputs(k) == CASE k \in Accessions -> BOOLEAN
               [] k \in Enrichments -> {TRUE}
               [] OTHER -> {FALSE}

TriggerOther(k, whole) ==
    /\ Cardinality({i \in DOMAIN runs : ~runs[i].retry}) < MaxOthers
    /\ ~Active(k) /\ whole \in Inputs(k)
    /\ runs' = Append(runs, NewRun(k, whole, FALSE))
    /\ UNCHANGED <<ended, aged, pass>>

Close(i, status) ==
    /\ runs[i].status = "active"
    /\ runs' = [runs EXCEPT ![i].status = status]
    /\ UNCHANGED <<ended, aged, pass>>

\* Mutant: any stage that failed is retried, not only SMART_RETRY_AUTO_JOB_TYPES.
NamedWithStages(i) ==
    CASE runs[i].key \in Parents -> SUBSET Keys
      [] runs[i].whole -> {{runs[i].key}}
      [] OTHER -> {{}}

\* _job_retry_targets. A parent names the stages and accessions that failed in
\* it, or none when it dies; a run with its whole input names itself.
NamedBy(i) ==
    CASE runs[i].key \in Parents -> SUBSET Targets
      [] runs[i].whole -> {{runs[i].key}}
      [] OTHER -> {{}}

Fail(i, named) ==
    /\ runs[i].status = "active"
    /\ runs' = [runs EXCEPT ![i].status = "failed", ![i].targets = named]
    /\ ended' = Append(ended, i)
    /\ UNCHANGED <<aged, pass>>

\* A day has gone by since the next run ended.
GrowOld ==
    /\ aged < Len(ended)
    /\ aged' = aged + 1
    /\ UNCHANGED <<runs, ended, pass>>

-----------------------------------------------------------------------------
(* The nightly pass.                                                        *)

Newer(j, k) == {i \in Of(k) : i > j}

Attempts(j, k) == Cardinality({i \in Newer(j, k) : runs[i].retry})

\* Mutant: one attempt too many.
SpentAfter(j, k) == Attempts(j, k) > MaxAttempts

Spent(j, k) == Attempts(j, k) >= MaxAttempts

Handled(j, k) == \E i \in Newer(j, k) : runs[i].status \in {"active", "succeeded"}

Followed(k) == Cardinality({i \in Of(k) : runs[i].retry}) < MaxFollowed

Due(j, k) == ~Spent(j, k) /\ ~Handled(j, k) /\ Followed(k)

\* Mutant: the oldest failures first.
OldestFirst == SubSeq(ended, 1, aged)

\* Failed jobs that are a day old, the last to end first.
Candidates == Reverse(SubSeq(ended, 1, aged))

\* What the retry is given: the run's own input, or what its parent knew.
Inherits(j, k) == k \in Enrichments \/ (k \in Accessions /\ runs[j].whole)

Begin(p) ==
    /\ pass[p].at = "idle"
    /\ pass' = [pass EXCEPT ![p] = [Idle EXCEPT !.at = "looking", !.left = Candidates]]
    /\ UNCHANGED <<runs, ended, aged>>

\* The next target of the job at hand: no later job is asked about its key.
Look(p, k) ==
    LET j == Head(pass[p].left)
    IN  /\ pass[p].at = "looking" /\ pass[p].chosen = None /\ pass[p].left # <<>>
        /\ k \in runs[j].targets \ pass[p].seen
        /\ pass' = [pass EXCEPT ![p].seen = @ \cup {k},
                                ![p].chosen = IF Due(j, k)
                                              THEN [key |-> k, whole |-> Inherits(j, k)]
                                              ELSE None]
        /\ UNCHANGED <<runs, ended, aged>>

NextJob(p) ==
    /\ pass[p].at = "looking" /\ pass[p].chosen = None /\ pass[p].left # <<>>
    /\ runs[Head(pass[p].left)].targets \subseteq pass[p].seen
    /\ pass' = [pass EXCEPT ![p].left = Tail(@)]
    /\ UNCHANGED <<runs, ended, aged>>

Done(p) ==
    /\ pass[p].at = "looking" /\ pass[p].chosen = None /\ pass[p].left = <<>>
    /\ pass' = [pass EXCEPT ![p] = Idle]
    /\ UNCHANGED <<runs, ended, aged>>

\* trigger_job, for which another active run is a conflict.
Trigger(p) ==
    LET c == pass[p].chosen
    IN  /\ c # None
        /\ runs' = IF Active(c.key) THEN runs
                   ELSE Append(runs, NewRun(c.key, c.whole, TRUE))
        /\ pass' = [pass EXCEPT ![p].chosen = None]
        /\ UNCHANGED <<ended, aged>>

Retries(p) == Begin(p) \/ (\E k \in Targets : Look(p, k)) \/ NextJob(p) \/ Done(p) \/ Trigger(p)

End(i) ==
    \/ Close(i, "succeeded") \/ Close(i, "canceled")
    \/ \E named \in NamedBy(i) : Fail(i, named)

OthersTrigger == \E k \in Keys, whole \in BOOLEAN : TriggerOther(k, whole)

Proceed ==
    \/ \E i \in DOMAIN runs : End(i)
    \/ GrowOld
    \/ \E p \in Schedulers : Retries(p)

Next == OthersTrigger \/ Proceed

\* Days go by, runs end (Drains of JobQueue), and schedulers run their passes.
Fairness ==
    /\ WF_vars(GrowOld) /\ WF_vars(\E i \in DOMAIN runs : End(i))
    /\ \A p \in Schedulers : WF_vars(Retries(p))

Spec == Init /\ [][Next]_vars /\ Fairness

-----------------------------------------------------------------------------
Failures(k) == {j \in DOMAIN runs : runs[j].status = "failed" /\ k \in runs[j].targets}

\* How often k has been tried again since something else than a retry failed.
Tries(k) ==
    LET news == {j \in Failures(k) : ~runs[j].retry}
    IN  IF news = {} THEN 0 ELSE Attempts(CHOOSE j \in news : \A i \in news : i <= j, k)

(* A target that only its parents name (a quality check, an accession known  *)
(* by its number) is tried MAX_SMART_RETRY_ATTEMPTS times after the last run  *)
(* that named it, and once more for each further scheduler that has chosen it *)
(* at the same time.                                                          *)
NamedEnds ==
    \A k \in Targets : (\E i \in Of(k) : runs[i].whole)
                        \/ Tries(k) <= MaxAttempts + Cardinality(Schedulers) - 1

(* "The target hasn't exceeded MAX_SMART_RETRY_ATTEMPTS prior smart retries"; *)
(* "Guard against retrying indefinitely for persistently-failing accessions." *)
RetriesEnd == \A k \in Targets : Tries(k) <= MaxAttempts

\* The last failure to end that names k has not been dealt with.
Owed(k) ==
    /\ \E n \in DOMAIN ended :
         /\ k \in runs[ended[n]].targets
         /\ \A m \in n + 1..Len(ended) : k \notin runs[ended[m]].targets
         /\ Due(ended[n], k)

(* A target is tried again, or no longer in need of it: an older failure      *)
(* never keeps a scheduler from the one that ended last, however many jobs    *)
(* name the same target.                                                      *)
OwedIsTried == \A k \in Targets : Owed(k) ~> ~Owed(k)
=============================================================================
