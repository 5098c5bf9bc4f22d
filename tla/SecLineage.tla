----------------------------- MODULE SecLineage -----------------------------
(***************************************************************************)
(* The SEC filings of one stock: the operations that fetch and parse them, *)
(* the transactions that later make an operation available, and the        *)
(* publications of what was known at a time.                               *)
(*                                                                         *)
(* An operation is committed before its availability is: a process that    *)
(* stops in between leaves it pending, for the next process to recover.    *)
(* The availability is stamped with the time at which it is written, and   *)
(* others see it only when that transaction commits, which may be long     *)
(* after: a process that recovers fetches its filings in the same one.     *)
(***************************************************************************)
EXTENDS StockLock, Naturals, FiniteSets

CONSTANTS
    Clis,        \* processes of the command line
    Ops,         \* identifiers of ingestion operations
    Filings,     \* the filings of one report cycle, numbered as they were accepted
    Amendments,  \* those that amend another
    Contents,    \* what may be fetched of a filing: everything, or less if a fetch fails
    Readable,    \* the contents that can be parsed
    MaxTime      \* bound: the times there are

ASSUME LineageAssumption ==
    /\ Filings \subseteq Nat /\ Amendments \subseteq Filings
    /\ Readable \subseteq Contents
    /\ MaxTime \in Nat
    /\ Nobody \notin Clis

VARIABLES
    clock,  \* the time of the database
    runs,   \* the committed parse runs
    op,     \* the operations
    pubs,   \* the committed publications
    cli     \* what each process is doing, and what it remembers

lineageVars == <<clock, runs, op, pubs, cli>>

\* known: when the process that parsed it took the time, before it had the lock.
Run == [filing : Filings, content : Contents, known : Nat, op : Ops]

\* rests: the runs of its attempts, its own and reused ones; avail 0: pending.
Operation == [done : BOOLEAN, rests : SUBSET Run, avail : Nat]

Publication == [cutoff : Nat, sources : SUBSET Run]

(* at: "started" with the time taken, "ingesting" with the lock,            *)
(* "committed", "finalizing" with the lock, "finalized", "asked" with a     *)
(* cutoff, "selected" the sources. stamped: the operations this transaction *)
(* makes available, at time stamp.                                          *)
Process ==
    [at : {"off", "started", "ingesting", "committed", "finalizing", "finalized",
           "asked", "selected"},
     now : Nat, recovers : BOOLEAN, mine : SUBSET Ops, stamped : SUBSET Ops, stamp : Nat,
     cutoff : Nat, sources : SUBSET Run]

Off == [at |-> "off", now |-> 0, recovers |-> FALSE, mine |-> {}, stamped |-> {},
        stamp |-> 0, cutoff |-> 0, sources |-> {}]

LineageTypeOK ==
    /\ clock \in 0..MaxTime
    /\ runs \subseteq Run
    /\ op \in [Ops -> Operation]
    /\ pubs \subseteq Publication
    /\ cli \in [Clis -> Process]
    /\ holder \in Clis => cli[holder].at \in {"ingesting", "finalizing"}

LineageInit ==
    /\ clock = 0
    /\ runs = {}
    /\ op = [o \in Ops |-> [done |-> FALSE, rests |-> {}, avail |-> 0]]
    /\ pubs = {}
    /\ cli = [c \in Clis |-> Off]

Ticks == clock < MaxTime /\ clock' = clock + 1

\* The time at which the operations found are made available.
Stamp(found) == IF found = {} THEN 0 ELSE clock + 1

Pending == {o \in Ops : op[o].done /\ op[o].avail = 0}

-----------------------------------------------------------------------------
(* What was known at a time.                                                *)

AvailableAt(t) == {r \in runs : op[r.op].avail \in 1..t}

\* The failed parse of an amendment counts, for what it would have changed is unknown.
Eligible(R) == {r \in R : r.content \in Readable \/ r.filing \in Amendments}

LatestRuns(R) ==
    {r \in Eligible(R) : \A q \in Eligible(R) : q.filing = r.filing => q.known <= r.known}

\* The last original, and every amendment.
Sources(R) ==
    {r \in LatestRuns(R) :
        \/ r.filing \in Amendments
        \/ \A q \in LatestRuns(R) : q.filing \in Amendments \/ q.filing <= r.filing}

-----------------------------------------------------------------------------
(* Ingestion.                                                               *)

Stops(c) ==
    /\ cli' = [cli EXCEPT ![c] = Off]
    /\ Releases(c)

Start(c) ==
    /\ cli[c].at = "off"
    /\ Ticks
    /\ cli' = [cli EXCEPT ![c] = [Off EXCEPT !.at = "started", !.now = clock + 1,
                                             !.recovers = TRUE]]
    /\ UNCHANGED <<runs, op, pubs, holder>>

\* The next part of the history, in the same process.
GoOn(c) ==
    /\ cli[c].at = "finalized"
    /\ Ticks
    /\ cli' = [cli EXCEPT ![c] = [Off EXCEPT !.at = "started", !.now = clock + 1]]
    /\ UNCHANGED <<runs, op, pubs, holder>>

\* finalize_pending_sec_financial_ingestion_operations runs in the same transaction.
BeginIngest(c) ==
    LET found == IF cli[c].recovers THEN Pending ELSE {}
    IN  /\ cli[c].at = "started"
        /\ Takes(c)
        /\ found # {} => Ticks
        /\ found = {} => UNCHANGED clock
        /\ cli' = [cli EXCEPT ![c] = [Off EXCEPT !.at = "ingesting", !.now = cli[c].now,
                                                 !.stamped = found, !.stamp = Stamp(found)]]
        /\ UNCHANGED <<runs, op, pubs>>

\* Mutant: runs of an operation that is still pending are reused.
AnyReusable(c, r) == TRUE

Reusable(c, r) == op[r.op].avail # 0 \/ r.op \in cli[c].stamped

\* _discover finds some of the filings, and of those that can be fetched at all
\* _create_artifacts gets what can be fetched of them.
Fetched == UNION {[F -> Contents] : F \in SUBSET Filings}

\* _parse_primary_artifact: the runs of the same content are reused, for the others
\* there are new ones.
Reused(got) == {r \in runs : r.filing \in DOMAIN got /\ r.content = got[r.filing]}

NewRuns(c, o, got) ==
    {[filing |-> f, content |-> got[f], known |-> cli[c].now, op |-> o] :
        f \in DOMAIN got \ {r.filing : r \in Reused(got)}}

\* What the transaction of c makes available.
Finalized(c, o) ==
    IF o \in cli[c].stamped THEN [op[o] EXCEPT !.avail = cli[c].stamp] ELSE op[o]

\* ingest_latest_financial_filings
CommitIngest(c) ==
    /\ cli[c].at = "ingesting"
    /\ \E o \in Ops, got \in Fetched :
         /\ ~op[o].done
         /\ \A r \in Reused(got) : Reusable(c, r)
         /\ runs' = runs \cup NewRuns(c, o, got)
         /\ op' = [p \in Ops |->
                    IF p = o THEN [done |-> TRUE, avail |-> 0,
                                   rests |-> Reused(got) \cup NewRuns(c, o, got)]
                    ELSE Finalized(c, p)]
         /\ cli' = [cli EXCEPT ![c] = [Off EXCEPT !.at = "committed", !.mine = {o}]]
    /\ Releases(c)
    /\ UNCHANGED <<clock, pubs>>

-----------------------------------------------------------------------------
(* finalize_sec_financial_ingestion_operation                               *)

\* The operation of c, or any that an operator names.
ToFinalize(c) ==
    IF cli[c].at = "committed" THEN cli[c].mine
    ELSE IF cli[c].at = "off" THEN {o \in Ops : op[o].done} ELSE {}

BeginFinalize(c) ==
    /\ \E o \in ToFinalize(c) :
         LET found == {o} \cap Pending
         IN  /\ found # {} => Ticks
             /\ found = {} => UNCHANGED clock
             /\ cli' = [cli EXCEPT ![c] = [Off EXCEPT !.at = "finalizing",
                                                      !.stamped = found, !.stamp = Stamp(found)]]
    /\ Takes(c)
    /\ UNCHANGED <<runs, op, pubs>>

CommitFinalize(c) ==
    /\ cli[c].at = "finalizing"
    /\ op' = [o \in Ops |-> Finalized(c, o)]
    /\ cli' = [cli EXCEPT ![c] = [Off EXCEPT !.at = "finalized"]]
    /\ Releases(c)
    /\ UNCHANGED <<clock, runs, pubs>>

-----------------------------------------------------------------------------
(* Publication of what was known at a cutoff, the present one or that of an *)
(* earlier publication.                                                     *)

Ask(c) ==
    /\ \/ /\ cli[c].at = "finalized"
          /\ Ticks
          /\ cli' = [cli EXCEPT ![c] = [Off EXCEPT !.at = "asked", !.cutoff = clock + 1]]
       \/ /\ cli[c].at = "off"
          /\ \E p \in pubs :
                cli' = [cli EXCEPT ![c] = [Off EXCEPT !.at = "asked", !.cutoff = p.cutoff]]
          /\ UNCHANGED clock
    /\ UNCHANGED <<runs, op, pubs, holder>>

\* Without the lock.
Select(c) ==
    /\ cli[c].at = "asked"
    /\ LET sources == Sources(AvailableAt(cli[c].cutoff))
       IN  /\ sources # {}
           /\ cli' = [cli EXCEPT ![c] = [@ EXCEPT !.at = "selected", !.sources = sources]]
    /\ UNCHANGED <<clock, runs, op, pubs, holder>>

\* Mutant: a publication does not wait for the lock.
AnyTime == TRUE

\* The stock's lock, which the publication takes and gives back with its commit.
InTurn == holder = Nobody

\* The sources are looked for again, and have to be those that were selected.
PublishSec(c) ==
    LET cutoff == cli[c].cutoff
        sources == Sources(AvailableAt(cutoff))
    IN  /\ cli[c].at = "selected" /\ cli[c].sources = sources
        /\ InTurn
        /\ pubs' = pubs \cup {[cutoff |-> cutoff, sources |-> sources]}
        /\ cli' = [cli EXCEPT ![c] = Off]
        /\ UNCHANGED <<clock, runs, op, holder>>

\* Every error rolls back, and so does a process that is stopped.
Abort(c) ==
    /\ cli[c].at # "off"
    /\ Stops(c)
    /\ UNCHANGED <<clock, runs, op, pubs>>

-----------------------------------------------------------------------------
LineageNext ==
    \E c \in Clis :
        \/ Start(c) \/ GoOn(c) \/ BeginIngest(c) \/ CommitIngest(c)
        \/ BeginFinalize(c) \/ CommitFinalize(c)
        \/ Ask(c) \/ Select(c) \/ PublishSec(c) \/ Abort(c)

LineageSpec == LineageInit /\ holder = Nobody /\ [][LineageNext]_<<lineageVars, holder>>

-----------------------------------------------------------------------------
\* What is available rests on runs that are available, and were before.
WholeLineage ==
    \A o \in Ops : op[o].avail # 0 =>
        \A r \in op[o].rests : op[r.op].avail \in 1..op[o].avail

\* A publication shows what was known at its cutoff, and asking again gives the same.
Past == INSTANCE PointInTime
          WITH learned <- {<<r, op[r.op].avail>> : r \in {q \in runs : op[q.op].avail # 0}},
               answers <- {[at |-> p.cutoff, says |-> p.sources] : p \in pubs},
               Choice <- [R \in SUBSET Run |-> Sources(R)]

PastIsKept == Past!Spec
=============================================================================
