------------------------------ MODULE ParseRuns -----------------------------
(***************************************************************************)
(* The parse runs of one 13F filing: which of them serves its holdings     *)
(* (is_current) while sessions that hold no common job lock parse, re-parse *)
(* and validate it.                                                        *)
(*                                                                         *)
(* A re-parse demotes the serving run, keeps that row locked, parses, and  *)
(* commits the new run in its place, or puts the old one back. At the      *)
(* commit uq_parse_runs_current_accession lets one run serve, not two.     *)
(* What a parsed restatement does to its quarter is FilingAuthority's.     *)
(***************************************************************************)
EXTENDS Integers, Sequences

CONSTANTS
    Sessions,   \* API requests, CLI commands and job workers, a session each
    Totals,     \* totals a cover page may declare, in rows of equal value (0: none)
    MaxRows,    \* bound: rows a parser may find
    MaxRuns     \* bound: parse runs of the filing

ASSUME ParseRunsAssumption ==
    /\ Totals \subseteq Nat
    /\ MaxRows \in Nat
    /\ MaxRuns \in Nat

VARIABLES
    declared, \* filings_13f.reported_total_value_thousands
    runs,   \* parse_runs: the committed runs of the accession
    parse,  \* filings_13f.parse_status, committed
    ses     \* what each session is doing

vars == <<declared, runs, parse, ses>>

\* fresh: parsed with the present FINGERPRINT_VERSION. empty: the filer states
\* an empty portfolio.
Run == [status : {"succeeded", "failed"}, current : BOOLEAN, fresh : BOOLEAN,
        rows : Nat, empty : BOOLEAN]

\* seen: the parse_status in memory. before: the run that served when a
\* controlled re-parse began. old: the run demoted. new, live: the run a
\* controlled re-parse has committed, and whether that serves. 0: no run.
SessionState == [at : {"idle", "starting", "demoting", "parsing", "gate"},
                 gated : BOOLEAN, seen : {"pending", "succeeded", "failed"},
                 before : Nat, old : Nat, new : Nat, live : BOOLEAN]

Idle == [at |-> "idle", gated |-> FALSE, seen |-> "pending",
         before |-> 0, old |-> 0, new |-> 0, live |-> FALSE]

\* Every committed run has ended: the parse-run watchdog has nothing to find.
TypeOK ==
    /\ declared \in Totals
    /\ runs \in Seq(Run)
    /\ parse \in {"pending", "succeeded", "failed"}
    /\ ses \in [Sessions -> SessionState]

Parsed(rows, empty, current) ==
    [status |-> "succeeded", current |-> current, fresh |-> TRUE,
     rows |-> rows, empty |-> empty]

Failure == [status |-> "failed", current |-> FALSE, fresh |-> TRUE, rows |-> 0, empty |-> FALSE]

\* Never parsed, or served by a run of this or of an earlier fingerprint version.
Init ==
    /\ declared \in Totals
    /\ \/ runs = <<>> /\ parse = "pending"
       \/ \E rows \in 0..MaxRows, fresh \in BOOLEAN :
            /\ runs = <<[Parsed(rows, rows = 0, TRUE) EXCEPT !.fresh = fresh]>>
            /\ parse = "succeeded"
    /\ ses = [s \in Sessions |-> Idle]

-----------------------------------------------------------------------------
Current == {i \in DOMAIN runs : runs[i].current}

Serving == IF Current = {} THEN 0 ELSE CHOOSE i \in Current : TRUE

\* Mutant: a re-parse that finds another run serving takes its place as well.
BesideNone(s) == {}

\* The runs that would serve next to what s commits: the unique index fires.
Beside(s) == Current \ {ses[s].old}

\* A demoted row stays locked until its session commits.
LockedByOthers(s) == {ses[t].old : t \in {t \in Sessions \ {s} : ses[t].at = "parsing"}}

\* Mutant: nothing is compared when the filer has declared no total.
WorseThanDeclared(old, rows, empty) == old # 0 /\ ~empty /\ declared > 0 /\ rows # declared

\* _reparse_regression_reason: only a re-parse is held back.
Regression(old, rows, empty) ==
    /\ old # 0 /\ ~empty
    /\ IF declared > 0 THEN rows # declared ELSE rows < runs[old].rows

-----------------------------------------------------------------------------
(* Up to the parse.                                                         *)

\* ingest_if_needed, for a filing whose infotable is at hand.
Skip(s) ==
    /\ ses[s].at = "idle" /\ Serving # 0 /\ runs[Serving].fresh
    /\ parse' = "succeeded"
    /\ UNCHANGED <<declared, runs, ses>>

IngestFirst(s) ==
    /\ ses[s].at = "idle" /\ Serving = 0
    /\ Len(runs) < MaxRuns
    /\ ses' = [ses EXCEPT ![s] = [Idle EXCEPT !.at = "parsing", !.seen = parse]]
    /\ UNCHANGED <<declared, runs, parse>>

IngestStale(s) ==
    /\ ses[s].at = "idle" /\ Serving # 0 /\ ~runs[Serving].fresh
    /\ Len(runs) < MaxRuns
    /\ ses' = [ses EXCEPT ![s] = [Idle EXCEPT !.at = "starting", !.seen = parse]]
    /\ UNCHANGED <<declared, runs, parse>>

Reparse(s) ==
    /\ ses[s].at = "idle" /\ Len(runs) < MaxRuns
    /\ ses' = [ses EXCEPT ![s] = [Idle EXCEPT !.at = "starting", !.seen = parse]]
    /\ UNCHANGED <<declared, runs, parse>>

\* controlled_reparse_accession notes what serves now.
Control(s) ==
    /\ ses[s].at = "idle" /\ Len(runs) < MaxRuns
    /\ ses' = [ses EXCEPT ![s] = [Idle EXCEPT !.at = "starting", !.seen = parse,
                                              !.gated = TRUE, !.before = Serving]]
    /\ UNCHANGED <<declared, runs, parse>>

FindCurrent(s) ==
    /\ ses[s].at = "starting"
    /\ ses' = [ses EXCEPT ![s].old = Serving,
                          ![s].at = IF Serving = 0 THEN "parsing" ELSE "demoting"]
    /\ UNCHANGED <<declared, runs, parse>>

Demote(s) ==
    /\ ses[s].at = "demoting" /\ ses[s].old \notin LockedByOthers(s)
    /\ ses' = [ses EXCEPT ![s].at = "parsing"]
    /\ UNCHANGED <<declared, runs, parse>>

-----------------------------------------------------------------------------
(* The parse and its commit.                                                *)

\* A column is written when it differs from what the session remembers.
Write(status, seen) == IF seen = status THEN parse ELSE status

OldMade(s, current) ==
    [i \in DOMAIN runs |-> IF i = ses[s].old THEN [runs[i] EXCEPT !.current = current]
                           ELSE runs[i]]

\* What s commits has the run it demoted demoted, or serving again.
Demoted(s) == OldMade(s, FALSE)

\* Mutant: the failure is committed, the demoted run is restored afterwards.
RestoredLater(s) == Demoted(s)

Restored(s) == OldMade(s, TRUE)

\* A parse without an exception: a controlled re-parse goes on to its gate.
Returned(s, live) ==
    IF ses[s].gated
    THEN [ses[s] EXCEPT !.at = "gate", !.new = Len(runs) + 1, !.live = live]
    ELSE Idle

Activate(s, rows, empty) ==
    /\ ses[s].at = "parsing" /\ Beside(s) = {}
    /\ ~Regression(ses[s].old, rows, empty)
    /\ runs' = Append(Demoted(s), Parsed(rows, empty, TRUE))
    /\ parse' = Write("succeeded", ses[s].seen)
    /\ ses' = [ses EXCEPT ![s] = Returned(s, TRUE)]
    /\ UNCHANGED declared

Quarantine(s, rows, empty) ==
    /\ ses[s].at = "parsing" /\ Beside(s) = {}
    /\ Regression(ses[s].old, rows, empty)
    /\ runs' = Append(Restored(s), Parsed(rows, empty, FALSE))
    /\ ses' = [ses EXCEPT ![s] = Returned(s, FALSE)]
    /\ UNCHANGED <<declared, parse>>

FirstFails(s) ==
    /\ ses[s].at = "parsing" /\ ses[s].old = 0
    /\ runs' = Append(runs, Failure)
    /\ parse' = Write("failed", ses[s].seen)
    /\ ses' = [ses EXCEPT ![s] = Idle]
    /\ UNCHANGED declared

ReparseFails(s) ==
    /\ ses[s].at = "parsing" /\ ses[s].old # 0 /\ Beside(s) = {}
    /\ runs' = Append(Restored(s), Failure)
    /\ parse' = Write("succeeded", ses[s].seen)
    /\ ses' = [ses EXCEPT ![s] = Idle]
    /\ UNCHANGED declared

\* The index fires on a first parse: the rollback has made the session forget
\* the filing, so its status is written whatever it was.
FirstLoses(s) ==
    /\ ses[s].at = "parsing" /\ ses[s].old = 0 /\ Beside(s) # {}
    /\ runs' = Append(runs, Failure)
    /\ parse' = "failed"
    /\ ses' = [ses EXCEPT ![s] = Idle]
    /\ UNCHANGED declared

\* It fires on a re-parse, and again on each attempt to restore the old run:
\* nothing is committed, not even the failure.
ReparseLoses(s) ==
    /\ ses[s].at = "parsing" /\ ses[s].old # 0 /\ Beside(s) # {}
    /\ ses' = [ses EXCEPT ![s] = Idle]
    /\ UNCHANGED <<declared, runs, parse>>

-----------------------------------------------------------------------------
(* The validation gate of a controlled re-parse, in a second transaction.    *)

GatePasses(s) ==
    /\ ses[s].at = "gate"
    /\ ses' = [ses EXCEPT ![s] = Idle]
    /\ UNCHANGED <<declared, runs, parse>>

\* _restore_current_pointer: the rows whose is_current it changes.
Refused(s) == IF ses[s].live THEN {ses[s].new} ELSE {}
Reinstated(s) == {i \in {ses[s].before} \cap DOMAIN runs : ~runs[i].current}

\* When a third run serves by now, reinstating the first makes the index fire:
\* nothing changes, and the gate's refusal is lost.
GateFails(s) ==
    LET touched == Refused(s) \cup Reinstated(s)
        fires == Reinstated(s) # {} /\ Current \ Refused(s) # {}
    IN  /\ ses[s].at = "gate" /\ touched \cap LockedByOthers(s) = {}
        /\ runs' = IF fires THEN runs
                   ELSE [i \in DOMAIN runs |->
                           IF i \in touched THEN [runs[i] EXCEPT !.current = i \in Reinstated(s)]
                           ELSE runs[i]]
        /\ ses' = [ses EXCEPT ![s] = Idle]
        /\ UNCHANGED <<declared, parse>>

\* The process stops: what it had not committed is rolled back.
Crash(s) ==
    /\ ses[s].at # "idle"
    /\ ses' = [ses EXCEPT ![s] = Idle]
    /\ UNCHANGED <<declared, runs, parse>>

\* ingest_accession_filing_detail reads the cover page again.
Refetch ==
    /\ parse' = "pending"
    /\ UNCHANGED <<declared, runs, ses>>

Parse(s) ==
    \/ \E rows \in 0..MaxRows, empty \in BOOLEAN :
         /\ empty => rows = 0
         /\ Activate(s, rows, empty) \/ Quarantine(s, rows, empty)
    \/ FirstFails(s) \/ FirstLoses(s) \/ ReparseFails(s) \/ ReparseLoses(s)

Next ==
    \/ \E s \in Sessions :
         \/ Skip(s) \/ IngestFirst(s) \/ IngestStale(s) \/ Reparse(s) \/ Control(s)
         \/ FindCurrent(s) \/ Demote(s) \/ Parse(s)
         \/ GatePasses(s) \/ GateFails(s) \/ Crash(s)
    \/ Refetch

Spec == Init /\ [][Next]_vars

-----------------------------------------------------------------------------
\* A gate ends, and one that ends with nothing to reinstate.
GateEnds == \E s \in Sessions : ses[s].at = "gate" /\ ses'[s].at = "idle"

FirstGateEnds ==
    \E s \in Sessions : ses[s].at = "gate" /\ ses'[s].at = "idle" /\ ses[s].before = 0

(* A filing whose holdings have been shown goes on showing some: no         *)
(* committed state, after any failure, crash or lost race, is without a     *)
(* serving run once there was one, unless a gate refuses the first.          *)
NeverDark ==
    [][Current # {} /\ ~FirstGateEnds => Current' # {}]_vars

(* Unless a gate refuses a run, an older run never takes over from a newer   *)
(* one: a session that restores what it demoted does not undo a parse that  *)
(* has been committed meanwhile.                                             *)
NeverBack == [][GateEnds \/ \A i \in Current, j \in Current' : i <= j]_vars

(* Unless a gate refuses a run, whatever takes over from a serving run adds  *)
(* up to the declared total, or has no fewer rows when none is declared, or  *)
(* comes from a filer that states an empty portfolio; also when another      *)
(* session has replaced the run it was compared with.                        *)
NeverWorse ==
    [][GateEnds \/ \A i \in Current, j \in Current' :
         \/ i = j \/ runs'[j].empty
         \/ IF declared > 0 THEN runs'[j].rows = declared
            ELSE runs'[j].rows >= runs[i].rows]_vars

(* _do_ingest_holdings on a failed re-parse: "the filing is not "failed"    *)
(* from the product's point of view" while good holdings serve. A first      *)
(* parse that loses to another writes failed over succeeded.                 *)
ServedNotFailed == Current # {} => parse # "failed"
=============================================================================
