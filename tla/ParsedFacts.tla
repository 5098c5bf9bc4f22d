---------------------------- MODULE ParsedFacts ----------------------------
(***************************************************************************)
(* One slot (metric and period of a stock) of the facts that a user's      *)
(* Value Line documents report, the fact calculated from it, and the       *)
(* sessions that upload, re-parse, archive, withdraw and deduplicate the   *)
(* documents.                                                              *)
(*                                                                         *)
(* Facts are only appended; which of them are current is decided under the *)
(* lock of the stock. An UPDATE locks the row before its trigger asks for  *)
(* that lock, so a session that retires a document can hold a row that the *)
(* holder of the lock wants to demote: the database breaks such a deadlock *)
(* by aborting one of the two.                                             *)
(***************************************************************************)
EXTENDS StockLock, Naturals, Sequences, FiniteSets

CONSTANTS
    Docs,      \* the documents, numbered as they are uploaded
    Dates,     \* bound: report dates a parse may read in each document
    Values,    \* bound: what a parse may read in the slot
    Users,     \* the sessions of the user's requests and scripts
    MaxFacts   \* bound: facts ever appended to the slot

ASSUME FactsAssumption ==
    /\ Docs \subseteq Nat \ {0}
    /\ Dates \in [Docs -> SUBSET (Nat \ {0})]
    /\ MaxFacts \in Nat
    /\ IsFiniteSet(Users) /\ Nobody \notin Users

VARIABLES
    docs,   \* the committed document rows
    facts,  \* the parsed facts of the slot, in the order of their ids
    calc,   \* the facts from which a current calculated fact was computed
    tx      \* what each session is doing

factVars == <<docs, facts, calc, tx>>

NoValue == "no value"
CalcRow == 0  \* among the numbers of facts: the calculated fact

\* A document without a date (0) has never been parsed.
Document == [parse : {"absent", "parsing", "failed", "parsed"}, rev : Nat, date : Nat,
             retired : BOOLEAN]
Fact == [doc : Docs, rev : Nat, date : Nat, val : Values, cur : BOOLEAN]
Absent == [parse |-> "absent", rev |-> 0, date |-> 0, retired |-> FALSE]

(* at: "reading" the source, "parsed" and about to insert the fact,         *)
(* "writing" with the lock of the stock; "found" the duplicates to retire,  *)
(* "locked" a first row, "retiring" with the lock of the stock. on: the     *)
(* documents the session is about; own: those whose rows it has locked;     *)
(* row: the fact it has locked; seen: the facts as it read them.            *)
Transaction ==
    [op : {"none", "upload", "reparse", "retire", "dedupe"},
     at : {"idle", "reading", "parsed", "writing", "found", "locked", "retiring"},
     on : SUBSET Docs, own : SUBSET Docs, row : SUBSET (0..MaxFacts),
     date : Nat, val : Values \cup {NoValue}, seen : Seq(Fact)]

Idle == [op |-> "none", at |-> "idle", on |-> {}, own |-> {}, row |-> {},
         date |-> 0, val |-> NoValue, seen |-> <<>>]

FactsTypeOK ==
    /\ docs \in [Docs -> Document]
    /\ facts \in Seq(Fact) /\ Len(facts) <= MaxFacts
    /\ calc \subseteq DOMAIN facts
    /\ tx \in [Users -> Transaction]
    /\ holder \in Users => tx[holder].at \in {"writing", "retiring"}

FactsInit ==
    /\ docs = [d \in Docs |-> Absent]
    /\ facts = <<>>
    /\ calc = {}
    /\ tx = [s \in Users |-> Idle]

-----------------------------------------------------------------------------
(* _reconcile_parsed_fact_current_slot                                      *)

Current(F) == {i \in DOMAIN F : F[i].cur}

\* The facts of the latest report date, whatever became of their documents.
Latest(F) == {i \in DOMAIN F : \A j \in DOMAIN F : F[j].date <= F[i].date}

\* The newest fact of each report identity.
Winners(F) ==
    {i \in Latest(F) : \A j \in Latest(F) :
        F[j].doc = F[i].doc /\ F[j].rev = F[i].rev => j <= i}

\* Mutant: the newest fact settles a disagreement.
NewestOnly(F) == {i \in Winners(F) : \A j \in Winners(F) : j <= i}

\* One fact for each value the winners disagree about, a current one if there is one.
Targets(F) ==
    {i \in Winners(F) : \A j \in Winners(F) :
        F[j].val = F[i].val => IF F[i].cur = F[j].cur THEN j <= i ELSE F[i].cur}

\* What is no longer current never is again.
Refused(F) == \E i \in Targets(F) : ~F[i].cur

Reconciled(F) == [i \in DOMAIN F |-> [F[i] EXCEPT !.cur = i \in Targets(F)]]

-----------------------------------------------------------------------------
(* Uploads and re-parses.                                                   *)

DocOf(s) == CHOOSE d \in tx[s].on : TRUE

OwnedByOthers(s) == UNION {tx[t].own : t \in Users \ {s}}
RowsOfOthers(s) == UNION {tx[t].row : t \in Users \ {s}}

Ends(s) ==
    /\ tx' = [tx EXCEPT ![s] = Idle]
    /\ Releases(s)

\* An upload that fails says so on the document; a re-parse leaves no trace.
FailsParse(s) ==
    /\ docs' = IF tx[s].op = "upload" THEN [docs EXCEPT ![DocOf(s)].parse = "failed"] ELSE docs
    /\ Ends(s)
    /\ UNCHANGED <<facts, calc>>

\* Facts that the parses under way may still append count towards the bound.
Room == Len(facts) + Cardinality({s \in Users : tx[s].op \in {"upload", "reparse"}}) < MaxFacts

\* The document is committed before its pages are read.
Upload(s, d) ==
    /\ tx[s].at = "idle" /\ docs[d].parse = "absent" /\ Room
    /\ \A e \in Docs : e < d => docs[e].parse # "absent"
    /\ docs' = [docs EXCEPT ![d].parse = "parsing"]
    /\ tx' = [tx EXCEPT ![s] = [Idle EXCEPT !.op = "upload", !.at = "reading", !.on = {d}]]
    /\ UNCHANGED <<facts, calc, holder>>

\* Whether the document is retired is asked here and never again.
Reparse(s, d) ==
    /\ tx[s].at = "idle" /\ docs[d].parse # "absent" /\ ~docs[d].retired /\ Room
    /\ tx' = [tx EXCEPT ![s] = [Idle EXCEPT !.op = "reparse", !.at = "reading", !.on = {d}]]
    /\ UNCHANGED <<docs, facts, calc, holder>>

\* The document's row is written; a re-parse takes the document's lock before.
Parse(s, t, v) ==
    /\ tx[s].at = "reading" /\ t \in Dates[DocOf(s)]
    /\ DocOf(s) \notin OwnedByOthers(s)
    /\ tx' = [tx EXCEPT ![s] = [@ EXCEPT !.at = "parsed", !.own = tx[s].on,
                                        !.date = t, !.val = v]]
    /\ UNCHANGED <<docs, facts, calc, holder>>

CannotParse(s) == tx[s].at = "reading" /\ FailsParse(s)

\* The first fact is inserted; the others are read after that.
TakeToWrite(s) ==
    /\ tx[s].at = "parsed"
    /\ Takes(s)
    /\ tx' = [tx EXCEPT ![s].at = "writing", ![s].seen = facts]
    /\ UNCHANGED <<docs, facts, calc>>

\* Setting the document's stock and date again gives it another report identity.
NextRev(d) == docs[d].rev + 1

\* _demote_document_parsed_slot, and the INSERT.
Appended(s) ==
    LET d == DocOf(s)
        F == tx[s].seen
        demoted == [i \in DOMAIN F |->
                      [F[i] EXCEPT !.cur = @ /\ ~(F[i].doc = d /\ F[i].rev = NextRev(d))]]
    IN  Append(demoted, [doc |-> d, rev |-> NextRev(d), date |-> tx[s].date,
                         val |-> tx[s].val, cur |-> TRUE])

\* _run_calculated_metrics: a disagreement blocks the calculation and leaves its
\* earlier result.
Calculated(F, c) == IF Cardinality(Current(F)) = 1 THEN Current(F) ELSE c

\* What a commit makes of the facts: those it has not seen stay as they are.
Committed(F, n) ==
    [i \in 1..Len(facts) + 1 |->
       IF i > Len(facts) THEN F[n + 1]
       ELSE IF i <= n THEN [facts[i] EXCEPT !.cur = @ /\ F[i].cur]
       ELSE facts[i]]

\* The rows that publishing demotes.
PublishedRows(s) ==
    LET F == Reconciled(Appended(s))
    IN  {i \in Current(tx[s].seen) : ~F[i].cur}
        \cup (IF calc # {} /\ Calculated(F, calc) # calc THEN {CalcRow} ELSE {})

Refuse(s) ==
    /\ tx[s].at = "writing" /\ Refused(Appended(s))
    /\ FailsParse(s)

Publish(s) ==
    LET F == Reconciled(Appended(s))
        d == DocOf(s)
    IN  /\ tx[s].at = "writing" /\ ~Refused(Appended(s))
        /\ PublishedRows(s) \cap RowsOfOthers(s) = {}
        /\ facts' = Committed(F, Len(tx[s].seen))
        /\ calc' = Calculated(F, calc)
        /\ docs' = [docs EXCEPT ![d] = [@ EXCEPT !.parse = "parsed", !.rev = NextRev(d),
                                                 !.date = tx[s].date]]
        /\ Ends(s)

-----------------------------------------------------------------------------
(* Archiving and withdrawing a document, and retiring duplicates.           *)

\* The facts to demote, or else the calculated fact.
FirstRows(D) ==
    LET own == {i \in Current(facts) : facts[i].doc \in D}
    IN  IF own # {} THEN own ELSE IF calc # {} THEN {CalcRow} ELSE {}

RetiredDocs(D) == [d \in Docs |-> [docs[d] EXCEPT !.retired = @ \/ d \in D]]

\* The rows of the documents are locked, and the first of the rows to demote.
LockRows(s, op, D) ==
    /\ D \cap OwnedByOthers(s) = {}
    /\ \E i \in FirstRows(D) \ RowsOfOthers(s) :
          tx' = [tx EXCEPT ![s] = [Idle EXCEPT !.op = op, !.at = "locked", !.on = D,
                                               !.own = D, !.row = {i}]]
    /\ UNCHANGED <<docs, facts, calc, holder>>

\* With nothing to demote the lock is never asked for: either there is nothing to
\* calculate from either, or the facts disagree and the calculation fails.
NothingToDemote(s, D) ==
    /\ D \cap OwnedByOthers(s) = {}
    /\ FirstRows(D) = {}
    /\ docs' = IF Current(facts) = {} THEN RetiredDocs(D) ELSE docs
    /\ Ends(s)
    /\ UNCHANGED <<facts, calc>>

\* delete_document, mark_source_unavailable
Retire(s, d) ==
    /\ tx[s].at = "idle" /\ docs[d].parse # "absent"
    /\ LockRows(s, "retire", {d}) \/ NothingToDemote(s, {d})

\* find_duplicate_groups and _canonical_document: the last upload of each date stays.
Duplicates ==
    LET dated == {d \in Docs : docs[d].date # 0 /\ ~docs[d].retired}
        Rank(d) == IF docs[d].parse = "parsed" THEN 1 ELSE 0
    IN  {d \in dated : \E e \in dated :
           /\ docs[e].date = docs[d].date
           /\ Rank(e) > Rank(d) \/ (Rank(e) = Rank(d) /\ e > d)}

\* The duplicates are looked for before anything is locked.
Deduplicate(s) ==
    /\ tx[s].at = "idle" /\ Duplicates # {}
    /\ tx' = [tx EXCEPT ![s] = [Idle EXCEPT !.op = "dedupe", !.at = "found", !.on = Duplicates]]
    /\ UNCHANGED <<docs, facts, calc, holder>>

RetireDuplicates(s) ==
    /\ tx[s].at = "found"
    /\ LockRows(s, "dedupe", tx[s].on) \/ NothingToDemote(s, tx[s].on)

TakeToRetire(s) ==
    /\ tx[s].at = "locked"
    /\ Takes(s)
    /\ tx' = [tx EXCEPT ![s].at = "retiring"]
    /\ UNCHANGED <<docs, facts, calc>>

Without(s) ==
    [i \in DOMAIN facts |-> [facts[i] EXCEPT !.cur = @ /\ facts[i].doc \notin tx[s].on]]

\* Facts that still disagree stop the calculation, and that undoes everything.
RetireFails(s) ==
    /\ tx[s].at = "retiring" /\ Cardinality(Current(Without(s))) > 1
    /\ Ends(s)
    /\ UNCHANGED <<docs, facts, calc>>

\* Mutant: what was calculated is left alone.
CalcKept(s) == IF calc = {} THEN Current(Without(s)) ELSE calc

\* _refresh_calculated_facts demotes what was calculated, and calculates again.
Recalculated(s) == Current(Without(s))

RetiredRows(s) ==
    {i \in Current(facts) : facts[i].doc \in tx[s].on} \cup (IF calc # {} THEN {CalcRow} ELSE {})

FinishRetire(s) ==
    /\ tx[s].at = "retiring" /\ Cardinality(Current(Without(s))) <= 1
    /\ RetiredRows(s) \cap RowsOfOthers(s) = {}
    /\ facts' = Without(s)
    /\ calc' = Recalculated(s)
    /\ docs' = RetiredDocs(tx[s].on)
    /\ Ends(s)

-----------------------------------------------------------------------------
\* s waits for the lock of the stock, or for a row that t has locked.
WaitsFor(s, t) ==
    \/ tx[s].at \in {"parsed", "locked"} /\ holder = t
    \/ tx[s].at \in {"reading", "found"} /\ tx[s].on \cap tx[t].own # {}
    \/ tx[s].at = "writing" /\ PublishedRows(s) \cap tx[t].row # {}
    \/ tx[s].at = "retiring" /\ RetiredRows(s) \cap tx[t].row # {}

Deadlocked(s) == \E t \in Users \ {s} : WaitsFor(s, t) /\ WaitsFor(t, s)

\* The database aborts one of two transactions that wait for each other.
AbortDeadlocked(s) ==
    /\ Deadlocked(s)
    /\ FailsParse(s)

\* The server is stopped: nothing is written any more, and every lock is free.
Crash(s) ==
    /\ tx[s].at # "idle"
    /\ Ends(s)
    /\ UNCHANGED <<docs, facts, calc>>

-----------------------------------------------------------------------------
Starts(s) ==
    \/ \E d \in Docs : Upload(s, d) \/ Reparse(s, d) \/ Retire(s, d)
    \/ Deduplicate(s)

Continues(s) ==
    \/ \E t \in UNION {Dates[d] : d \in Docs}, v \in Values : Parse(s, t, v)
    \/ CannotParse(s) \/ TakeToWrite(s) \/ Refuse(s) \/ Publish(s)
    \/ RetireDuplicates(s) \/ TakeToRetire(s) \/ RetireFails(s) \/ FinishRetire(s)
    \/ AbortDeadlocked(s)

FactsNext == \E s \in Users : Starts(s) \/ Continues(s) \/ Crash(s)

FactsSpec == FactsInit /\ holder = Nobody /\ [][FactsNext]_<<factVars, holder>>

-----------------------------------------------------------------------------
\* No fact of an older report is current, and no two current facts agree.
CurrentIsLatest ==
    \A i \in Current(facts) :
        /\ i \in Latest(facts)
        /\ \A j \in Current(facts) \ {i} : facts[j].val # facts[i].val

\* As long as no document of the latest date is retired, the current facts show
\* every value that any parse of such a document has read.
DisagreementShown ==
    (\A i \in Latest(facts) : ~docs[facts[i].doc].retired)
    => {facts[i].val : i \in Current(facts)} = {facts[i].val : i \in Latest(facts)}

\* There is at most one calculated fact, from a value that is still current; an
\* undisputed value is always calculated with.
CalculatedRests ==
    /\ Cardinality(calc) <= 1
    /\ \A i \in calc : \E j \in Current(facts) : facts[j].val = facts[i].val
    /\ Cardinality(Current(facts)) = 1 => calc = Current(facts)

\* Archived evidence leaves the current projections.
RetiredNotCurrent == \A i \in Current(facts) : ~docs[facts[i].doc].retired
=============================================================================
