-------------------------- MODULE FilingAuthority --------------------------
(***************************************************************************)
(* The sessions that ingest, parse, re-parse, resolve and sweep the 13F    *)
(* filings of one manager and quarter, around FilingPolicy.                *)
(*                                                                         *)
(* A session remembers every row it has read until it commits: a query     *)
(* does not refresh it. On commit it writes the columns it has changed,    *)
(* over whatever others have committed. The policy runs under an advisory  *)
(* lock on the period, held to the end of the transaction; rows a session  *)
(* has flushed before it asked for that lock stay locked with it.          *)
(***************************************************************************)
EXTENDS FilingPolicy

CONSTANTS
    Quarters,   \* the sets of filings a quarter may consist of
    Sessions,   \* API requests and job workers with a session each
    AccTimes,   \* bound: acceptance times a primary document may state (0: none)
    Routes,     \* bound: what each document may say of its quarter
    Orders,     \* bound: what an admin may decide about each filing
    Ops         \* the operations in play

Decisions == {"applied", "rejected", "deferred", "informational"}
NoSession == "no session"
NoFiling == "no filing"
AllOps == {"index", "route", "detail", "bulk", "parse", "controlled", "loop", "resolve",
           "sweep"}

\* What a document may say of its quarter: a clean one; one that ended long before
\* (PERIOD_SUSPICIOUSLY_STALE); none that can be told; one that is no date at all
\* (PERIOD_INVALID).
Routings == {"routed", "stale", "unrouted", "invalid"}

ASSUME AuthorityAssumption ==
    /\ Quarters \subseteq SUBSET Filings
    /\ AccTimes \in [Filings -> SUBSET Nat]
    /\ Routes \in [Filings -> SUBSET Routings]
    /\ Orders \in [Filings -> SUBSET Decisions]
    /\ Ops \subseteq AllOps
    /\ NoSession \notin Sessions /\ NoFiling \notin Filings

VARIABLES
    filed,  \* the filings the manager files for the quarter
    db,     \* the committed rows
    ses,    \* what each session is doing, and what it remembers
    holder  \* the session that holds the period's advisory lock

vars == <<filed, db, ses, holder>>

Table == [Filings -> Row]
Empty == [f \in Filings |-> NoRow]

(* read: the rows the session has seen; orig and view: those rows as read   *)
(* and as they are in memory. rows: the row locks held before the period    *)
(* lock. at: "ready" waits for the period lock, "closing" is about to       *)
(* commit, "gate" is between the two transactions of a controlled reparse,  *)
(* "looping" between two filings of one transaction of the bulk loop.       *)
SessionState == [at : {"idle", "parsing", "ready", "closing", "gate", "looping"},
                 op : AllOps \cup {"none", "gate"}, on : Filings \cup {NoFiling},
                 decision : Decisions \cup {"none"}, read : SUBSET Filings,
                 orig : Table, view : Table, rows : SUBSET Filings]

Idle == [at |-> "idle", op |-> "none", on |-> NoFiling, decision |-> "none",
         read |-> {}, orig |-> Empty, view |-> Empty, rows |-> {}]

TypeOK ==
    /\ filed \in Quarters
    /\ db \in Table
    /\ ses \in [Sessions -> SessionState]
    /\ holder \in Sessions \cup {NoSession}

Init ==
    /\ filed \in Quarters
    /\ db = Empty
    /\ ses = [s \in Sessions |-> Idle]
    /\ holder = NoSession

-----------------------------------------------------------------------------
(* What a session does with the rows it remembers.                          *)

\* Read f alone; r is what the session makes of it in memory.
Reading(s, op, f, r) ==
    [Idle EXCEPT !.op = op, !.on = f, !.read = {f},
                 !.orig = [Empty EXCEPT ![f] = db[f]],
                 !.view = [Empty EXCEPT ![f] = r]]

Changed(s) == {f \in ses[s].read : ses[s].view[f] # ses[s].orig[f]}

\* Only the columns that differ from what was read are written.
Columns(new, old, now) ==
    [c \in DOMAIN now |-> IF new[c] # old[c] THEN new[c] ELSE now[c]]

Committed(s) ==
    [f \in Filings |-> IF f \in Changed(s)
                       THEN Columns(ses[s].view[f], ses[s].orig[f], db[f])
                       ELSE db[f]]

\* uq_active_filing_per_manager_period
IndexAllows(s) == ~Several(Serving(Committed(s)))

LockedByOthers(s) == UNION {ses[t].rows : t \in Sessions \ {s}}

-----------------------------------------------------------------------------
(* apply_amendment_policy, up to the call of the group policy.              *)

\* Mutant: an amendment already decided about is normalised like a new one.
NormalizedAgain(f, r) ==
    IF f \notin Amendments THEN r
    ELSE [r EXCEPT !.active = FALSE,
                   !.status = IF f \in Restatements THEN "pending_parse"
                              ELSE "amendments_pending"]

Normalized(f, r) ==
    IF f \notin Amendments
    THEN IF r.where = "group" THEN r ELSE [r EXCEPT !.active = FALSE]
    ELSE IF r.status \in Terminal THEN r
    ELSE [r EXCEPT !.active = FALSE,
                   !.status = IF Form[f] \in NTForms /\ r.parse = "succeeded" THEN "applied"
                              ELSE IF f \in Restatements THEN "pending_parse"
                              ELSE "amendments_pending"]

RunsPolicy(f, r) ==
    r.where = "group" /\ ~(f \in Amendments /\ r.status \in Terminal)

Accepted(r, a) == [r EXCEPT !.acc = IF a = 0 THEN @ ELSE a]

\* r is flushed as normalised, and then the period lock is asked for.
StartPolicy(s, op, f, r) ==
    /\ db[f] # r => f \notin LockedByOthers(s)
    /\ ses' = [ses EXCEPT ![s] =
                 [Reading(s, op, f, Normalized(f, r)) EXCEPT
                    !.at = IF RunsPolicy(f, r) THEN "ready" ELSE "closing",
                    !.rows = IF db[f] # r THEN {f} ELSE {}]]
    /\ UNCHANGED <<filed, db, holder>>

(* ingest_accession_filing_detail: everything the primary document says.    *)
QuarterOf(w) == IF w \in {"routed", "stale"} THEN "group" ELSE "unrouted"

ParseOf(f, w) ==
    CASE w = "routed" -> IF Form[f] \in NTForms THEN "succeeded" ELSE "pending"
      [] w = "invalid" -> "failed"
      [] OTHER -> "needs_review"

Stated(f, r, a, w) ==
    [Accepted(r, a) EXCEPT !.where = QuarterOf(w), !.parse = ParseOf(f, w)]

Detail(s, f, a, w) ==
    /\ "detail" \in Ops
    /\ ses[s].at = "idle"
    /\ StartPolicy(s, "detail", f, Stated(f, db[f], a, w))

(* The quarter index knows of a filing but not of its quarter; the routing  *)
(* backfill gives it one from its stored document, and never takes it away. *)
(* Neither asks the policy.                                                 *)
Discover(s, f) ==
    /\ "index" \in Ops
    /\ ses[s].at = "idle"
    /\ db[f].where = "absent"
    /\ db' = [db EXCEPT ![f].where = "unrouted"]
    /\ UNCHANGED <<filed, ses, holder>>

Backfill(s, f, a, w) ==
    LET r == [Accepted(db[f], a) EXCEPT !.where = IF QuarterOf(w) = "group" THEN "group" ELSE @]
    IN /\ "route" \in Ops
       /\ ses[s].at = "idle"
       /\ db[f].where # "absent"
       /\ ses' = [ses EXCEPT ![s] = [Reading(s, "route", f, r) EXCEPT !.at = "closing"]]
       /\ UNCHANGED <<filed, db, holder>>

(* _execute_ingest_job, phase 2.5. The first transaction applies what the   *)
(* documents say to all the filings E, flushed one by one, before it asks   *)
(* the policy about f; the later ones have read f alone.                    *)
Statements(E) ==
    {t \in [E -> UNION {AccTimes[e] : e \in E}] : \A e \in E : t[e] \in AccTimes[e]}

Bulk(s, f, E) ==
    /\ "bulk" \in Ops
    /\ ses[s].at = "idle"
    /\ f \in E /\ \A e \in E : db[e].where # "absent"
    /\ \E t \in Statements(E) :
          LET stated == [e \in Filings |-> IF e \in E THEN Accepted(db[e], t[e]) ELSE NoRow]
              flushed == {e \in E : db[e] # stated[e]}
          IN /\ flushed \cap LockedByOthers(s) = {}
             /\ ses' = [ses EXCEPT ![s] =
                          [Idle EXCEPT
                             !.op = "bulk", !.on = f, !.read = E,
                             !.orig = [e \in Filings |-> IF e \in E THEN db[e] ELSE NoRow],
                             !.view = [stated EXCEPT ![f] = Normalized(f, stated[f])],
                             !.at = IF RunsPolicy(f, stated[f]) THEN "ready" ELSE "closing",
                             !.rows = flushed]]
    /\ UNCHANGED <<filed, db, holder>>

-----------------------------------------------------------------------------
(* _do_ingest_holdings on an HR filing: the row is read, the information    *)
(* table parsed, and the outcome mirrored onto the filing. A parsed         *)
(* restatement goes on to the policy (reconcile_restatement_activation).    *)

\* A controlled reparse that produced a run goes on to its gate.
AfterParse(s) ==
    IF ses[s].op = "controlled"
    THEN [Idle EXCEPT !.at = "gate", !.op = "controlled", !.on = ses[s].on,
                      !.orig = ses[s].orig]
    ELSE Idle

\* Bound: two parses of one accession do not overlap.
ParsedByOther(s, f) ==
    \E t \in Sessions \ {s} : ses[t].on = f /\ ses[t].op \in {"parse", "controlled", "gate", "loop"}

StartParse(s, op, f) ==
    /\ op \in Ops \cap {"parse", "controlled"}
    /\ ses[s].at = "idle"
    /\ ~ParsedByOther(s, f)
    /\ db[f].where # "absent" /\ Form[f] \in HRForms
    /\ ses' = [ses EXCEPT ![s] = [Reading(s, op, f, db[f]) EXCEPT !.at = "parsing"]]
    /\ UNCHANGED <<filed, db, holder>>

ParseOk(s) ==
    LET f == ses[s].on
        r == [ses[s].view[f] EXCEPT !.parse = "succeeded", !.run = TRUE]
    IN /\ ses[s].at = "parsing"
       /\ ses' = [ses EXCEPT
                    ![s].view[f] = r,
                    ![s].at = IF f \in Restatements /\ r.where = "group"
                              THEN "ready" ELSE "closing"]
       /\ UNCHANGED <<filed, db, holder>>

\* The prior run keeps serving, and with it the filing's status.
ParseFails(s) ==
    LET f == ses[s].on
        old == ses[s].view[f]
    IN /\ ses[s].at = "parsing"
       /\ ses' = [ses EXCEPT
                    ![s].view[f].parse = IF old.run THEN "succeeded" ELSE "failed",
                    ![s].op = IF @ = "controlled" THEN "parse" ELSE @,
                    ![s].at = "closing"]
       /\ UNCHANGED <<filed, db, holder>>

\* A reparse that fails the regression gate changes nothing on the filing.
ParseQuarantined(s) ==
    /\ ses[s].at = "parsing"
    /\ ses[s].view[ses[s].on].run
    /\ ses' = [ses EXCEPT ![s].at = "closing"]
    /\ UNCHANGED <<filed, db, holder>>

(* _execute_ingest_job, phase 3: a loop over the filings. It passes over a  *)
(* filing with a current run of this version (ingest_if_needed), whose      *)
(* parse status it mends and flushes, and over one that has no information  *)
(* table yet. It does not commit there, so that the row stays remembered,   *)
(* and locked if it was flushed, while the next filings are parsed.         *)
Mended(r) == IF r.run THEN [r EXCEPT !.parse = "succeeded"] ELSE r

NoTableYet(f) ==
    \/ Form[f] \in NTForms
    \/ db[f].where = "unrouted"
    \/ ~db[f].run /\ db[f].parse \in {"pending", "needs_review"}

\* A session that has read f too.
ReadToo(s, f, r) ==
    [ses[s] EXCEPT !.read = @ \cup {f}, !.orig[f] = db[f], !.view[f] = r]

PassOver(s, f) ==
    LET r == Mended(db[f])
    IN /\ "loop" \in Ops
       /\ ses[s].at \in {"idle", "looping"} /\ f \notin ses[s].read
       /\ db[f].where # "absent" /\ (db[f].run \/ NoTableYet(f))
       /\ db[f] # r => f \notin LockedByOthers(s)
       /\ ses' = [ses EXCEPT ![s] =
                    [ReadToo(s, f, r) EXCEPT
                       !.at = "looping", !.op = "loop",
                       !.rows = ses[s].rows \cup {e \in {f} : db[e] # r}]]
       /\ UNCHANGED <<filed, db, holder>>

\* ... and parses the others as above, with what it remembers.
ParseNext(s, f) ==
    /\ ses[s].at = "looping" /\ f \notin ses[s].read
    /\ ~ParsedByOther(s, f)
    /\ db[f].where # "absent" /\ Form[f] \in HRForms
    /\ ses' = [ses EXCEPT ![s] =
                 [ReadToo(s, f, db[f]) EXCEPT !.at = "parsing", !.on = f]]
    /\ UNCHANGED <<filed, db, holder>>

\* Phase 4 commits what the loop has left.
EndLoop(s) ==
    /\ ses[s].at = "looping"
    /\ ses' = [ses EXCEPT ![s].at = "closing"]
    /\ UNCHANGED <<filed, db, holder>>

\* A document that cannot be loaded rolls back what was mended before it.
LoopRollsBack(s) ==
    /\ ses[s].at = "looping"
    /\ ses' = [ses EXCEPT ![s] = Idle]
    /\ UNCHANGED <<filed, db, holder>>

(* controlled_reparse_accession: the validation gate passes, or the prior   *)
(* run is current again and the restatement rejected, in a transaction of   *)
(* its own.                                                                 *)
GatePasses(s) ==
    /\ ses[s].at = "gate"
    /\ ses' = [ses EXCEPT ![s] = Idle]
    /\ UNCHANGED <<filed, db, holder>>

GateFails(s) ==
    LET f == ses[s].on
        r == [db[f] EXCEPT
                !.run = ses[s].orig[f].run,
                !.status = IF f \in Restatements THEN "rejected" ELSE @]
    IN /\ ses[s].at = "gate"
       /\ db[f] # r => f \notin LockedByOthers(s)
       /\ ses' = [ses EXCEPT ![s] =
                    [Reading(s, "gate", f, r) EXCEPT
                       !.at = IF f \in Restatements /\ r.where = "group"
                              THEN "ready" ELSE "closing",
                       !.rows = IF db[f] # r THEN {f} ELSE {}]]
       /\ UNCHANGED <<filed, db, holder>>

-----------------------------------------------------------------------------
(* resolve_amendment on an amendment of the admin page: the period lock     *)
(* first, then the target is read again.                                    *)
Decided(r, d) == [r EXCEPT !.status = d, !.warn = IF d = "applied" THEN FALSE ELSE @]

Resolve(s, f, d) ==
    /\ "resolve" \in Ops
    /\ ses[s].at = "idle"
    /\ f \in Amendments /\ db[f].where # "absent"
    /\ ses' = [ses EXCEPT ![s] =
                 IF db[f].where = "group"
                 THEN [Idle EXCEPT !.op = "resolve", !.on = f, !.decision = d, !.at = "ready"]
                 ELSE [Reading(s, "resolve", f, Decided(db[f], d)) EXCEPT
                         !.decision = d, !.at = "closing"]]
    /\ UNCHANGED <<filed, db, holder>>

(* The sweep over the quarter's groups. The rows of the first group have    *)
(* been read before its lock is taken, those of the others have not.        *)
Sweep(s, first) ==
    /\ "sweep" \in Ops
    /\ ses[s].at = "idle"
    /\ ses' = [ses EXCEPT ![s] = [Idle EXCEPT
                 !.op = "sweep", !.at = "ready",
                 !.read = IF first THEN Group(db) ELSE {},
                 !.orig = IF first THEN db ELSE Empty,
                 !.view = IF first THEN db ELSE Empty]]
    /\ UNCHANGED <<filed, db, holder>>

-----------------------------------------------------------------------------
(* apply_active_filing_policy in a session: take the period lock, query the *)
(* group, decide. Rows read before keep the values they had then, though    *)
(* the query itself goes by the table.                                      *)
Queried(s, known) ==
    [f \in Filings |->
        IF f \notin ses[s].read THEN db[f]
        ELSE IF f \in ses[s].rows THEN known[f]
        ELSE [known[f] EXCEPT !.where = db[f].where]]

TakeLock(s) ==
    LET orig == Queried(s, ses[s].orig)
        seen == Queried(s, ses[s].view)
        view == IF ses[s].op = "resolve"
                THEN [seen EXCEPT ![ses[s].on] = Decided(@, ses[s].decision)]
                ELSE seen
    IN /\ ses[s].at = "ready"
       /\ holder = NoSession
       /\ holder' = s
       /\ ses' = [ses EXCEPT ![s] = [@ EXCEPT !.at = "closing", !.read = Filings,
                                              !.orig = orig, !.view = Policy(view)]]
       /\ UNCHANGED <<filed, db>>

\* Mutant: the lock outlives the transaction (pg_advisory_lock).
KeptLock(s) == holder

Released(s) == IF holder = s THEN NoSession ELSE holder

\* A violated index rolls the decision back. A parse records that it has failed,
\* and what the loop had mended before it is committed with that.
Refused(s) ==
    [f \in Filings |->
        IF ses[s].op \notin {"parse", "controlled", "loop"} THEN db[f]
        ELSE IF f = ses[s].on
             THEN [db[f] EXCEPT !.parse = IF ses[s].orig[f].run THEN "succeeded" ELSE "failed"]
        ELSE IF f \in ses[s].rows THEN [db[f] EXCEPT !.parse = "succeeded"]
        ELSE db[f]]

Commit(s) ==
    /\ ses[s].at = "closing"
    /\ Changed(s) \cap LockedByOthers(s) = {}
    /\ db' = IF IndexAllows(s) THEN Committed(s) ELSE Refused(s)
    /\ ses' = [ses EXCEPT ![s] =
                 IF IndexAllows(s) THEN AfterParse(s) ELSE Idle]
    /\ holder' = Released(s)
    /\ UNCHANGED filed

\* s waits for the period lock of t, or for a row t has locked.
WaitsFor(s, t) ==
    \/ ses[s].at = "ready" /\ holder = t
    \/ ses[s].at = "closing" /\ Changed(s) \cap ses[t].rows # {}
    \/ ses[s].at = "looping" /\ \E f \in ses[t].rows \ ses[s].read : Mended(db[f]) # db[f]

Deadlocked(s) == \E t \in Sessions \ {s} : WaitsFor(s, t) /\ WaitsFor(t, s)

\* The database breaks a deadlock by aborting one of the transactions.
AbortDeadlocked(s) ==
    /\ Deadlocked(s)
    /\ ses' = [ses EXCEPT ![s] = Idle]
    /\ holder' = Released(s)
    /\ UNCHANGED <<filed, db>>

-----------------------------------------------------------------------------
Ingest(s) ==
    \E f \in filed :
        \/ Discover(s, f)
        \/ \E a \in AccTimes[f], w \in Routes[f] : Detail(s, f, a, w) \/ Backfill(s, f, a, w)
        \/ \E E \in {{f}, filed} : Bulk(s, f, E)
        \/ \E op \in {"parse", "controlled"} : StartParse(s, op, f)
        \/ PassOver(s, f) \/ ParseNext(s, f)

Next ==
    \E s \in Sessions :
        \/ Ingest(s)
        \/ ParseOk(s) \/ ParseFails(s) \/ ParseQuarantined(s)
        \/ EndLoop(s) \/ LoopRollsBack(s)
        \/ GatePasses(s) \/ GateFails(s)
        \/ \E f \in filed : \E d \in Orders[f] : Resolve(s, f, d)
        \/ \E first \in BOOLEAN : Sweep(s, first)
        \/ TakeLock(s)
        \/ Commit(s)
        \/ AbortDeadlocked(s)

Spec == Init /\ [][Next]_vars

(* A quarter whose documents have been read, each with a time of its own, one  *)
(* after another: the reports wait to be parsed.                               *)
Routed(f, a) == Normalized(f, Stated(f, NoRow, a, "routed"))

RoutedInit ==
    /\ filed \in Quarters
    /\ \E t \in [filed -> UNION {AccTimes[f] : f \in filed}] :
          /\ \A f \in filed : t[f] \in AccTimes[f] \ {0}
          /\ \A e, f \in filed : e # f => t[e] # t[f]
          /\ db = Policy([f \in Filings |-> IF f \in filed THEN Routed(f, t[f]) ELSE NoRow])
    /\ ses = [s \in Sessions |-> Idle]
    /\ holder = NoSession

\* Parses and loops end, deadlocks are broken, locks are granted in turn.
Fairness ==
    \A s \in Sessions :
        /\ WF_vars(ParseOk(s) \/ ParseFails(s) \/ EndLoop(s) \/ AbortDeadlocked(s))
        /\ SF_vars(TakeLock(s) \/ Commit(s))

RoutedSpec == RoutedInit /\ [][Next]_vars /\ Fairness

-----------------------------------------------------------------------------
Resting == \A s \in Sessions : ses[s].at = "idle"

\* "Demote -> flush -> activate ordering keeps uq_active_filing_per_manager_period
\* satisfied": no session's decision runs into the unique index. A session that acts
\* alone, or parses one filing a transaction, never does; the bulk loop beside another
\* session may, with a row it remembers from before the other's decision.
IndexNeverFires == \A s \in Sessions : ses[s].at = "closing" => IndexAllows(s)

\* A quarter with nothing left to dispute: every filing is routed and parsed,
\* accepted at a time of its own, and not decided about by hand.
Undisputed ==
    /\ filed = Group(db)
    /\ \A f \in filed :
          /\ db[f].acc # 0 /\ db[f].parse = "succeeded"
          /\ db[f].status \notin Parked
          /\ Form[f] = "13F-HR/A" => f \in Restatements \/ db[f].status # "applied"
    /\ \A e, f \in filed : e # f => db[e].acc # db[f].acc

\* Restatements over originals, holdings reports over notices, the amendment of a
\* notice over the notice; an amendment that only adds holdings never.
Tier(f) ==
    CASE Form[f] = "13F-HR/A" -> IF f \in Restatements THEN 4 ELSE 0
      [] Form[f] = "13F-HR" -> 3
      [] Form[f] = "13F-NT/A" -> 2
      [] OTHER -> 1

Rightful(f) ==
    /\ Tier(f) > 0
    /\ \A e \in filed \ {f} :
          \/ Tier(e) < Tier(f)
          \/ Tier(e) = Tier(f) /\ db[e].acc < db[f].acc

\* No wrong winner: however the parses of a quarter's filings interleave, the
\* rightful filing serves when they have ended.
LatestServes == Resting /\ Undisputed => \A f \in filed : db[f].active <=> Rightful(f)

\* History does not matter: whatever disputes there were, once there are none and
\* the policy has nothing left to change, the rightful filing serves.
Settled == Resting /\ Undisputed /\ Policy(db) = db
SettledServes == Settled => \A f \in filed : db[f].active <=> Rightful(f)

\* ... and no trace is left of an earlier dispute about originals or restatements,
\* by which consumers would go on distrusting the filing. An amendment that serves
\* because it is applied may keep the warning of a dispute with another one.
DisputesFade ==
    Settled => \A f \in filed :
                  /\ db[f].warn => Rule(db) = "amendment_owned" /\ db[f].active
                  /\ f \in Restatements \cup (Filings \ Amendments)
                     => db[f].status # "amendments_pending"

\* What a sweep has committed, another sweep would leave alone.
SweepSettles ==
    [][\A s \in Sessions :
          ses[s].op = "sweep" /\ ses[s].at = "closing" /\ ses'[s].at = "idle"
          => Policy(db') = db']_vars

\* "A resolved amendment is terminal": what an admin decided about an amendment
\* stands until an admin, or a failed validation gate, decides again.
DecisionStands ==
    [][\A f \in Filings :
          db[f].status \in Parked /\ db'[f].status # db[f].status
          => \E s \in Sessions : ses[s].on = f /\ ses[s].op \in {"resolve", "gate"}]_vars

\* Every session that waits for the period or has decided gets its turn and ends,
\* at worst because a deadlock is broken by aborting it.
SessionsEnd ==
    \A s \in Sessions : ses[s].at \in {"ready", "closing"} ~> ses[s].at \notin {"ready", "closing"}

\* "a reject immediately hands the slot to the next eligible filing"
RejectHandsOver ==
    [][\A s \in Sessions :
          /\ ses[s].op = "resolve" /\ ses[s].decision = "rejected"
          /\ ses[s].at = "closing" /\ ses'[s].at = "idle"
          => ~db'[ses[s].on].active]_vars

\* "a resolved tie clears amendment_sort_warning everywhere"
ResolvedTieClears ==
    [][\A s \in Sessions :
          /\ ses[s].op = "sweep" /\ ses[s].at = "closing" /\ ses'[s].at = "idle"
          /\ ~Missing(db', Pool(db')) /\ ~Tied(db', Pool(db')) /\ Rule(db') # "none"
          => \A f \in Group(db') : ~db'[f].warn]_vars

\* "concurrent sessions acquire the advisory locks in the same order (no deadlock)"
NoDeadlock == \A s \in Sessions : ~Deadlocked(s)
=============================================================================
