---------------------------- MODULE FilingPolicy ----------------------------
(***************************************************************************)
(* Which 13F filing of one manager and one quarter serves the product:     *)
(* competition_pool and apply_active_filing_policy, the single authority   *)
(* for is_active_for_manager_period, as functions of the group's rows.     *)
(***************************************************************************)
EXTENDS Integers, FiniteSets

CONSTANTS
    Filings,      \* accessions of the manager that may belong to the quarter
    Form,         \* their form types
    Restatements  \* those whose amendment type is RESTATEMENT

Forms == {"13F-HR", "13F-HR/A", "13F-NT", "13F-NT/A"}

ASSUME FilingAssumption ==
    /\ IsFiniteSet(Filings)
    /\ Form \in [Filings -> Forms]
    /\ Restatements \subseteq {f \in Filings : Form[f] \in {"13F-HR/A", "13F-NT/A"}}

Amendments == {f \in Filings : Form[f] \in {"13F-HR/A", "13F-NT/A"}}
HRForms == {"13F-HR", "13F-HR/A"}
NTForms == {"13F-NT", "13F-NT/A"}

\* What takes a parsed restatement out of competition: an admin's decision.
Parked == {"rejected", "informational", "deferred"}
Terminal == Parked \cup {"applied"}
Statuses == Terminal \cup {"no_amendments_seen", "pending_parse", "amendments_pending"}

(* A row. "group" is routed to the quarter; "unrouted" has no quarter. The  *)
(* acceptance times are ordinal, 0 is NULL. run: the accession has a        *)
(* current, succeeded parse run.                                            *)
Row == [where : {"absent", "unrouted", "group"}, active : BOOLEAN,
        status : Statuses, warn : BOOLEAN,
        parse : {"pending", "needs_review", "succeeded", "failed"},
        acc : Nat, run : BOOLEAN]

NoRow == [where |-> "absent", active |-> FALSE, status |-> "no_amendments_seen",
          warn |-> FALSE, parse |-> "pending", acc |-> 0, run |-> FALSE]

Group(g) == {f \in Filings : g[f].where = "group"}
Serving(g) == {f \in Group(g) : g[f].active}

-----------------------------------------------------------------------------
(* competition_pool: the filings that compete, and under which rule.        *)

\* Mutant: a restatement that has been applied competes no more.
CompetingOnce(g) == {f \in Group(g) \cap Restatements :
                        /\ Form[f] \in HRForms
                        /\ g[f].parse = "succeeded"
                        /\ g[f].status \notin Terminal}

Competing(g) == {f \in Group(g) \cap Restatements :
                    /\ Form[f] \in HRForms
                    /\ g[f].parse = "succeeded"
                    /\ g[f].status \notin Parked}

AppliedOf(g, forms) == {f \in Group(g) \cap Amendments :
                           g[f].status = "applied" /\ Form[f] \in forms}

OriginalsOf(g, forms) == {f \in Group(g) \ Amendments : Form[f] \in forms}

Rule(g) ==
    IF Competing(g) # {} THEN "restatement"
    ELSE IF AppliedOf(g, HRForms) # {} THEN "amendment_owned"
    ELSE IF OriginalsOf(g, HRForms) # {} THEN "originals"
    ELSE IF AppliedOf(g, NTForms) # {} THEN "amendment_owned"
    ELSE IF OriginalsOf(g, NTForms) # {} THEN "originals"
    ELSE "none"

\* The HR family comes first: notices compete only where it has nobody.
Leading(hr, nt) == IF hr # {} THEN hr ELSE nt

Pool(g) ==
    CASE Rule(g) = "restatement" -> Competing(g)
      [] Rule(g) = "amendment_owned" -> Leading(AppliedOf(g, HRForms), AppliedOf(g, NTForms))
      [] Rule(g) = "originals" -> Leading(OriginalsOf(g, HRForms), OriginalsOf(g, NTForms))
      [] OTHER -> {}

(* NULL is missing evidence, not the earliest time: it leaves a pool of two *)
(* or more without an order. Otherwise the latest acceptance wins, unless   *)
(* two filings share it.                                                    *)
Several(P) == \E e, f \in P : e # f
Missing(g, P) == Several(P) /\ \E f \in P : g[f].acc = 0
\* Mutant: sorted without reverse=True.
Oldest(g, P) == {f \in P : \A e \in P : g[f].acc <= g[e].acc}
Latest(g, P) == {f \in P : \A e \in P : g[e].acc <= g[f].acc}
Tied(g, P) == ~Missing(g, P) /\ Several(Latest(g, P))

-----------------------------------------------------------------------------
(* apply_active_filing_policy.                                              *)

\* Mutant: the parse status is written to the amendment's.
FlaggedForReview(r) == [r EXCEPT !.warn = TRUE, !.status = "needs_review"]

\* _flag_pending
Flagged(r) == [r EXCEPT !.warn = TRUE,
                        !.status = IF @ \in Terminal THEN @ ELSE "amendments_pending"]

\* What a status was before _flag_pending, as far as it can be told.
Unflagged(f, s) ==
    CASE s = "amendments_pending" /\ f \notin Amendments -> "no_amendments_seen"
      [] s = "amendments_pending" /\ f \in Restatements -> "pending_parse"
      [] OTHER -> s

\* Mutant: the status is looked at after the warning is cleared.
ClearedWarning(f, r) == [r EXCEPT !.warn = FALSE]

\* _clear_stale_residue
Cleared(f, r) ==
    IF r.warn THEN [r EXCEPT !.warn = FALSE, !.status = Unflagged(f, @)] ELSE r

\* No winner: the disputed filings, and who serves meanwhile, are flagged.
Dispute(g, P) ==
    [f \in Filings |-> IF f \in P \cup Serving(g) THEN Flagged(g[f]) ELSE g[f]]

\* No winner under rule 2: only members of the pool may go on serving.
OwnersDispute(g, P) ==
    [f \in Filings |->
        IF f \in P THEN Flagged(g[f])
        ELSE IF f \in Group(g) THEN [g[f] EXCEPT !.active = FALSE] ELSE g[f]]

\* No winner among originals with equal acceptance: none of them serves.
OriginalsTie(g, P) ==
    LET h == [f \in Filings |-> IF f \in P THEN Flagged(g[f]) ELSE g[f]] IN
    [f \in Filings |-> IF f \in Group(g) \ Amendments
                       THEN [h[f] EXCEPT !.active = FALSE] ELSE h[f]]

\* Mutant: only the filings that compete are demoted.
ElectAmongPool(g, w, won) ==
    [f \in Filings |->
        IF f = w THEN won
        ELSE IF f \in Pool(g) THEN [Cleared(f, g[f]) EXCEPT !.active = FALSE]
        ELSE g[f]]

\* _set_active and the recovery that follows it; won is what becomes of the
\* winner's own row.
Elect(g, w, won) ==
    [f \in Filings |->
        IF f = w THEN won
        ELSE IF f \in Group(g) THEN [Cleared(f, g[f]) EXCEPT !.active = FALSE]
        ELSE g[f]]

ElectRestatement(g, w) ==
    Elect(g, w, [g[w] EXCEPT !.active = TRUE, !.status = "applied", !.warn = FALSE])

ElectOwner(g, w) == Elect(g, w, [g[w] EXCEPT !.active = TRUE])

ElectOriginal(g, w) ==
    Elect(g, w, [g[w] EXCEPT !.active = TRUE, !.warn = FALSE,
                             !.status = Unflagged(w, @)])

NobodyServes(g) ==
    [f \in Filings |-> IF f \in Group(g) THEN [g[f] EXCEPT !.active = FALSE] ELSE g[f]]

Policy(g) ==
    LET P == Pool(g)
        w == CHOOSE f \in Latest(g, P) : TRUE
    IN CASE Rule(g) = "none" -> NobodyServes(g)
         [] Rule(g) = "restatement" ->
              IF Missing(g, P) THEN Dispute(g, P)
              ELSE IF Tied(g, P) THEN Dispute(g, Latest(g, P))
              ELSE ElectRestatement(g, w)
         [] Rule(g) = "amendment_owned" ->
              IF Missing(g, P) \/ Tied(g, P) THEN OwnersDispute(g, P)
              ELSE ElectOwner(g, w)
         [] Rule(g) = "originals" ->
              IF Missing(g, P) THEN Dispute(g, P)
              ELSE IF Tied(g, P) THEN OriginalsTie(g, P)
              ELSE ElectOriginal(g, w)
=============================================================================
