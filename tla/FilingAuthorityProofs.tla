----------------------- MODULE FilingAuthorityProofs -----------------------
(***************************************************************************)
(* Proofs about FilingAuthority, for any quarter of any manager.           *)
(***************************************************************************)
EXTENDS FilingAuthority, FiniteSetTheorems, WellFoundedInduction, TLAPS

(* Rows, column by column.                                                  *)

LEMMA SameRow ==
    ASSUME NEW r \in Row, NEW q \in Row,
           r.where = q.where, r.active = q.active, r.status = q.status, r.warn = q.warn,
           r.parse = q.parse, r.acc = q.acc, r.run = q.run
    PROVE  r = q
BY DEF Row

LEMMA FlaggedRow ==
    ASSUME NEW r \in Row
    PROVE  /\ Flagged(r) \in Row
           /\ Flagged(r).where = r.where /\ Flagged(r).active = r.active
           /\ Flagged(r).parse = r.parse /\ Flagged(r).acc = r.acc /\ Flagged(r).run = r.run
           /\ Flagged(r).warn = TRUE
           /\ Flagged(r).status = IF r.status \in Terminal THEN r.status ELSE "amendments_pending"
BY DEF Flagged, Row, Statuses

LEMMA FlaggedAgain == ASSUME NEW r \in Row PROVE Flagged(Flagged(r)) = Flagged(r)
BY FlaggedRow DEF Flagged, Row

LEMMA UnflaggedStatus ==
    ASSUME NEW f, NEW s \in Statuses
    PROVE  /\ Unflagged(f, s) \in Statuses
           /\ Unflagged(f, Unflagged(f, s)) = Unflagged(f, s)
           /\ s \in Terminal => Unflagged(f, s) = s
           /\ Unflagged(f, s) \in Terminal => s \in Terminal
BY DEF Unflagged, Statuses, Terminal, Parked

LEMMA ClearedRow ==
    ASSUME NEW f, NEW r \in Row
    PROVE  /\ Cleared(f, r) \in Row
           /\ Cleared(f, r).where = r.where /\ Cleared(f, r).active = r.active
           /\ Cleared(f, r).parse = r.parse /\ Cleared(f, r).acc = r.acc
           /\ Cleared(f, r).run = r.run /\ Cleared(f, r).warn = FALSE
           /\ Cleared(f, r).status = IF r.warn THEN Unflagged(f, r.status) ELSE r.status
<1>1. Unflagged(f, r.status) \in Statuses
  BY UnflaggedStatus DEF Row
<1>. QED
  BY <1>1 DEF Cleared, Row

-----------------------------------------------------------------------------
(* Pools and their order.                                                   *)

Winner(g) == CHOOSE f \in Latest(g, Pool(g)) : TRUE

Contested(g) == Missing(g, Pool(g)) \/ Tied(g, Pool(g))

LEMMA LatestExists ==
    ASSUME NEW g \in Table, NEW P, P \subseteq Filings, P # {}
    PROVE  Latest(g, P) # {}
<1>. DEFINE Later(f) == {e \in P : g[e].acc > g[f].acc}
            T == {n \in Nat : \E f \in P : Cardinality(Later(f)) = n}
<1>1. \A f \in Filings : g[f].acc \in Nat
  BY DEF Table, Row
<1>2. \A f \in P : IsFiniteSet(Later(f)) /\ Cardinality(Later(f)) \in Nat
  <2>. TAKE f \in P
  <2>1. IsFiniteSet(Later(f))
    BY FilingAssumption, FS_Subset
  <2>. QED
    BY <2>1, FS_CardinalityType
<1>3. T \subseteq Nat /\ T # {}
  BY <1>2
<1>4. PICK n \in T : \A m \in T : ~(<<m, n>> \in OpToRel(<, Nat))
  <2>. HIDE DEF T
  <2>. QED
    BY <1>3, NatLessThanWellFounded, WFMin
<1>5. \A m \in T : ~(m < n)
  BY <1>3, <1>4 DEF OpToRel
<1>6. PICK f \in P : Cardinality(Later(f)) = n
  BY <1>4
<1>7. ASSUME NEW e \in P, g[e].acc > g[f].acc PROVE FALSE
  <2>1. Later(e) \subseteq Later(f) /\ e \in Later(f) /\ e \notin Later(e)
    BY <1>1, <1>7
  <2>2. Cardinality(Later(e)) <= Cardinality(Later(f)) /\ Cardinality(Later(e)) # Cardinality(Later(f))
    BY <1>2, <2>1, FS_Subset
  <2>3. Cardinality(Later(e)) \in T
    BY <1>2
  <2>4. Cardinality(Later(e)) \in Nat /\ Cardinality(Later(f)) \in Nat
    BY <1>2
  <2>5. ~(Cardinality(Later(e)) < Cardinality(Later(f)))
    BY <1>5, <1>6, <2>3
  <2>. QED
    BY <2>2, <2>4, <2>5
<1>. QED
  BY <1>1, <1>7 DEF Latest

LEMMA Pools ==
    ASSUME NEW g
    PROVE  /\ Rule(g) \in {"none", "restatement", "amendment_owned", "originals"}
           /\ Pool(g) \subseteq Group(g) /\ Pool(g) \subseteq Filings
           /\ Rule(g) # "none" => Pool(g) # {}
           /\ Rule(g) = "restatement" => Pool(g) = Competing(g)
           /\ Rule(g) = "restatement" <=> Competing(g) # {}
           /\ Rule(g) = "amendment_owned" =>
                 \A f \in Pool(g) : f \in Amendments /\ g[f].status = "applied"
           /\ Rule(g) = "originals" => \A f \in Pool(g) : f \notin Amendments
<1>1. /\ Competing(g) \subseteq Group(g)
      /\ \A forms : /\ AppliedOf(g, forms) \subseteq Group(g) \cap Amendments
                    /\ OriginalsOf(g, forms) \subseteq Group(g) \ Amendments
                    /\ \A f \in AppliedOf(g, forms) : g[f].status = "applied"
  BY DEF Competing, AppliedOf, OriginalsOf
<1>2. Group(g) \subseteq Filings
  BY DEF Group
<1>. QED
  BY <1>1, <1>2 DEF Rule, Pool, Leading

LEMMA WinnerStands ==
    ASSUME NEW g \in Table, Rule(g) # "none", ~Contested(g)
    PROVE  Winner(g) \in Pool(g) /\ Latest(g, Pool(g)) = {Winner(g)}
<1>1. Latest(g, Pool(g)) # {} /\ Latest(g, Pool(g)) \subseteq Pool(g)
  BY Pools, LatestExists DEF Latest
<1>. QED
  BY <1>1 DEF Winner, Contested, Tied, Several

LEMMA PolicyDoes ==
    ASSUME NEW g
    PROVE  LET P == Pool(g) IN
           /\ Rule(g) = "none" => Policy(g) = NobodyServes(g)
           /\ Rule(g) = "restatement" =>
                 Policy(g) = IF Missing(g, P) THEN Dispute(g, P)
                             ELSE IF Tied(g, P) THEN Dispute(g, Latest(g, P))
                             ELSE ElectRestatement(g, Winner(g))
           /\ Rule(g) = "amendment_owned" =>
                 Policy(g) = IF Contested(g) THEN OwnersDispute(g, P) ELSE ElectOwner(g, Winner(g))
           /\ Rule(g) = "originals" =>
                 Policy(g) = IF Missing(g, P) THEN Dispute(g, P)
                             ELSE IF Tied(g, P) THEN OriginalsTie(g, P)
                             ELSE ElectOriginal(g, Winner(g))
BY DEF Policy, Winner, Contested

-----------------------------------------------------------------------------
(* What a decision leaves of a row: everything that is not about serving,   *)
(* and what was decided by hand.                                            *)

SameFiling(r, q) == q.where = r.where /\ q.parse = r.parse /\ q.acc = r.acc /\ q.run = r.run

SameStanding(r, q) ==
    /\ r.status \in Terminal => q.status = r.status
    /\ q.status \in Terminal => r.status \in Terminal

Keeps(r, q) == q \in Row /\ SameFiling(r, q) /\ SameStanding(r, q)

LEMMA KeepsItself == ASSUME NEW r \in Row PROVE Keeps(r, r)
BY DEF Keeps, SameFiling, SameStanding

LEMMA KeepsFlagged == ASSUME NEW r \in Row PROVE Keeps(r, Flagged(r))
BY FlaggedRow DEF Keeps, SameFiling, SameStanding, Terminal, Parked

LEMMA KeepsActive ==
    ASSUME NEW r \in Row, NEW q, Keeps(r, q), NEW b \in BOOLEAN
    PROVE  /\ Keeps(r, [q EXCEPT !.active = b])
           /\ [q EXCEPT !.active = b].active = b
           /\ [q EXCEPT !.active = b].warn = q.warn
           /\ [q EXCEPT !.active = b].status = q.status
<1>1. [q EXCEPT !.active = b] \in Row /\ q \in Row
  BY DEF Keeps, Row
<1>. QED
  BY <1>1 DEF Keeps, SameFiling, SameStanding, Row

LEMMA KeepsCleared == ASSUME NEW f, NEW r \in Row PROVE Keeps(r, Cleared(f, r))
<1>1. r.status \in Statuses
  BY DEF Row
<1>2. /\ r.status \in Terminal => Unflagged(f, r.status) = r.status
      /\ Unflagged(f, r.status) \in Terminal => r.status \in Terminal
  BY <1>1, UnflaggedStatus
<1>3. SameStanding(r, Cleared(f, r))
  BY <1>2, ClearedRow DEF SameStanding
<1>4. Cleared(f, r) \in Row /\ SameFiling(r, Cleared(f, r))
  BY ClearedRow DEF SameFiling
<1>. QED
  BY <1>3, <1>4 DEF Keeps

LEMMA RestatementWins ==
    ASSUME NEW r \in Row
    PROVE  LET q == [r EXCEPT !.active = TRUE, !.status = "applied", !.warn = FALSE] IN
           /\ q \in Row /\ SameFiling(r, q)
           /\ q.active = TRUE /\ q.status = "applied" /\ q.warn = FALSE
BY DEF Row, SameFiling, Statuses, Terminal

LEMMA OriginalWins ==
    ASSUME NEW f, NEW r \in Row
    PROVE  LET q == [r EXCEPT !.active = TRUE, !.warn = FALSE, !.status = Unflagged(f, @)] IN
           /\ Keeps(r, q)
           /\ q.active = TRUE /\ q.warn = FALSE /\ q.status = Unflagged(f, r.status)
<1>1. r.status \in Statuses
  BY DEF Row
<1>2. Unflagged(f, r.status) \in Statuses
  BY <1>1, UnflaggedStatus
<1>3. LET q == [r EXCEPT !.active = TRUE, !.warn = FALSE, !.status = Unflagged(f, @)] IN
      /\ q \in Row /\ SameFiling(r, q)
      /\ q.active = TRUE /\ q.warn = FALSE /\ q.status = Unflagged(f, r.status)
  BY <1>2 DEF Row, SameFiling
<1>. QED
  BY <1>1, <1>3, UnflaggedStatus DEF Keeps, SameStanding

-----------------------------------------------------------------------------
(* The policy decides again as it has decided.                              *)

LEMMA PolicyKeeps ==
    ASSUME NEW g \in Table
    PROVE  /\ Policy(g) = [f \in Filings |-> Policy(g)[f]]
           /\ \A f \in Filings :
                 \/ Keeps(g[f], Policy(g)[f])
                 \/ /\ Rule(g) = "restatement" /\ ~Contested(g) /\ f = Winner(g)
                    /\ Policy(g)[f] = [g[f] EXCEPT !.active = TRUE, !.status = "applied",
                                                   !.warn = FALSE]
<1>. DEFINE Works(h) ==
              /\ h = [f \in Filings |-> h[f]]
              /\ \A f \in Filings :
                    \/ Keeps(g[f], h[f])
                    \/ /\ Rule(g) = "restatement" /\ ~Contested(g) /\ f = Winner(g)
                       /\ h[f] = [g[f] EXCEPT !.active = TRUE, !.status = "applied",
                                              !.warn = FALSE]
<1>1. \A f \in Filings : /\ g[f] \in Row /\ Keeps(g[f], g[f]) /\ Keeps(g[f], Flagged(g[f]))
                         /\ Keeps(g[f], Cleared(f, g[f]))
  BY KeepsItself, KeepsFlagged, KeepsCleared DEF Table
<1>2. \A f \in Filings : \A q : Keeps(g[f], q) => Keeps(g[f], [q EXCEPT !.active = FALSE])
  BY <1>1, KeepsActive
<1>3. \A P : Works(Dispute(g, P))
  BY <1>1 DEF Dispute
<1>4. \A P : Works(OwnersDispute(g, P))
  BY <1>1, <1>2 DEF OwnersDispute
<1>5. \A P : Works(OriginalsTie(g, P))
  <2>. TAKE P
  <2>. DEFINE h == [f \in Filings |-> IF f \in P THEN Flagged(g[f]) ELSE g[f]]
  <2>1. \A f \in Filings : Keeps(g[f], h[f]) /\ Keeps(g[f], [h[f] EXCEPT !.active = FALSE])
    BY <1>1, <1>2
  <2>. QED
    BY <2>1 DEF OriginalsTie
<1>6. Works(NobodyServes(g))
  BY <1>1, <1>2 DEF NobodyServes
<1>7. \A w \in Filings : \A won :
         Keeps(g[w], won) \/ (/\ Rule(g) = "restatement" /\ ~Contested(g) /\ w = Winner(g)
                              /\ won = [g[w] EXCEPT !.active = TRUE, !.status = "applied",
                                                    !.warn = FALSE])
         => Works(Elect(g, w, won))
  BY <1>1, <1>2 DEF Elect
<1>8. ASSUME Rule(g) = "restatement", ~Contested(g) PROVE Works(ElectRestatement(g, Winner(g)))
  <2>1. Winner(g) \in Filings
    BY <1>8, Pools, WinnerStands
  <2>. QED
    BY <1>7, <1>8, <2>1 DEF ElectRestatement
<1>9. \A w \in Filings : Works(ElectOwner(g, w)) /\ Works(ElectOriginal(g, w))
  <2>. TAKE w \in Filings
  <2>1. Keeps(g[w], [g[w] EXCEPT !.active = TRUE])
    BY <1>1, KeepsActive
  <2>2. Keeps(g[w], [g[w] EXCEPT !.active = TRUE, !.warn = FALSE, !.status = Unflagged(w, @)])
    BY <1>1, OriginalWins
  <2>. QED
    BY <1>7, <2>1, <2>2 DEF ElectOwner, ElectOriginal
<1>10. Rule(g) # "none" /\ ~Contested(g) => Winner(g) \in Filings
  BY Pools, WinnerStands
<1>11. Works(Policy(g))
  <2>. HIDE DEF Works
  <2>. QED
    BY <1>3, <1>4, <1>5, <1>6, <1>8, <1>9, <1>10, PolicyDoes, Pools DEF Contested
<1>. QED
  BY <1>11

LEMMA PolicyTypes ==
    ASSUME NEW g \in Table
    PROVE  /\ Policy(g) \in Table
           /\ \A f \in Filings : Policy(g)[f] \in Row /\ SameFiling(g[f], Policy(g)[f])
<1>1. \A f \in Filings : g[f] \in Row
  BY DEF Table
<1>2. \A f \in Filings : Policy(g)[f] \in Row /\ SameFiling(g[f], Policy(g)[f])
  <2>. TAKE f \in Filings
  <2>1. CASE Keeps(g[f], Policy(g)[f])
    BY <2>1 DEF Keeps
  <2>2. CASE Policy(g)[f] = [g[f] EXCEPT !.active = TRUE, !.status = "applied", !.warn = FALSE]
    BY <1>1, <2>2, RestatementWins
  <2>. QED
    BY <2>1, <2>2, PolicyKeeps
<1>. QED
  BY <1>2, PolicyKeeps DEF Table

LEMMA SameOrder ==
    ASSUME NEW g, NEW h, \A f \in Filings : h[f].acc = g[f].acc
    PROVE  \A P \in SUBSET Filings : /\ Missing(h, P) = Missing(g, P)
                                     /\ Latest(h, P) = Latest(g, P)
                                     /\ Tied(h, P) = Tied(g, P)
<1>. TAKE P \in SUBSET Filings
<1>1. Missing(h, P) <=> Missing(g, P)
  BY DEF Missing
<1>2. Latest(h, P) = Latest(g, P)
  BY DEF Latest
<1>. QED
  BY <1>1, <1>2 DEF Tied, Missing

LEMMA SamePool ==
    ASSUME NEW g \in Table
    PROVE  LET h == Policy(g) IN
           /\ Group(h) = Group(g) /\ Competing(h) = Competing(g)
           /\ Rule(h) = Rule(g) /\ Pool(h) = Pool(g)
           /\ Winner(h) = Winner(g) /\ Contested(h) = Contested(g)
           /\ \A P \in SUBSET Filings : /\ Missing(h, P) = Missing(g, P)
                                        /\ Latest(h, P) = Latest(g, P)
                                        /\ Tied(h, P) = Tied(g, P)
<1>. DEFINE h == Policy(g)
<1>1. \A f \in Filings : h[f] \in Row /\ SameFiling(g[f], h[f])
  BY PolicyTypes
<1>. HIDE DEF h
<1>2. Group(h) = Group(g)
  BY <1>1 DEF Group, SameFiling
<1>3. \A P \in SUBSET Filings : /\ Missing(h, P) = Missing(g, P)
                                /\ Latest(h, P) = Latest(g, P)
                                /\ Tied(h, P) = Tied(g, P)
  BY <1>1, SameOrder DEF SameFiling
<1>4. ASSUME Rule(g) = "restatement", ~Contested(g)
      PROVE  Winner(g) \in Competing(g) /\ h[Winner(g)].status = "applied"
  <2>1. Winner(g) \in Competing(g)
    BY <1>4, WinnerStands, Pools
  <2>2. h = ElectRestatement(g, Winner(g)) /\ Winner(g) \in Filings
    BY <1>4, <2>1, PolicyDoes DEF h, Contested, Competing, Group
  <2>3. h[Winner(g)] = [g[Winner(g)] EXCEPT !.active = TRUE, !.status = "applied", !.warn = FALSE]
    BY <2>2 DEF ElectRestatement, Elect
  <2>. QED
    BY <2>1, <2>2, <2>3, RestatementWins DEF Table
<1>5. \A f \in Filings : \/ SameStanding(g[f], h[f])
                         \/ /\ Rule(g) = "restatement" /\ ~Contested(g) /\ f = Winner(g)
  BY PolicyKeeps DEF h, Keeps
<1>6. \A f \in Group(g) : \/ h[f].status \in Parked <=> g[f].status \in Parked
                          \/ f \in Competing(g) /\ h[f].status = "applied"
  BY <1>4, <1>5 DEF SameStanding, Terminal, Group
<1>7. Competing(h) = Competing(g)
  <2>1. \A f \in Group(g) \cap Restatements :
           Form[f] \in HRForms /\ h[f].parse = "succeeded" /\ h[f].status \notin Parked
           <=> Form[f] \in HRForms /\ g[f].parse = "succeeded" /\ g[f].status \notin Parked
    BY <1>1, <1>6 DEF SameFiling, Competing, Parked, Group
  <2>. QED
    BY <1>2, <2>1 DEF Competing
<1>8. \A forms : OriginalsOf(h, forms) = OriginalsOf(g, forms)
  BY <1>2 DEF OriginalsOf
<1>9. Rule(g) # "restatement" => \A forms : AppliedOf(h, forms) = AppliedOf(g, forms)
  <2>1. Rule(g) # "restatement" => \A f \in Filings : h[f].status = "applied" <=> g[f].status = "applied"
    BY <1>5 DEF SameStanding, Terminal
  <2>. QED
    BY <1>2, <2>1 DEF AppliedOf, Group
<1>10. Rule(h) = Rule(g) /\ Pool(h) = Pool(g)
  <2>1. CASE Competing(g) # {}
    BY <1>7, <2>1, Pools
  <2>2. CASE Competing(g) = {}
    <3>1. \A forms : AppliedOf(h, forms) = AppliedOf(g, forms)
      BY <1>9, <2>2, Pools
    <3>2. Rule(h) = Rule(g)
      BY <1>7, <1>8, <2>2, <3>1 DEF Rule
    <3>. QED
      BY <1>7, <1>8, <3>1, <3>2 DEF Pool
  <2>. QED
    BY <2>1, <2>2
<1>11. Pool(g) \in SUBSET Filings
  BY Pools
<1>12. Winner(h) = Winner(g) /\ Contested(h) = Contested(g)
  BY <1>3, <1>10, <1>11 DEF Winner, Contested
<1>. QED
  BY <1>2, <1>3, <1>7, <1>10, <1>12 DEF h

LEMMA RowStays ==
    ASSUME NEW f, NEW r \in Row
    PROVE  /\ r.warn = TRUE /\ r.status \in Terminal \cup {"amendments_pending"} => Flagged(r) = r
           /\ r.warn = FALSE => Cleared(f, r) = r
           /\ \A b \in BOOLEAN : r.active = b => [r EXCEPT !.active = b] = r
           /\ r.active = TRUE /\ r.warn = FALSE /\ r.status = "applied"
                => [r EXCEPT !.active = TRUE, !.status = "applied", !.warn = FALSE] = r
           /\ r.active = TRUE /\ r.warn = FALSE /\ Unflagged(f, r.status) = r.status
                => [r EXCEPT !.active = TRUE, !.warn = FALSE, !.status = Unflagged(f, @)] = r
<1>1. Flagged(r) \in Row /\ Cleared(f, r) \in Row
  BY FlaggedRow, ClearedRow
<1>2. r.warn = TRUE /\ r.status \in Terminal \cup {"amendments_pending"} => Flagged(r) = r
  <2>. SUFFICES ASSUME r.warn = TRUE, r.status \in Terminal \cup {"amendments_pending"}
                PROVE  Flagged(r) = r
    OBVIOUS
  <2>1. Flagged(r).status = r.status /\ Flagged(r).warn = r.warn
    BY FlaggedRow
  <2>2. /\ Flagged(r).where = r.where /\ Flagged(r).active = r.active
        /\ Flagged(r).parse = r.parse /\ Flagged(r).acc = r.acc /\ Flagged(r).run = r.run
    BY FlaggedRow
  <2>. QED
    BY <1>1, <2>1, <2>2, SameRow
<1>3. r.warn = FALSE => Cleared(f, r) = r
  BY DEF Cleared
<1>4. \A b \in BOOLEAN : r.active = b => [r EXCEPT !.active = b] = r
  BY DEF Row
<1>5. r.active = TRUE /\ r.warn = FALSE /\ r.status = "applied"
        => [r EXCEPT !.active = TRUE, !.status = "applied", !.warn = FALSE] = r
  BY DEF Row
<1>6. r.active = TRUE /\ r.warn = FALSE /\ Unflagged(f, r.status) = r.status
        => [r EXCEPT !.active = TRUE, !.warn = FALSE, !.status = Unflagged(f, @)] = r
  BY DEF Row
<1>. QED
  BY <1>2, <1>3, <1>4, <1>5, <1>6

LEMMA DisputeStays ==
    ASSUME NEW g \in Table, NEW P, NEW h, h = Dispute(g, P)
    PROVE  Dispute(h, P) = h
<1>1. \A f \in Filings : g[f] \in Row
  BY DEF Table
<1>2. \A f \in Filings : h[f] = IF f \in P \cup Serving(g) THEN Flagged(g[f]) ELSE g[f]
  BY DEF Dispute
<1>3. \A f \in Filings : h[f].where = g[f].where /\ h[f].active = g[f].active
  BY <1>1, <1>2, FlaggedRow
<1>4. Serving(h) = Serving(g)
  BY <1>3 DEF Serving, Group
<1>5. \A f \in Filings : f \in P \cup Serving(g) => Flagged(h[f]) = h[f]
  BY <1>1, <1>2, FlaggedAgain
<1>. QED
  BY <1>2, <1>4, <1>5 DEF Dispute

LEMMA OwnersDisputeStays ==
    ASSUME NEW g \in Table, NEW P, NEW h, h = OwnersDispute(g, P), Group(h) = Group(g)
    PROVE  OwnersDispute(h, P) = h
<1>1. \A f \in Filings : g[f] \in Row
  BY DEF Table
<1>2. \A f \in Filings : h[f] = IF f \in P THEN Flagged(g[f])
                                ELSE IF f \in Group(g) THEN [g[f] EXCEPT !.active = FALSE] ELSE g[f]
  BY DEF OwnersDispute
<1>3. \A f \in P \cap Filings : Flagged(h[f]) = h[f]
  BY <1>1, <1>2, FlaggedAgain
<1>4. \A f \in Group(g) \ P : [h[f] EXCEPT !.active = FALSE] = h[f]
  BY <1>1, <1>2 DEF Group, Row
<1>. QED
  BY <1>2, <1>3, <1>4 DEF OwnersDispute

LEMMA NobodyStays ==
    ASSUME NEW g \in Table, NEW h, h = NobodyServes(g), Group(h) = Group(g)
    PROVE  NobodyServes(h) = h
<1>1. \A f \in Filings : g[f] \in Row
  BY DEF Table
<1>2. \A f \in Filings : h[f] = IF f \in Group(g) THEN [g[f] EXCEPT !.active = FALSE] ELSE g[f]
  BY DEF NobodyServes
<1>3. \A f \in Group(g) : [h[f] EXCEPT !.active = FALSE] = h[f]
  BY <1>1, <1>2 DEF Group, Row
<1>. QED
  BY <1>2, <1>3 DEF NobodyServes

LEMMA OriginalsTieStays ==
    ASSUME NEW g \in Table, NEW P, NEW h, h = OriginalsTie(g, P), Group(h) = Group(g),
           P \subseteq Group(g) \ Amendments
    PROVE  OriginalsTie(h, P) = h
<1>1. \A f \in Filings : g[f] \in Row /\ Flagged(g[f]) \in Row
  BY FlaggedRow DEF Table
<1>2. \A f \in Filings :
         h[f] = IF f \in Group(g) \ Amendments
                THEN [(IF f \in P THEN Flagged(g[f]) ELSE g[f]) EXCEPT !.active = FALSE]
                ELSE g[f]
  BY DEF OriginalsTie
<1>3. \A f \in P : h[f] \in Row /\ h[f].warn = TRUE /\ h[f].active = FALSE
                   /\ h[f].status \in Terminal \cup {"amendments_pending"}
  <2>. TAKE f \in P
  <2>1. f \in Filings
    BY DEF Group
  <2>2. h[f] = [Flagged(g[f]) EXCEPT !.active = FALSE]
    BY <1>2, <2>1
  <2>3. Keeps(g[f], Flagged(g[f]))
    BY <1>1, <2>1, KeepsFlagged
  <2>4. /\ Keeps(g[f], h[f]) /\ h[f].active = FALSE
        /\ h[f].warn = Flagged(g[f]).warn /\ h[f].status = Flagged(g[f]).status
    <3>. DEFINE r == g[f]
                q == Flagged(g[f])
    <3>1. r \in Row /\ Keeps(r, q) /\ FALSE \in BOOLEAN /\ h[f] = [q EXCEPT !.active = FALSE]
      BY <1>1, <2>1, <2>2, <2>3
    <3>. HIDE DEF r, q
    <3>2. /\ Keeps(r, [q EXCEPT !.active = FALSE]) /\ [q EXCEPT !.active = FALSE].active = FALSE
          /\ [q EXCEPT !.active = FALSE].warn = q.warn
          /\ [q EXCEPT !.active = FALSE].status = q.status
      BY <3>1, KeepsActive
    <3>3. Keeps(r, h[f]) /\ h[f].active = FALSE /\ h[f].warn = q.warn /\ h[f].status = q.status
      BY <3>1, <3>2
    <3>. QED
      BY <3>3 DEF r, q
  <2>. QED
    BY <1>1, <2>1, <2>4, FlaggedRow DEF Keeps
<1>4. \A f \in P : Flagged(h[f]) = h[f]
  BY <1>3, RowStays
<1>5. \A f \in Group(g) \ Amendments : [h[f] EXCEPT !.active = FALSE] = h[f]
  BY <1>1, <1>2 DEF Group, Row
<1>6. \A f \in Filings : f \in P => f \in Group(g) \ Amendments
  OBVIOUS
<1>. QED
  BY <1>2, <1>4, <1>5, <1>6 DEF OriginalsTie

LEMMA ElectStays ==
    ASSUME NEW g \in Table, NEW w \in Filings, NEW won, NEW h, h = Elect(g, w, won),
           Group(h) = Group(g)
    PROVE  h[w] = won /\ Elect(h, w, won) = h
<1>1. \A f \in Filings : g[f] \in Row
  BY DEF Table
<1>2. \A f \in Filings : h[f] = IF f = w THEN won
                                ELSE IF f \in Group(g)
                                     THEN [Cleared(f, g[f]) EXCEPT !.active = FALSE] ELSE g[f]
  BY DEF Elect
<1>3. \A f \in Group(g) \ {w} : [Cleared(f, h[f]) EXCEPT !.active = FALSE] = h[f]
  <2>. TAKE f \in Group(g) \ {w}
  <2>1. f \in Filings /\ g[f] \in Row /\ h[f] = [Cleared(f, g[f]) EXCEPT !.active = FALSE]
    BY <1>1, <1>2 DEF Group
  <2>2. Cleared(f, g[f]) \in Row /\ Cleared(f, g[f]).warn = FALSE
    BY <2>1, ClearedRow
  <2>3. h[f] \in Row /\ h[f].warn = FALSE /\ h[f].active = FALSE
    BY <2>1, <2>2 DEF Row
  <2>4. Cleared(f, h[f]) = h[f] /\ [h[f] EXCEPT !.active = FALSE] = h[f]
    BY <2>3, RowStays
  <2>. QED
    BY <2>4
<1>. QED
  BY <1>2, <1>3 DEF Elect

LEMMA ElectedStays ==
    ASSUME NEW g \in Table, NEW w \in Filings
    PROVE  /\ \A h : h = ElectRestatement(g, w) /\ Group(h) = Group(g) => ElectRestatement(h, w) = h
           /\ \A h : h = ElectOwner(g, w) /\ Group(h) = Group(g) => ElectOwner(h, w) = h
           /\ \A h : h = ElectOriginal(g, w) /\ Group(h) = Group(g) => ElectOriginal(h, w) = h
<1>. g[w] \in Row /\ g[w].status \in Statuses
  BY DEF Table, Row
<1>1. ASSUME NEW h, h = ElectRestatement(g, w), Group(h) = Group(g) PROVE ElectRestatement(h, w) = h
  <2>. DEFINE won == [g[w] EXCEPT !.active = TRUE, !.status = "applied", !.warn = FALSE]
  <2>1. won \in Row /\ won.active = TRUE /\ won.status = "applied" /\ won.warn = FALSE
    BY RestatementWins
  <2>2. h = Elect(g, w, won)
    BY <1>1 DEF ElectRestatement
  <2>. HIDE DEF won
  <2>3. h[w] = won /\ Elect(h, w, won) = h
    BY <1>1, <2>2, ElectStays
  <2>4. [won EXCEPT !.active = TRUE, !.status = "applied", !.warn = FALSE] = won
    BY <2>1, RowStays
  <2>. QED
    BY <2>3, <2>4 DEF ElectRestatement
<1>2. ASSUME NEW h, h = ElectOwner(g, w), Group(h) = Group(g) PROVE ElectOwner(h, w) = h
  <2>. DEFINE won == [g[w] EXCEPT !.active = TRUE]
  <2>1. won \in Row /\ won.active = TRUE
    BY DEF Row
  <2>2. h = Elect(g, w, won)
    BY <1>2 DEF ElectOwner
  <2>. HIDE DEF won
  <2>3. h[w] = won /\ Elect(h, w, won) = h
    BY <1>2, <2>2, ElectStays
  <2>4. [won EXCEPT !.active = TRUE] = won
    BY <2>1 DEF Row
  <2>. QED
    BY <2>3, <2>4 DEF ElectOwner
<1>3. ASSUME NEW h, h = ElectOriginal(g, w), Group(h) = Group(g) PROVE ElectOriginal(h, w) = h
  <2>. DEFINE won == [g[w] EXCEPT !.active = TRUE, !.warn = FALSE, !.status = Unflagged(w, @)]
  <2>1. won \in Row /\ won.active = TRUE /\ won.warn = FALSE /\ won.status = Unflagged(w, g[w].status)
    BY OriginalWins DEF Keeps
  <2>2. h = Elect(g, w, won)
    BY <1>3 DEF ElectOriginal
  <2>. HIDE DEF won
  <2>3. h[w] = won /\ Elect(h, w, won) = h
    BY <1>3, <2>2, ElectStays
  <2>4. Unflagged(w, won.status) = won.status
    BY <2>1, UnflaggedStatus
  <2>5. [won EXCEPT !.active = TRUE, !.warn = FALSE, !.status = Unflagged(w, @)] = won
    BY <2>1, <2>4, RowStays
  <2>. QED
    BY <2>3, <2>5 DEF ElectOriginal
<1>. QED
  BY <1>1, <1>2, <1>3

\* What the policy has decided, it would decide again.
LEMMA DecidesOnce == ASSUME NEW g \in Table PROVE Policy(Policy(g)) = Policy(g)
<1>. DEFINE h == Policy(g)
            P == Pool(g)
<1>1. /\ Group(h) = Group(g) /\ Rule(h) = Rule(g) /\ Pool(h) = P
      /\ Winner(h) = Winner(g) /\ Contested(h) = Contested(g)
      /\ \A Q \in SUBSET Filings : /\ Missing(h, Q) = Missing(g, Q) /\ Latest(h, Q) = Latest(g, Q)
                                   /\ Tied(h, Q) = Tied(g, Q)
  BY SamePool
<1>2. P \in SUBSET Filings
  BY Pools
<1>3. Missing(h, P) = Missing(g, P) /\ Latest(h, P) = Latest(g, P) /\ Tied(h, P) = Tied(g, P)
  BY <1>1, <1>2
<1>4. Rule(g) # "none" /\ ~Contested(g) => Winner(g) \in Filings
  BY WinnerStands, Pools
<1>5. CASE Rule(g) = "none"
  <2>1. h = NobodyServes(g) /\ Policy(h) = NobodyServes(h)
    BY <1>1, <1>5, PolicyDoes
  <2>. QED
    BY <1>1, <2>1, NobodyStays
<1>6. CASE Rule(g) = "restatement"
  <2>1. /\ h = IF Missing(g, P) THEN Dispute(g, P)
               ELSE IF Tied(g, P) THEN Dispute(g, Latest(g, P)) ELSE ElectRestatement(g, Winner(g))
        /\ Policy(h) = IF Missing(g, P) THEN Dispute(h, P)
                       ELSE IF Tied(g, P) THEN Dispute(h, Latest(g, P))
                       ELSE ElectRestatement(h, Winner(g))
    BY <1>1, <1>3, <1>6, PolicyDoes
  <2>. SUFFICES Policy(h) = h
    OBVIOUS
  <2>. HIDE DEF h, P
  <2>. QED
    BY <1>1, <1>4, <1>6, <2>1, DisputeStays, ElectedStays DEF Contested, P
<1>7. CASE Rule(g) = "amendment_owned"
  <2>1. /\ h = IF Contested(g) THEN OwnersDispute(g, P) ELSE ElectOwner(g, Winner(g))
        /\ Policy(h) = IF Contested(g) THEN OwnersDispute(h, P) ELSE ElectOwner(h, Winner(g))
    BY <1>1, <1>7, PolicyDoes
  <2>. SUFFICES Policy(h) = h
    OBVIOUS
  <2>. HIDE DEF h, P
  <2>. QED
    BY <1>1, <1>4, <1>7, <2>1, OwnersDisputeStays, ElectedStays
<1>8. CASE Rule(g) = "originals"
  <2>1. /\ h = IF Missing(g, P) THEN Dispute(g, P)
               ELSE IF Tied(g, P) THEN OriginalsTie(g, P) ELSE ElectOriginal(g, Winner(g))
        /\ Policy(h) = IF Missing(g, P) THEN Dispute(h, P)
                       ELSE IF Tied(g, P) THEN OriginalsTie(h, P) ELSE ElectOriginal(h, Winner(g))
    BY <1>1, <1>3, <1>8, PolicyDoes
  <2>2. P \subseteq Group(g) \ Amendments
    BY <1>8, Pools
  <2>. SUFFICES Policy(h) = h
    OBVIOUS
  <2>. HIDE DEF h, P
  <2>. QED
    BY <1>1, <1>4, <1>8, <2>1, <2>2, DisputeStays, OriginalsTieStays, ElectedStays DEF Contested, P
<1>. QED
  BY <1>5, <1>6, <1>7, <1>8, Pools

-----------------------------------------------------------------------------
(* Who serves once it has decided.                                          *)

LEMMA ServesAfter ==
    ASSUME NEW g \in Table
    PROVE  LET h == Policy(g) IN
           /\ \A f \in Filings \ Group(g) : h[f] = g[f]
           /\ Rule(g) = "none" => \A f \in Group(g) : ~h[f].active
           /\ Contested(g) /\ Rule(g) # "none" => \A f \in Group(g) : h[f].active => g[f].active
           /\ ~Contested(g) /\ Rule(g) # "none" =>
                 /\ Winner(g) \in Group(g)
                 /\ \A f \in Group(g) : h[f].active <=> f = Winner(g)
                 /\ \A f \in Group(g) \ {Winner(g)} : h[f] = [Cleared(f, g[f]) EXCEPT !.active = FALSE]
<1>. DEFINE h == Policy(g)
            P == Pool(g)
            w == Winner(g)
<1>1. \A f \in Filings : /\ g[f] \in Row /\ Flagged(g[f]) \in Row /\ Cleared(f, g[f]) \in Row
                         /\ Flagged(g[f]).active = g[f].active
                         /\ Unflagged(f, g[f].status) \in Statuses
  BY FlaggedRow, ClearedRow, UnflaggedStatus DEF Table, Row
<1>2. Group(g) \subseteq Filings /\ P \subseteq Group(g)
  BY Pools DEF Group
<1>3. Rule(g) # "none" /\ ~Contested(g) => w \in Group(g)
  BY WinnerStands, Pools
<1>4. ASSUME NEW Q, Q \subseteq Group(g), h = Dispute(g, Q)
      PROVE  \A f \in Filings : h[f].active = g[f].active /\ (f \notin Group(g) => h[f] = g[f])
  BY <1>1, <1>4 DEF Dispute, Serving
<1>5. ASSUME h = OwnersDispute(g, P)
      PROVE  \A f \in Filings : (h[f].active => g[f].active) /\ (f \notin Group(g) => h[f] = g[f])
  <2>1. \A f \in Filings : h[f] = IF f \in P THEN Flagged(g[f])
                                  ELSE IF f \in Group(g) THEN [g[f] EXCEPT !.active = FALSE] ELSE g[f]
    BY <1>5 DEF OwnersDispute
  <2>. HIDE DEF h, P
  <2>. QED
    BY <1>1, <1>2, <2>1 DEF Row
<1>6. ASSUME h = OriginalsTie(g, P), Rule(g) = "originals"
      PROVE  \A f \in Filings : (h[f].active => g[f].active) /\ (f \notin Group(g) => h[f] = g[f])
  <2>1. \A f \in Filings :
           h[f] = IF f \in Group(g) \ Amendments
                  THEN [(IF f \in P THEN Flagged(g[f]) ELSE g[f]) EXCEPT !.active = FALSE]
                  ELSE IF f \in P THEN Flagged(g[f]) ELSE g[f]
    BY <1>6 DEF OriginalsTie
  <2>2. \A f \in P : f \notin Amendments
    BY <1>6, Pools
  <2>. HIDE DEF h, P
  <2>3. \A f \in Group(g) \ Amendments : h[f].active = FALSE
    <3>. TAKE f \in Group(g) \ Amendments
    <3>1. f \in Filings /\ \E r \in Row : h[f] = [r EXCEPT !.active = FALSE]
      BY <1>1, <1>2, <2>1
    <3>. QED
      BY <3>1 DEF Row
  <2>4. \A f \in Filings : f \notin Group(g) \ Amendments => h[f] = g[f]
    BY <1>2, <2>1, <2>2
  <2>. QED
    BY <2>3, <2>4
<1>7. ASSUME h = NobodyServes(g)
      PROVE  \A f \in Filings : IF f \in Group(g) THEN ~h[f].active ELSE h[f] = g[f]
  BY <1>1, <1>7 DEF NobodyServes, Row
<1>8. ASSUME NEW won, won.active = TRUE, h = Elect(g, w, won), w \in Group(g)
      PROVE  \A f \in Filings :
                /\ f \in Group(g) => (h[f].active <=> f = w)
                /\ f \notin Group(g) => h[f] = g[f]
                /\ f \in Group(g) \ {w} => h[f] = [Cleared(f, g[f]) EXCEPT !.active = FALSE]
  <2>1. \A f \in Filings : h[f] = IF f = w THEN won
                                  ELSE IF f \in Group(g)
                                       THEN [Cleared(f, g[f]) EXCEPT !.active = FALSE] ELSE g[f]
    BY <1>8 DEF Elect
  <2>. HIDE DEF h, w
  <2>. QED
    BY <1>1, <1>2, <1>8, <2>1 DEF Row
<1>9. ASSUME w \in Group(g)
      PROVE  /\ [g[w] EXCEPT !.active = TRUE].active = TRUE
             /\ [g[w] EXCEPT !.active = TRUE, !.status = "applied", !.warn = FALSE].active = TRUE
             /\ [g[w] EXCEPT !.active = TRUE, !.warn = FALSE, !.status = Unflagged(w, @)].active = TRUE
  <2>. HIDE DEF w
  <2>. QED
    BY <1>1, <1>2, <1>9 DEF Row
<1>10. Latest(g, P) \subseteq Group(g)
  BY <1>2 DEF Latest
<1>11. CASE Rule(g) = "none"
  BY <1>7, <1>11, <1>2, PolicyDoes
<1>12. CASE Contested(g) /\ Rule(g) # "none"
  <2>1. \/ \E Q : Q \subseteq Group(g) /\ h = Dispute(g, Q)
        \/ h = OwnersDispute(g, P)
        \/ h = OriginalsTie(g, P) /\ Rule(g) = "originals"
    BY <1>2, <1>10, <1>12, PolicyDoes, Pools DEF Contested
  <2>. QED
    BY <1>2, <1>4, <1>5, <1>6, <1>12, <2>1
<1>13. CASE ~Contested(g) /\ Rule(g) # "none"
  <2>1. \E won : won.active = TRUE /\ h = Elect(g, w, won)
    <3>1. CASE Rule(g) = "restatement"
      <4>1. h = ElectRestatement(g, w)
        BY <1>13, <3>1, PolicyDoes DEF Contested
      <4>. QED
        BY <1>3, <1>9, <1>13, <4>1 DEF ElectRestatement
    <3>2. CASE Rule(g) = "amendment_owned"
      <4>1. h = ElectOwner(g, w)
        BY <1>13, <3>2, PolicyDoes
      <4>. QED
        BY <1>3, <1>9, <1>13, <4>1 DEF ElectOwner
    <3>3. CASE Rule(g) = "originals"
      <4>1. h = ElectOriginal(g, w)
        BY <1>13, <3>3, PolicyDoes DEF Contested
      <4>. QED
        BY <1>3, <1>9, <1>13, <4>1 DEF ElectOriginal
    <3>. QED
      BY <1>13, <3>1, <3>2, <3>3, Pools
  <2>. QED
    BY <1>2, <1>3, <1>8, <1>13, <2>1
<1>. QED
  BY <1>11, <1>12, <1>13

LEMMA ServesOne ==
    ASSUME NEW g \in Table, ~Several(Serving(g))
    PROVE  ~Several(Serving(Policy(g)))
BY ServesAfter, SamePool DEF Several, Serving

-----------------------------------------------------------------------------
(* Rows as they are written.                                                *)

LEMMA Written ==
    ASSUME NEW new \in Row, NEW old \in Row, NEW now \in Row
    PROVE  LET q == Columns(new, old, now) IN
           /\ q \in Row
           /\ q.where = IF new.where # old.where THEN new.where ELSE now.where
           /\ q.active = IF new.active # old.active THEN new.active ELSE now.active
           /\ q.status = IF new.status # old.status THEN new.status ELSE now.status
           /\ q.warn = IF new.warn # old.warn THEN new.warn ELSE now.warn
           /\ q.parse = IF new.parse # old.parse THEN new.parse ELSE now.parse
           /\ q.acc = IF new.acc # old.acc THEN new.acc ELSE now.acc
           /\ q.run = IF new.run # old.run THEN new.run ELSE now.run
<1>. DEFINE q == Columns(new, old, now)
            r == [where |-> q["where"], active |-> q["active"], status |-> q["status"],
                  warn |-> q["warn"], parse |-> q["parse"], acc |-> q["acc"], run |-> q["run"]]
<1>1. DOMAIN now = {"where", "active", "status", "warn", "parse", "acc", "run"}
  BY DEF Row
<1>2. q = [c \in {"where", "active", "status", "warn", "parse", "acc", "run"} |->
              IF new[c] # old[c] THEN new[c] ELSE now[c]]
  BY <1>1 DEF Columns
<1>3. q = r
  BY <1>2
<1>4. /\ q["where"] = IF new.where # old.where THEN new.where ELSE now.where
      /\ q["active"] = IF new.active # old.active THEN new.active ELSE now.active
      /\ q["status"] = IF new.status # old.status THEN new.status ELSE now.status
      /\ q["warn"] = IF new.warn # old.warn THEN new.warn ELSE now.warn
      /\ q["parse"] = IF new.parse # old.parse THEN new.parse ELSE now.parse
      /\ q["acc"] = IF new.acc # old.acc THEN new.acc ELSE now.acc
      /\ q["run"] = IF new.run # old.run THEN new.run ELSE now.run
  BY <1>2
<1>5. /\ q["where"] \in {"absent", "unrouted", "group"} /\ q["active"] \in BOOLEAN
      /\ q["status"] \in Statuses /\ q["warn"] \in BOOLEAN
      /\ q["parse"] \in {"pending", "needs_review", "succeeded", "failed"}
      /\ q["acc"] \in Nat /\ q["run"] \in BOOLEAN
  BY <1>4 DEF Row
<1>. HIDE DEF q
<1>6. r \in Row
  BY <1>5 DEF Row
<1>. QED
  BY <1>3, <1>4, <1>6 DEF q

LEMMA WrittenAlone ==
    ASSUME NEW new \in Row, NEW now \in Row
    PROVE  Columns(new, now, now) = new
<1>1. Columns(new, now, now) \in Row
  BY Written
<1>. QED
  BY <1>1, Written, SameRow

-----------------------------------------------------------------------------
(* Types. What a session is on, and what an admin has decided, is what its  *)
(* operation asks for.                                                      *)

Fit(x) ==
    /\ x \in SessionState
    /\ x.op \notin {"none", "sweep", "loop"} => x.on \in Filings
    /\ x.at = "parsing" => x.op \in {"parse", "controlled", "loop"} /\ x.on \in Filings
    /\ x.at = "gate" => x.op = "controlled"
    /\ x.at = "looping" => x.op = "loop"
    /\ x.op = "resolve" => x.decision \in Decisions

Shape == TypeOK /\ \A s \in Sessions : Fit(ses[s])

LEMMA IdleFits == Fit(Idle) /\ Empty \in Table /\ NoRow \in Row
<1>1. NoRow \in Row
  BY DEF NoRow, Row, Statuses
<1>2. Empty \in Table
  BY <1>1 DEF Empty, Table
<1>. QED
  BY <1>1, <1>2 DEF Idle, Fit, SessionState

LEMMA ReadingFits ==
    ASSUME db \in Table, NEW s, NEW op \in AllOps \cup {"gate"}, NEW f \in Filings, NEW r \in Row,
           NEW x, x = Reading(s, op, f, r)
    PROVE  /\ x \in SessionState
           /\ x.at = "idle" /\ x.op = op /\ x.on = f /\ x.decision = "none"
           /\ x.read = {f} /\ x.rows = {}
           /\ x.orig \in Table /\ x.orig[f] = db[f] /\ x.view \in Table /\ x.view[f] = r
<1>1. [Empty EXCEPT ![f] = db[f]] \in Table /\ [Empty EXCEPT ![f] = r] \in Table
  BY IdleFits DEF Table
<1>2. [Empty EXCEPT ![f] = db[f]][f] = db[f] /\ [Empty EXCEPT ![f] = r][f] = r
  BY IdleFits DEF Table
<1>. QED
  BY <1>1, <1>2, IdleFits DEF Reading, Idle, SessionState

LEMMA StatedRows ==
    ASSUME NEW f \in Filings, NEW r \in Row, NEW a \in AccTimes[f], NEW w \in Routes[f]
    PROVE  /\ Accepted(r, a) \in Row /\ Stated(f, r, a, w) \in Row /\ Normalized(f, r) \in Row
           /\ [Accepted(r, a) EXCEPT !.where = IF QuarterOf(w) = "group" THEN "group" ELSE @] \in Row
<1>. DEFINE u == QuarterOf(w)
            p == ParseOf(f, w)
<1>1. /\ a \in Nat /\ w \in Routings
      /\ u \in {"unrouted", "group"} /\ p \in {"pending", "needs_review", "succeeded", "failed"}
  BY AuthorityAssumption DEF QuarterOf, ParseOf, Routings
<1>. HIDE DEF u, p
<1>2. Accepted(r, a) \in Row
  BY <1>1 DEF Accepted, Row
<1>. DEFINE q == Accepted(r, a)
<1>. HIDE DEF q
<1>3. q \in Row
  BY <1>2 DEF q
<1>4. /\ [q EXCEPT !.where = u, !.parse = p] \in Row
      /\ [q EXCEPT !.where = IF u = "group" THEN "group" ELSE @] \in Row
  BY <1>1, <1>3 DEF Row
<1>5. Normalized(f, r) \in Row
  BY DEF Normalized, Row, Statuses, Terminal
<1>. QED
  BY <1>2, <1>4, <1>5 DEF q, u, p, Stated

LEMMA MoveKeepsShape ==
    ASSUME Shape, NEW s \in Sessions, NEW x, Fit(x), ses' = [ses EXCEPT ![s] = x],
           filed' = filed, db' \in Table, holder' \in Sessions \cup {NoSession}
    PROVE  Shape'
BY DEF Shape, TypeOK, Fit

LEMMA RestKeepsShape ==
    ASSUME Shape, UNCHANGED <<filed, ses, holder>>, db' \in Table
    PROVE  Shape'
BY DEF Shape, TypeOK, Fit

LEMMA OverlayTypes ==
    ASSUME Shape, NEW s \in Sessions, NEW known \in Table
    PROVE  Queried(s, known) \in Table
<1>1. \A f \in Filings : db[f] \in Row /\ known[f] \in Row
  BY DEF Shape, TypeOK, Table
<1>2. \A f \in Filings : [known[f] EXCEPT !.where = db[f].where] \in Row
  <2>. TAKE f \in Filings
  <2>. DEFINE r == known[f]
              w == db[f].where
  <2>1. r \in Row /\ w \in {"absent", "unrouted", "group"}
    BY <1>1 DEF Row
  <2>. SUFFICES [r EXCEPT !.where = w] \in Row
    OBVIOUS
  <2>. HIDE DEF r, w
  <2>. QED
    BY <2>1 DEF Row
<1>. QED
  BY <1>1, <1>2 DEF Queried, Table

LEMMA CommittedTypes ==
    ASSUME Shape, NEW s \in Sessions
    PROVE  Committed(s) \in Table
<1>1. \A f \in Filings : db[f] \in Row /\ ses[s].view[f] \in Row /\ ses[s].orig[f] \in Row
  BY DEF Shape, TypeOK, Table, Fit, SessionState
<1>2. \A f \in Filings : Columns(ses[s].view[f], ses[s].orig[f], db[f]) \in Row
  BY <1>1, Written
<1>. QED
  BY <1>1, <1>2 DEF Committed, Table

\* A session between two steps with another view, another place to be, or both.
LEMMA MovedFits ==
    ASSUME NEW x, Fit(x), NEW o \in Table, NEW v \in Table, NEW a \in {"ready", "closing"},
           NEW R \in SUBSET Filings, NEW op \in {x.op, "parse"}, x.on \in Filings \/ op = x.op
    PROVE  /\ Fit([x EXCEPT !.at = a])
           /\ Fit([x EXCEPT !.at = a, !.rows = R])
           /\ Fit([x EXCEPT !.view = v, !.at = a])
           /\ Fit([x EXCEPT !.view = v, !.op = op, !.at = a])
           /\ Fit([x EXCEPT !.at = a, !.read = Filings, !.orig = o, !.view = v])
<1>1. x \in SessionState /\ a \notin {"parsing", "gate", "looping"}
  BY DEF Fit
<1>2. /\ x.op \notin {"none", "sweep", "loop"} => x.on \in Filings
      /\ x.op = "resolve" => x.decision \in Decisions
      /\ op \notin {"none", "sweep", "loop"} => x.on \in Filings
      /\ op = "resolve" => x.decision \in Decisions
  BY DEF Fit
<1>3. /\ [x EXCEPT !.at = a] \in SessionState
      /\ [x EXCEPT !.at = a, !.rows = R] \in SessionState
      /\ [x EXCEPT !.view = v, !.at = a] \in SessionState
  BY <1>1 DEF SessionState
<1>4. [x EXCEPT !.view = v, !.op = op, !.at = a] \in SessionState
  BY <1>1 DEF SessionState, AllOps
<1>5. [x EXCEPT !.at = a, !.read = Filings, !.orig = o, !.view = v] \in SessionState
  BY <1>1 DEF SessionState
<1>6. Fit([x EXCEPT !.at = a])
  BY <1>1, <1>2, <1>3 DEF Fit, SessionState
<1>7. Fit([x EXCEPT !.at = a, !.rows = R])
  BY <1>1, <1>2, <1>3 DEF Fit, SessionState
<1>8. Fit([x EXCEPT !.view = v, !.at = a])
  BY <1>1, <1>2, <1>3 DEF Fit, SessionState
<1>9. Fit([x EXCEPT !.view = v, !.op = op, !.at = a])
  BY <1>1, <1>2, <1>4 DEF Fit, SessionState
<1>10. Fit([x EXCEPT !.at = a, !.read = Filings, !.orig = o, !.view = v])
  BY <1>1, <1>2, <1>5 DEF Fit, SessionState
<1>. QED
  BY <1>6, <1>7, <1>8, <1>9, <1>10

\* The bulk loop with one more row: passed over, or about to be parsed.
Passed(x, f, o, v, R) ==
    [x EXCEPT !.at = "looping", !.op = "loop", !.read = @ \cup {f}, !.orig = o, !.view = v,
              !.rows = R]
Taken(x, f, o, v) ==
    [x EXCEPT !.at = "parsing", !.on = f, !.read = @ \cup {f}, !.orig = o, !.view = v]

LEMMA LoopingFits ==
    ASSUME NEW x, Fit(x), NEW f \in Filings, NEW o \in Table, NEW v \in Table,
           NEW R \in SUBSET Filings
    PROVE  /\ Fit(Passed(x, f, o, v, R))
           /\ x.at = "looping" => Fit(Taken(x, f, o, v))
<1>1. x \in SessionState /\ (x.op = "resolve" => x.decision \in Decisions)
  BY DEF Fit
<1>2. Passed(x, f, o, v, R) \in SessionState /\ Taken(x, f, o, v) \in SessionState
  BY <1>1 DEF Passed, Taken, SessionState, AllOps
<1>3. /\ Passed(x, f, o, v, R).at = "looping" /\ Passed(x, f, o, v, R).op = "loop"
      /\ Taken(x, f, o, v).at = "parsing" /\ Taken(x, f, o, v).op = x.op
      /\ Taken(x, f, o, v).on = f
  BY <1>1 DEF Passed, Taken, SessionState
<1>4. x.at = "looping" => x.op = "loop"
  BY DEF Fit
<1>. QED
  BY <1>1, <1>2, <1>3, <1>4 DEF Fit

\* The rows it then remembers, as read and as they are in memory, and those it locks.
Was(s, f) == [ses[s].orig EXCEPT ![f] = db[f]]
Now(s, f, r) == [ses[s].view EXCEPT ![f] = r]
Held(s, f) == ses[s].rows \cup {e \in {f} : db[e] # Mended(db[f])}

LEMMA LoopSteps ==
    ASSUME Shape, NEW s \in Sessions, NEW f \in Filings
    PROVE  /\ PassOver(s, f) =>
                 /\ ses' = [ses EXCEPT ![s] =
                        Passed(ses[s], f, Was(s, f), Now(s, f, Mended(db[f])), Held(s, f))]
                 /\ UNCHANGED <<filed, db, holder>>
           /\ ParseNext(s, f) =>
                 /\ ses' = [ses EXCEPT ![s] = Taken(ses[s], f, Was(s, f), Now(s, f, db[f]))]
                 /\ UNCHANGED <<filed, db, holder>>
<1>1. ses[s] \in SessionState
  BY DEF Shape, TypeOK
<1>2. \A r : ReadToo(s, f, r) = [ses[s] EXCEPT !.read = ses[s].read \cup {f},
                                                !.orig = Was(s, f), !.view = Now(s, f, r)]
  BY <1>1 DEF ReadToo, Was, Now, SessionState
<1>3. ASSUME PassOver(s, f)
      PROVE  /\ ses' = [ses EXCEPT ![s] =
                    Passed(ses[s], f, Was(s, f), Now(s, f, Mended(db[f])), Held(s, f))]
             /\ UNCHANGED <<filed, db, holder>>
  <2>1. /\ ses' = [ses EXCEPT ![s] = [ReadToo(s, f, Mended(db[f])) EXCEPT
                         !.at = "looping", !.op = "loop", !.rows = Held(s, f)]]
        /\ UNCHANGED <<filed, db, holder>>
    BY <1>3 DEF PassOver, Held
  <2>2. [ReadToo(s, f, Mended(db[f])) EXCEPT !.at = "looping", !.op = "loop", !.rows = Held(s, f)]
        = Passed(ses[s], f, Was(s, f), Now(s, f, Mended(db[f])), Held(s, f))
    BY <1>1, <1>2 DEF Passed, SessionState
  <2>. QED
    BY <2>1, <2>2
<1>4. ASSUME ParseNext(s, f)
      PROVE  /\ ses' = [ses EXCEPT ![s] = Taken(ses[s], f, Was(s, f), Now(s, f, db[f]))]
             /\ UNCHANGED <<filed, db, holder>>
  <2>1. /\ ses' = [ses EXCEPT ![s] =
                       [ReadToo(s, f, db[f]) EXCEPT !.at = "parsing", !.on = f]]
        /\ UNCHANGED <<filed, db, holder>>
    BY <1>4 DEF ParseNext
  <2>2. [ReadToo(s, f, db[f]) EXCEPT !.at = "parsing", !.on = f]
        = Taken(ses[s], f, Was(s, f), Now(s, f, db[f]))
    BY <1>1, <1>2 DEF Taken, SessionState
  <2>. QED
    BY <2>1, <2>2
<1>. QED
  BY <1>3, <1>4

LEMMA LoopTypes ==
    ASSUME Shape, NEW s \in Sessions, NEW f \in Filings, NEW r \in Row, db[f] \in Row
    PROVE  /\ Was(s, f) \in Table /\ Now(s, f, r) \in Table /\ Held(s, f) \in SUBSET Filings
           /\ Was(s, f)[f] = db[f] /\ Now(s, f, r)[f] = r
           /\ \A e \in Filings \ {f} : /\ Was(s, f)[e] = ses[s].orig[e]
                                       /\ Now(s, f, r)[e] = ses[s].view[e]
<1>1. ses[s].orig \in Table /\ ses[s].view \in Table /\ ses[s].rows \subseteq Filings
  BY DEF Shape, TypeOK, SessionState
<1>. QED
  BY <1>1 DEF Was, Now, Held, Table

LEMMA MendedRow ==
    ASSUME NEW r \in Row
    PROVE  /\ Mended(r) \in Row
           /\ Mended(r).where = r.where /\ Mended(r).active = r.active
           /\ Mended(r).status = r.status /\ Mended(r).warn = r.warn
           /\ Mended(r).acc = r.acc /\ Mended(r).run = r.run
           /\ ~r.run => Mended(r) = r
           /\ r.run => Mended(r).parse = "succeeded"
BY DEF Mended, Row

LEMMA ReadingIsFit ==
    ASSUME db \in Table, NEW s, NEW op \in {"route", "detail", "bulk", "parse", "controlled", "gate"},
           NEW f \in Filings, NEW r \in Row, NEW x, x = Reading(s, op, f, r)
    PROVE  /\ Fit(x)
           /\ op \in {"parse", "controlled"} => Fit([x EXCEPT !.at = "parsing"])
<1>1. op \in AllOps \cup {"gate"}
  BY DEF AllOps
<1>2. x \in SessionState /\ x.at = "idle" /\ x.op = op /\ x.on = f
  BY <1>1, ReadingFits
<1>. QED
  BY <1>2 DEF Fit, SessionState, AllOps

LEMMA ResolvingFits ==
    ASSUME db \in Table, NEW s, NEW f \in Filings, NEW r \in Row, NEW d \in Decisions,
           NEW op \in {"resolve"}, NEW x, x = Reading(s, op, f, r)
    PROVE  Fit([x EXCEPT !.decision = d, !.at = "closing"])
<1>1. op \in AllOps \cup {"gate"}
  BY DEF AllOps
<1>2. x \in SessionState /\ x.at = "idle" /\ x.op = op /\ x.on = f
  BY <1>1, ReadingFits
<1>. QED
  BY <1>2 DEF Fit, SessionState

LEMMA StartKeepsShape ==
    ASSUME Shape, NEW s \in Sessions, NEW op \in {"detail"}, NEW f \in Filings,
           NEW r \in Row, StartPolicy(s, op, f, r)
    PROVE  Shape'
<1>. DEFINE x == Reading(s, op, f, Normalized(f, r))
            y == [x EXCEPT !.at = IF RunsPolicy(f, r) THEN "ready" ELSE "closing",
                           !.rows = IF db[f] # r THEN {f} ELSE {}]
<1>1. Normalized(f, r) \in Row
  BY DEF Normalized, Row, Statuses, Terminal
<1>2. Fit(x)
  BY <1>1, ReadingIsFit DEF Shape, TypeOK, AllOps
<1>3. Fit(y)
  <2>. DEFINE a == IF RunsPolicy(f, r) THEN "ready" ELSE "closing"
              R == IF db[f] # r THEN {f} ELSE {}
  <2>1. a \in {"ready", "closing"} /\ R \in SUBSET Filings /\ x.op \in {x.op, "parse"}
    OBVIOUS
  <2>. SUFFICES Fit([x EXCEPT !.at = a, !.rows = R])
    OBVIOUS
  <2>. HIDE DEF x, a, R
  <2>. QED
    BY <1>2, <2>1, IdleFits, MovedFits
<1>4. ses' = [ses EXCEPT ![s] = y] /\ UNCHANGED <<filed, db, holder>>
  BY DEF StartPolicy
<1>. QED
  BY <1>3, <1>4, MoveKeepsShape DEF Shape, TypeOK

LEMMA AfterFits == ASSUME Shape, NEW s \in Sessions PROVE Fit(AfterParse(s))
<1>1. /\ Fit(ses[s]) /\ ses[s].on \in Filings \cup {NoFiling} /\ ses[s].orig \in Table
      /\ ses[s].op = "controlled" => ses[s].on \in Filings
  BY DEF Shape, Fit, SessionState
<1>. QED
  BY <1>1, IdleFits DEF AfterParse, Fit, SessionState, Idle, AllOps

LEMMA DecidedTypes ==
    ASSUME NEW g \in Table, NEW f \in Filings, NEW d \in Decisions
    PROVE  /\ Decided(g[f], d) \in Row
           /\ [g EXCEPT ![f] = Decided(@, d)] \in Table
<1>1. d \in Statuses /\ g[f] \in Row
  BY DEF Decisions, Statuses, Terminal, Parked, Table
<1>2. Decided(g[f], d) \in Row
  BY <1>1 DEF Decided, Row
<1>. QED
  BY <1>2 DEF Table

LEMMA OpensFit ==
    ASSUME Shape, NEW s \in Sessions, NEW f \in filed,
           \/ \E a \in AccTimes[f], w \in Routes[f] : Backfill(s, f, a, w)
           \/ \E op \in {"parse", "controlled"} : StartParse(s, op, f)
           \/ \E d \in Orders[f] : Resolve(s, f, d)
    PROVE  Shape'
<1>1. f \in Filings /\ db[f] \in Row /\ db \in Table
  BY AuthorityAssumption DEF Shape, TypeOK, Table
<1>2. ASSUME NEW a \in AccTimes[f], NEW w \in Routes[f], Backfill(s, f, a, w) PROVE Shape'
  <2>. DEFINE r == [Accepted(db[f], a) EXCEPT !.where = IF QuarterOf(w) = "group" THEN "group"
                                                        ELSE @]
              x == Reading(s, "route", f, r)
  <2>1. r \in Row
    BY <1>1, <1>2, StatedRows
  <2>2. Fit(x)
    <3>. HIDE DEF r
    <3>. QED
      BY <1>1, <2>1, ReadingIsFit
  <2>3. ses' = [ses EXCEPT ![s] = [x EXCEPT !.at = "closing"]] /\ UNCHANGED <<filed, db, holder>>
    BY <1>2 DEF Backfill
  <2>. HIDE DEF x
  <2>4. Fit([x EXCEPT !.at = "closing"])
    BY <2>2, MovedFits, IdleFits
  <2>. QED
    BY <2>3, <2>4, MoveKeepsShape DEF Shape, TypeOK
<1>3. ASSUME NEW op \in {"parse", "controlled"}, StartParse(s, op, f) PROVE Shape'
  <2>. DEFINE x == Reading(s, op, f, db[f])
  <2>1. Fit([x EXCEPT !.at = "parsing"])
    BY <1>1, ReadingIsFit
  <2>2. ses' = [ses EXCEPT ![s] = [x EXCEPT !.at = "parsing"]] /\ UNCHANGED <<filed, db, holder>>
    BY <1>3 DEF StartParse
  <2>. HIDE DEF x
  <2>. QED
    BY <2>1, <2>2, MoveKeepsShape DEF Shape, TypeOK
<1>4. ASSUME NEW d \in Orders[f], Resolve(s, f, d) PROVE Shape'
  <2>. DEFINE r == Decided(db[f], d)
              x == Reading(s, "resolve", f, r)
              y == [Idle EXCEPT !.op = "resolve", !.on = f, !.decision = d, !.at = "ready"]
              z == [x EXCEPT !.decision = d, !.at = "closing"]
  <2>1. d \in Decisions /\ d \in Statuses
    BY <1>1, <1>4, AuthorityAssumption DEF Decisions, Statuses, Terminal, Parked
  <2>2. r \in Row
    BY <1>1, <2>1 DEF Decided, Row
  <2>4. Fit(y)
    BY <1>1, <2>1, IdleFits DEF Fit, SessionState, Idle, AllOps
  <2>5. Fit(z)
    <3>. HIDE DEF r
    <3>. QED
      BY <1>1, <2>1, <2>2, ResolvingFits
  <2>6. \/ ses' = [ses EXCEPT ![s] = y]
        \/ ses' = [ses EXCEPT ![s] = z]
    BY <1>4 DEF Resolve
  <2>7. UNCHANGED <<filed, db, holder>>
    BY <1>4 DEF Resolve
  <2>. HIDE DEF y, z
  <2>. QED
    BY <2>4, <2>5, <2>6, <2>7, MoveKeepsShape DEF Shape, TypeOK
<1>. QED
  BY <1>2, <1>3, <1>4

\* What the bulk ingest makes of the rows E it has read documents of.
BulkRead(E, t) == [e \in Filings |-> IF e \in E THEN Accepted(db[e], t[e]) ELSE NoRow]
BulkWas(E) == [e \in Filings |-> IF e \in E THEN db[e] ELSE NoRow]
BulkSees(f, E, t) == [BulkRead(E, t) EXCEPT ![f] = Normalized(f, BulkRead(E, t)[f])]
BulkHolds(E, t) == {e \in E : db[e] # BulkRead(E, t)[e]}
Bulked(f, E, t, a) ==
    [Idle EXCEPT !.op = "bulk", !.on = f, !.read = E, !.orig = BulkWas(E),
                 !.view = BulkSees(f, E, t), !.at = a, !.rows = BulkHolds(E, t)]

LEMMA BulkSteps ==
    ASSUME NEW s \in Sessions, NEW f \in Filings, NEW E \in SUBSET Filings, Bulk(s, f, E)
    PROVE  /\ f \in E /\ UNCHANGED <<filed, db, holder>>
           /\ \E t \in Statements(E), a \in {"ready", "closing"} :
                 ses' = [ses EXCEPT ![s] = Bulked(f, E, t, a)]
<1>1. f \in E /\ UNCHANGED <<filed, db, holder>>
  BY DEF Bulk
<1>2. PICK t \in Statements(E) :
         ses' = [ses EXCEPT ![s] =
                    [Idle EXCEPT
                       !.op = "bulk", !.on = f, !.read = E, !.orig = BulkWas(E),
                       !.view = BulkSees(f, E, t),
                       !.at = IF RunsPolicy(f, BulkRead(E, t)[f]) THEN "ready" ELSE "closing",
                       !.rows = BulkHolds(E, t)]]
  BY DEF Bulk, BulkRead, BulkWas, BulkSees, BulkHolds
<1>. DEFINE a == IF RunsPolicy(f, BulkRead(E, t)[f]) THEN "ready" ELSE "closing"
<1>3. a \in {"ready", "closing"}
  OBVIOUS
<1>4. ses' = [ses EXCEPT ![s] = Bulked(f, E, t, a)]
  BY <1>2 DEF Bulked
<1>. HIDE DEF a
<1>. QED
  BY <1>1, <1>3, <1>4

LEMMA BulkRows ==
    ASSUME db \in Table, NEW E \in SUBSET Filings, NEW t \in Statements(E), NEW f \in E
    PROVE  /\ BulkRead(E, t) \in Table /\ BulkWas(E) \in Table
           /\ \A e \in E : t[e] \in AccTimes[e] /\ BulkRead(E, t)[e] = Accepted(db[e], t[e])
           /\ BulkSees(f, E, t) \in Table
           /\ BulkSees(f, E, t)[f] = Normalized(f, BulkRead(E, t)[f])
           /\ \A e \in Filings \ {f} : BulkSees(f, E, t)[e] = BulkRead(E, t)[e]
<1>1. \A e \in E : t[e] \in AccTimes[e] /\ t[e] \in Nat /\ db[e] \in Row
  BY AuthorityAssumption DEF Statements, Table
<1>2. \A e \in E : Accepted(db[e], t[e]) \in Row
  <2>. TAKE e \in E
  <2>. DEFINE r == db[e]
              a == t[e]
  <2>1. r \in Row /\ a \in Nat
    BY <1>1
  <2>. HIDE DEF r, a
  <2>2. Accepted(r, a) \in Row
    BY <2>1 DEF Accepted, Row
  <2>. QED
    BY <2>2 DEF r, a
<1>3. BulkRead(E, t) \in Table /\ BulkWas(E) \in Table
  BY <1>1, <1>2, IdleFits DEF BulkRead, BulkWas, Table
<1>4. ASSUME NEW r \in Row PROVE Normalized(f, r) \in Row
  BY <1>4 DEF Normalized, Row, Statuses, Terminal
<1>5. BulkRead(E, t)[f] \in Row
  BY <1>3 DEF Table
<1>6. \A e \in E : BulkRead(E, t)[e] = Accepted(db[e], t[e])
  BY DEF BulkRead
<1>. QED
  BY <1>1, <1>3, <1>4, <1>5, <1>6 DEF BulkSees, Table

LEMMA BulkKeepsShape ==
    ASSUME Shape, NEW s \in Sessions, NEW f \in Filings, NEW E \in SUBSET Filings, Bulk(s, f, E)
    PROVE  Shape'
<1>1. f \in E /\ UNCHANGED <<filed, db, holder>>
  BY BulkSteps
<1>2. PICK t \in Statements(E), a \in {"ready", "closing"} :
         ses' = [ses EXCEPT ![s] = Bulked(f, E, t, a)]
  BY BulkSteps
<1>3. /\ db \in Table /\ BulkSees(f, E, t) \in Table /\ BulkWas(E) \in Table
      /\ BulkHolds(E, t) \in SUBSET Filings
  BY <1>1, BulkRows DEF Shape, TypeOK, BulkHolds
<1>4. Fit(Bulked(f, E, t, a))
  BY <1>3, IdleFits DEF Bulked, Fit, SessionState, Idle, AllOps
<1>. QED
  BY <1>1, <1>2, <1>3, <1>4, MoveKeepsShape DEF Shape, TypeOK

LEMMA IngestKeepsShape ==
    ASSUME Shape, NEW s \in Sessions, Ingest(s)
    PROVE  Shape'
<1>1. PICK f \in filed :
         \/ Discover(s, f)
         \/ \E a \in AccTimes[f], w \in Routes[f] : Detail(s, f, a, w) \/ Backfill(s, f, a, w)
         \/ \E E \in {{f}, filed} : Bulk(s, f, E)
         \/ \E op \in {"parse", "controlled"} : StartParse(s, op, f)
         \/ PassOver(s, f) \/ ParseNext(s, f)
  BY DEF Ingest
<1>2. f \in Filings /\ db[f] \in Row /\ db \in Table /\ filed \subseteq Filings
  BY AuthorityAssumption DEF Shape, TypeOK, Table
<1>3. CASE Discover(s, f)
  <2>1. [db EXCEPT ![f].where = "unrouted"] \in Table
    BY <1>2 DEF Table, Row
  <2>. QED
    BY <1>3, <2>1, RestKeepsShape DEF Discover
<1>4. ASSUME NEW a \in AccTimes[f], NEW w \in Routes[f], Detail(s, f, a, w) PROVE Shape'
  <2>1. Stated(f, db[f], a, w) \in Row
    BY <1>2, <1>4, StatedRows
  <2>2. StartPolicy(s, "detail", f, Stated(f, db[f], a, w))
    BY <1>4 DEF Detail
  <2>. QED
    BY <1>2, <2>1, <2>2, StartKeepsShape
<1>5. ASSUME NEW E \in {{f}, filed}, Bulk(s, f, E) PROVE Shape'
  BY <1>2, <1>5, BulkKeepsShape
<1>6. CASE PassOver(s, f) \/ ParseNext(s, f)
  <2>1. Fit(ses[s]) /\ (ParseNext(s, f) => ses[s].at = "looping")
    BY DEF Shape, ParseNext
  <2>2. /\ Was(s, f) \in Table /\ Held(s, f) \in SUBSET Filings
        /\ Now(s, f, db[f]) \in Table /\ Now(s, f, Mended(db[f])) \in Table
    BY <1>2, MendedRow, LoopTypes
  <2>. DEFINE p == Passed(ses[s], f, Was(s, f), Now(s, f, Mended(db[f])), Held(s, f))
              q == Taken(ses[s], f, Was(s, f), Now(s, f, db[f]))
  <2>3. Fit(p) /\ (ParseNext(s, f) => Fit(q))
    BY <1>2, <2>1, <2>2, LoopingFits
  <2>4. /\ PassOver(s, f) => ses' = [ses EXCEPT ![s] = p]
        /\ ParseNext(s, f) => ses' = [ses EXCEPT ![s] = q]
        /\ UNCHANGED <<filed, db, holder>>
    BY <1>2, <1>6, LoopSteps
  <2>. HIDE DEF p, q
  <2>. QED
    BY <1>6, <2>3, <2>4, MoveKeepsShape DEF Shape, TypeOK
<1>. QED
  BY <1>1, <1>3, <1>4, <1>5, <1>6, OpensFit

LEMMA ParsesKeepShape ==
    ASSUME Shape, NEW s \in Sessions,
           \/ ParseOk(s) \/ ParseFails(s) \/ ParseQuarantined(s)
           \/ EndLoop(s) \/ LoopRollsBack(s) \/ GatePasses(s) \/ GateFails(s)
    PROVE  Shape'
<1>. DEFINE x == ses[s]
            f == x.on
<1>1. Fit(x) /\ x \in SessionState /\ x.view \in Table /\ x.orig \in Table /\ db \in Table
  BY DEF Shape, TypeOK, Fit, SessionState
<1>2. x.at \in {"parsing", "gate"} => /\ f \in Filings /\ x.op \in {"parse", "controlled", "loop"}
                                      /\ db[f] \in Row /\ x.view[f] \in Row /\ x.orig[f] \in Row
  BY <1>1 DEF Fit, Table
<1>3. CASE ParseOk(s)
  <2>. DEFINE r == [x.view[f] EXCEPT !.parse = "succeeded", !.run = TRUE]
              v == [x.view EXCEPT ![f] = r]
              a == IF f \in Restatements /\ r.where = "group" THEN "ready" ELSE "closing"
              y == [x EXCEPT !.view = v, !.at = a]
  <2>1. f \in Filings /\ r \in Row
    BY <1>2, <1>3 DEF ParseOk, Row
  <2>2. v \in Table
    BY <1>1, <2>1 DEF Table
  <2>3. ses' = [ses EXCEPT ![s] = y] /\ UNCHANGED <<filed, db, holder>>
    BY <1>1, <1>3 DEF ParseOk, SessionState, Shape, TypeOK
  <2>4. Fit(y)
    <3>1. a \in {"ready", "closing"}
      OBVIOUS
    <3>. SUFFICES Fit([x EXCEPT !.view = v, !.at = a])
      OBVIOUS
    <3>. HIDE DEF v, a, x
    <3>. QED
      BY <1>1, <2>2, <3>1, MovedFits
  <2>. HIDE DEF y
  <2>. QED
    BY <2>3, <2>4, MoveKeepsShape DEF Shape, TypeOK
<1>4. CASE ParseFails(s)
  <2>. DEFINE r == [x.view[f] EXCEPT !.parse = IF x.view[f].run THEN "succeeded" ELSE "failed"]
              v == [x.view EXCEPT ![f] = r]
              op == IF x.op = "controlled" THEN "parse" ELSE x.op
              y == [x EXCEPT !.view = v, !.op = op, !.at = "closing"]
  <2>1. f \in Filings /\ r \in Row
    BY <1>2, <1>4 DEF ParseFails, Row
  <2>2. v \in Table
    BY <1>1, <2>1 DEF Table
  <2>3. ses' = [ses EXCEPT ![s] = y] /\ UNCHANGED <<filed, db, holder>>
    BY <1>1, <1>4 DEF ParseFails, SessionState, Shape, TypeOK
  <2>4. Fit(y)
    <3>1. op \in {x.op, "parse"}
      OBVIOUS
    <3>. SUFFICES Fit([x EXCEPT !.view = v, !.op = op, !.at = "closing"])
      OBVIOUS
    <3>. HIDE DEF v, x, op
    <3>. QED
      BY <1>1, <2>1, <2>2, <3>1, MovedFits
  <2>. HIDE DEF y
  <2>. QED
    BY <2>3, <2>4, MoveKeepsShape DEF Shape, TypeOK
<1>5. CASE ParseQuarantined(s) \/ EndLoop(s)
  <2>1. ses' = [ses EXCEPT ![s] = [x EXCEPT !.at = "closing"]] /\ UNCHANGED <<filed, db, holder>>
    BY <1>5 DEF ParseQuarantined, EndLoop
  <2>2. Fit([x EXCEPT !.at = "closing"])
    <3>. HIDE DEF x
    <3>. QED
      BY <1>1, MovedFits, IdleFits
  <2>. HIDE DEF x
  <2>. QED
    BY <2>1, <2>2, MoveKeepsShape DEF Shape, TypeOK
<1>6. CASE GatePasses(s) \/ LoopRollsBack(s)
  BY <1>6, IdleFits, MoveKeepsShape DEF GatePasses, LoopRollsBack, Shape, TypeOK
<1>7. CASE GateFails(s)
  <2>. DEFINE r == [db[f] EXCEPT !.run = x.orig[f].run,
                                 !.status = IF f \in Restatements THEN "rejected" ELSE @]
              y == Reading(s, "gate", f, r)
              a == IF f \in Restatements /\ r.where = "group" THEN "ready" ELSE "closing"
              R == IF db[f] # r THEN {f} ELSE {}
              z == [y EXCEPT !.at = a, !.rows = R]
  <2>1. f \in Filings /\ r \in Row
    BY <1>2, <1>7 DEF GateFails, Row, Statuses, Terminal, Parked
  <2>2. Fit(y)
    <3>. HIDE DEF r
    <3>. QED
      BY <1>1, <2>1, ReadingIsFit
  <2>3. ses' = [ses EXCEPT ![s] = z] /\ UNCHANGED <<filed, db, holder>>
    BY <1>7 DEF GateFails
  <2>4. Fit(z)
    <3>1. a \in {"ready", "closing"} /\ R \in SUBSET Filings
      BY <2>1
    <3>. SUFFICES Fit([y EXCEPT !.at = a, !.rows = R])
      OBVIOUS
    <3>. HIDE DEF y, a, R
    <3>. QED
      BY <2>2, <3>1, MovedFits, IdleFits
  <2>. HIDE DEF z
  <2>. QED
    BY <2>3, <2>4, MoveKeepsShape DEF Shape, TypeOK
<1>. QED
  BY <1>3, <1>4, <1>5, <1>6, <1>7

\* What a refused decision leaves: at most the outcome of the parses.
LEMMA RefusedRows ==
    ASSUME NEW s, db \in Table
    PROVE  /\ Refused(s) \in Table
           /\ \A f \in Filings :
                 \/ Refused(s)[f] = db[f]
                 \/ /\ ses[s].op \in {"parse", "controlled", "loop"}
                    /\ f = ses[s].on \/ f \in ses[s].rows
                    /\ \E p \in {"succeeded", "failed"} : Refused(s)[f] = [db[f] EXCEPT !.parse = p]
           /\ \A f \in Filings : /\ Refused(s)[f].where = db[f].where
                                 /\ Refused(s)[f].active = db[f].active
                                 /\ Refused(s)[f].status = db[f].status
                                 /\ Refused(s)[f].warn = db[f].warn
                                 /\ Refused(s)[f].run = db[f].run
<1>1. Refused(s) = [f \in Filings |-> Refused(s)[f]]
  BY DEF Refused
<1>2. \A f \in Filings :
         \/ Refused(s)[f] = db[f]
         \/ /\ ses[s].op \in {"parse", "controlled", "loop"}
            /\ f = ses[s].on \/ f \in ses[s].rows
            /\ \E p \in {"succeeded", "failed"} : Refused(s)[f] = [db[f] EXCEPT !.parse = p]
  BY DEF Refused
<1>3. \A r \in Row : \A p \in {"succeeded", "failed"} : \A q : q = [r EXCEPT !.parse = p] =>
         /\ q \in Row /\ q.where = r.where /\ q.active = r.active
         /\ q.status = r.status /\ q.warn = r.warn /\ q.run = r.run
  BY DEF Row
<1>4. \A f \in Filings : db[f] \in Row
  BY DEF Table
<1>5. \A f \in Filings : /\ Refused(s)[f] \in Row
                         /\ Refused(s)[f].where = db[f].where
                         /\ Refused(s)[f].active = db[f].active
                         /\ Refused(s)[f].status = db[f].status
                         /\ Refused(s)[f].warn = db[f].warn
                         /\ Refused(s)[f].run = db[f].run
  <2>. TAKE f \in Filings
  <2>. DEFINE q == Refused(s)[f]
              r == db[f]
  <2>1. r \in Row /\ (q = r \/ \E p \in {"succeeded", "failed"} : q = [r EXCEPT !.parse = p])
    BY <1>2, <1>4
  <2>. HIDE DEF q, r
  <2>2. /\ q \in Row /\ q.where = r.where /\ q.active = r.active
        /\ q.status = r.status /\ q.warn = r.warn /\ q.run = r.run
    BY <1>3, <2>1
  <2>. QED
    BY <2>2 DEF q, r
<1>6. Refused(s) \in Table
  BY <1>1, <1>5 DEF Table
<1>. QED
  BY <1>2, <1>5, <1>6

LEMMA DecisionsKeepShape ==
    ASSUME Shape, NEW s \in Sessions,
           \/ \E first \in BOOLEAN : Sweep(s, first)
           \/ TakeLock(s) \/ Commit(s) \/ AbortDeadlocked(s)
    PROVE  Shape'
<1>. DEFINE x == ses[s]
<1>1. Fit(x) /\ x \in SessionState /\ x.view \in Table /\ x.orig \in Table /\ db \in Table
      /\ holder \in Sessions \cup {NoSession}
  BY DEF Shape, TypeOK, Fit, SessionState
<1>2. ASSUME NEW first \in BOOLEAN, Sweep(s, first) PROVE Shape'
  <2>. DEFINE y == [Idle EXCEPT !.op = "sweep", !.at = "ready",
                                !.read = IF first THEN Group(db) ELSE {},
                                !.orig = IF first THEN db ELSE Empty,
                                !.view = IF first THEN db ELSE Empty]
  <2>1. Group(db) \subseteq Filings
    BY DEF Group
  <2>2. Fit(y)
    <3>. DEFINE R == IF first THEN Group(db) ELSE {}
                v == IF first THEN db ELSE Empty
    <3>. SUFFICES Fit([Idle EXCEPT !.op = "sweep", !.at = "ready", !.read = R, !.orig = v, !.view = v])
      OBVIOUS
    <3>1. R \subseteq Filings /\ v \in Table
      BY <1>1, <2>1, IdleFits
    <3>. HIDE DEF R, v
    <3>. QED
      BY <3>1, IdleFits DEF Fit, SessionState, Idle, AllOps
  <2>3. ses' = [ses EXCEPT ![s] = y] /\ UNCHANGED <<filed, db, holder>>
    BY <1>2 DEF Sweep
  <2>. HIDE DEF y
  <2>. QED
    BY <2>2, <2>3, MoveKeepsShape DEF Shape, TypeOK
<1>3. CASE TakeLock(s)
  <2>. DEFINE orig == Queried(s, x.orig)
              seen == Queried(s, x.view)
              view == IF x.op = "resolve" THEN [seen EXCEPT ![x.on] = Decided(@, x.decision)]
                      ELSE seen
              y == [x EXCEPT !.at = "closing", !.read = Filings, !.orig = orig, !.view = Policy(view)]
  <2>1. orig \in Table /\ seen \in Table
    BY <1>1, OverlayTypes
  <2>2. view \in Table
    BY <1>1, <2>1, DecidedTypes DEF Fit
  <2>3. Policy(view) \in Table
    <3>. HIDE DEF view
    <3>. QED
      BY <2>2, PolicyTypes
  <2>4. ses' = [ses EXCEPT ![s] = y] /\ UNCHANGED <<filed, db>> /\ holder' = s
    BY <1>3 DEF TakeLock
  <2>5. Fit(y)
    <3>. DEFINE v == Policy(view)
    <3>. SUFFICES Fit([x EXCEPT !.at = "closing", !.read = Filings, !.orig = orig, !.view = v])
      OBVIOUS
    <3>1. v \in Table
      BY <2>3
    <3>. HIDE DEF v, orig, x
    <3>. QED
      BY <1>1, <2>1, <3>1, MovedFits
  <2>. HIDE DEF y
  <2>. QED
    BY <2>4, <2>5, MoveKeepsShape DEF Shape, TypeOK
<1>4. CASE Commit(s)
  <2>1. db' \in Table
    BY <1>1, <1>4, CommittedTypes, RefusedRows DEF Commit
  <2>2. holder' \in Sessions \cup {NoSession}
    BY <1>1, <1>4 DEF Commit, Released
  <2>3. \/ ses' = [ses EXCEPT ![s] = AfterParse(s)]
        \/ ses' = [ses EXCEPT ![s] = Idle]
    BY <1>4 DEF Commit
  <2>. QED
    BY <1>4, <2>1, <2>2, <2>3, AfterFits, IdleFits, MoveKeepsShape DEF Commit
<1>5. CASE AbortDeadlocked(s)
  BY <1>1, <1>5, IdleFits, MoveKeepsShape DEF AbortDeadlocked, Released
<1>. QED
  BY <1>2, <1>3, <1>4, <1>5

LEMMA ShapeKept == ASSUME Shape, [Next]_vars PROVE Shape'
<1>1. CASE UNCHANGED vars
  BY <1>1, RestKeepsShape DEF vars, Shape, TypeOK
<1>2. CASE Next
  BY <1>2, IngestKeepsShape, ParsesKeepShape, DecisionsKeepShape, OpensFit DEF Next
<1>. QED
  BY <1>1, <1>2

LEMMA ShapeAtFirst == ASSUME Init PROVE Shape
BY IdleFits DEF Init, Shape, TypeOK, Fit

\* Filings, sessions and what they remember keep their types, whatever the
\* quarter, however many sessions there are: in particular a row is only ever
\* given a status that the product knows (apply_active_filing_policy and all its
\* callers), and the period's lock is held by a session or by none.
THEOREM FilingTypes == Spec => []TypeOK
<1>1. Init => Shape
  BY ShapeAtFirst
<1>2. Shape /\ [Next]_vars => Shape'
  BY ShapeKept
<1>3. Shape => TypeOK
  BY DEF Shape
<1>. QED
  BY <1>1, <1>2, <1>3, PTL DEF Spec

-----------------------------------------------------------------------------
(* What a decision can make of one row.                                     *)

LEMMA Outcomes ==
    ASSUME NEW g \in Table, NEW f \in Filings
    PROVE  LET r == g[f]
               q == Policy(g)[f]
           IN \/ q = r
              \/ q = [r EXCEPT !.active = FALSE]
              \/ q = [Cleared(f, r) EXCEPT !.active = FALSE]
              \/ /\ f \in Restatements \/ f \notin Amendments \/ r.status = "applied" \/ r.active
                 /\ q = Flagged(r)
              \/ f \notin Amendments /\ q = [Flagged(r) EXCEPT !.active = FALSE]
              \/ /\ f \in Restatements /\ r.where = "group" /\ r.status \notin Parked
                 /\ q = [r EXCEPT !.active = TRUE, !.status = "applied", !.warn = FALSE]
              \/ /\ f \in Amendments /\ r.where = "group" /\ r.status = "applied"
                 /\ q = [r EXCEPT !.active = TRUE]
              \/ /\ f \notin Amendments /\ r.where = "group"
                 /\ q = [r EXCEPT !.active = TRUE, !.warn = FALSE, !.status = Unflagged(f, @)]
<1>. DEFINE h == Policy(g)
            P == Pool(g)
            w == Winner(g)
            Goal ==
               \/ h[f] = g[f]
               \/ h[f] = [g[f] EXCEPT !.active = FALSE]
               \/ h[f] = [Cleared(f, g[f]) EXCEPT !.active = FALSE]
               \/ /\ \/ f \in Restatements \/ f \notin Amendments
                     \/ g[f].status = "applied" \/ g[f].active
                  /\ h[f] = Flagged(g[f])
               \/ f \notin Amendments /\ h[f] = [Flagged(g[f]) EXCEPT !.active = FALSE]
               \/ /\ f \in Restatements /\ g[f].where = "group" /\ g[f].status \notin Parked
                  /\ h[f] = [g[f] EXCEPT !.active = TRUE, !.status = "applied", !.warn = FALSE]
               \/ /\ f \in Amendments /\ g[f].where = "group" /\ g[f].status = "applied"
                  /\ h[f] = [g[f] EXCEPT !.active = TRUE]
               \/ /\ f \notin Amendments /\ g[f].where = "group"
                  /\ h[f] = [g[f] EXCEPT !.active = TRUE, !.warn = FALSE, !.status = Unflagged(f, @)]
<1>. SUFFICES Goal
  OBVIOUS
<1>1. /\ P \subseteq Group(g) /\ Latest(g, P) \subseteq P
      /\ \A e \in Group(g) : e \in Filings /\ g[e].where = "group"
      /\ \A e \in Competing(g) : e \in Restatements /\ g[e].status \notin Parked
      /\ \A e \in Serving(g) : g[e].active
  BY Pools DEF Latest, Group, Competing, Serving
<1>2. Rule(g) # "none" /\ ~Contested(g) => w \in P
  BY WinnerStands
<1>3. CASE Rule(g) = "none"
  <2>1. h = NobodyServes(g)
    BY <1>3, PolicyDoes
  <2>2. h[f] = g[f] \/ h[f] = [g[f] EXCEPT !.active = FALSE]
    BY <2>1 DEF NobodyServes
  <2>. QED
    BY <2>2
<1>4. ASSUME NEW Q, Q \subseteq P, h = Dispute(g, Q),
             \A e \in P : e \in Restatements \/ e \notin Amendments
      PROVE  Goal
  <2>1. h[f] = g[f] \/ (f \in Q \cup Serving(g) /\ h[f] = Flagged(g[f]))
    BY <1>4 DEF Dispute
  <2>. QED
    BY <1>1, <1>4, <2>1
<1>5. ASSUME NEW won, h = Elect(g, w, won), f # w PROVE Goal
  <2>1. h[f] = g[f] \/ h[f] = [Cleared(f, g[f]) EXCEPT !.active = FALSE]
    BY <1>5 DEF Elect
  <2>. QED
    BY <2>1
<1>6. CASE Rule(g) = "restatement"
  <2>1. P = Competing(g)
    BY <1>6, Pools
  <2>2. CASE Contested(g)
    <3>1. \E Q : Q \subseteq P /\ h = Dispute(g, Q)
      BY <1>1, <1>6, <2>2, PolicyDoes DEF Contested
    <3>. QED
      BY <1>1, <1>4, <2>1, <3>1
  <2>3. CASE ~Contested(g)
    <3>1. h = ElectRestatement(g, w)
      BY <1>6, <2>3, PolicyDoes DEF Contested
    <3>2. f = w => h[f] = [g[f] EXCEPT !.active = TRUE, !.status = "applied", !.warn = FALSE]
      BY <3>1 DEF ElectRestatement, Elect
    <3>. QED
      BY <1>1, <1>2, <1>5, <1>6, <2>1, <2>3, <3>1, <3>2 DEF ElectRestatement
  <2>. QED
    BY <2>2, <2>3
<1>7. CASE Rule(g) = "amendment_owned"
  <2>1. \A e \in P : e \in Amendments /\ g[e].status = "applied"
    BY <1>7, Pools
  <2>2. CASE Contested(g)
    <3>1. h = OwnersDispute(g, P)
      BY <1>7, <2>2, PolicyDoes
    <3>2. \/ f \in P /\ h[f] = Flagged(g[f])
          \/ h[f] = [g[f] EXCEPT !.active = FALSE] \/ h[f] = g[f]
      BY <3>1 DEF OwnersDispute
    <3>. QED
      BY <2>1, <3>2
  <2>3. CASE ~Contested(g)
    <3>1. h = ElectOwner(g, w)
      BY <1>7, <2>3, PolicyDoes
    <3>2. f = w => h[f] = [g[f] EXCEPT !.active = TRUE]
      BY <3>1 DEF ElectOwner, Elect
    <3>. QED
      BY <1>1, <1>2, <1>5, <1>7, <2>1, <2>3, <3>1, <3>2 DEF ElectOwner
  <2>. QED
    BY <2>2, <2>3
<1>8. CASE Rule(g) = "originals"
  <2>1. \A e \in P : e \notin Amendments
    BY <1>8, Pools
  <2>2. CASE Missing(g, P)
    <3>1. h = Dispute(g, P)
      BY <1>8, <2>2, PolicyDoes
    <3>. QED
      BY <1>4, <2>1, <3>1
  <2>3. CASE ~Missing(g, P) /\ Tied(g, P)
    <3>1. h = OriginalsTie(g, P)
      BY <1>8, <2>3, PolicyDoes
    <3>2. \/ f \in P /\ h[f] = Flagged(g[f])
          \/ f \in P /\ h[f] = [Flagged(g[f]) EXCEPT !.active = FALSE]
          \/ h[f] = [g[f] EXCEPT !.active = FALSE] \/ h[f] = g[f]
      BY <3>1 DEF OriginalsTie
    <3>. QED
      BY <2>1, <3>2
  <2>4. CASE ~Contested(g)
    <3>1. h = ElectOriginal(g, w)
      BY <1>8, <2>4, PolicyDoes DEF Contested
    <3>2. f = w => h[f] = [g[f] EXCEPT !.active = TRUE, !.warn = FALSE, !.status = Unflagged(f, @)]
      BY <3>1 DEF ElectOriginal, Elect
    <3>. QED
      BY <1>1, <1>2, <1>5, <1>8, <2>1, <2>4, <3>1, <3>2 DEF ElectOriginal
  <2>. QED
    BY <2>2, <2>3, <2>4 DEF Contested
<1>. QED
  BY <1>3, <1>6, <1>7, <1>8, Pools

(* The books: what every row is kept to, however the sessions take turns.   *)
(* A warning of an amendment that only adds holdings, and its serving, mean *)
(* that it has been decided about; a parsed notice amendment is applied;    *)
(* and, where no amendment is taken off its quarter, who is out of the      *)
(* quarter does not serve.                                                  *)
Anchored == \A f \in Amendments : Routes[f] \subseteq {"routed", "stale"}

Book(f, r) ==
    /\ r.run => Form[f] \in HRForms
    /\ Form[f] = "13F-NT/A" /\ r.parse = "succeeded" => r.status \in Terminal
    /\ f \notin Amendments \/ f \in Restatements =>
          (r.status = "amendments_pending" => r.warn)
    /\ f \in Amendments /\ r.active => r.status \in Terminal
    /\ f \in Amendments \ Restatements /\ r.warn => r.status \in Terminal
    /\ Anchored /\ r.active => r.where = "group"

Books(g) == \A f \in Filings : Book(f, g[f])

LEMMA PolicyBooks ==
    ASSUME NEW g \in Table, Books(g)
    PROVE  Books(Policy(g))
<1>. SUFFICES ASSUME NEW f \in Filings PROVE Book(f, Policy(g)[f])
  BY DEF Books
<1>. DEFINE r == g[f]
            q == Policy(g)[f]
<1>1. r \in Row /\ Book(f, r) /\ r.status \in Statuses
  BY DEF Table, Row, Books
<1>. SUFFICES Book(f, q)
  OBVIOUS
<1>2. /\ q \in Row /\ SameFiling(r, q)
      /\ r.status \in Terminal => q.status \in Terminal
  <2>1. \/ Keeps(r, q)
        \/ q = [r EXCEPT !.active = TRUE, !.status = "applied", !.warn = FALSE]
    BY PolicyKeeps
  <2>. HIDE DEF r, q
  <2>2. CASE Keeps(r, q)
    BY <2>2 DEF Keeps, SameStanding
  <2>3. CASE q = [r EXCEPT !.active = TRUE, !.status = "applied", !.warn = FALSE]
    <3>1. q \in Row /\ SameFiling(r, q) /\ q.status = "applied"
      BY <1>1, <2>3, RestatementWins
    <3>. QED
      BY <3>1 DEF Terminal
  <2>. QED
    BY <2>1, <2>2, <2>3
<1>3. Restatements \subseteq Amendments
  BY FilingAssumption DEF Amendments
<1>. HIDE DEF r, q
<1>4. ASSUME q.active => r.active, q.warn => r.warn, ~r.warn => q.status = r.status,
             q.status = "amendments_pending" => r.status = "amendments_pending" /\ (q.warn \/ ~r.warn)
      PROVE  Book(f, q)
  BY <1>1, <1>2, <1>4 DEF Book, SameFiling
<1>5. CASE q = r
  BY <1>1, <1>5
<1>6. CASE q = [r EXCEPT !.active = FALSE]
  <2>1. q.active = FALSE /\ q.warn = r.warn /\ q.status = r.status
    BY <1>1, <1>6 DEF Row
  <2>. QED
    BY <1>4, <2>1
<1>7. CASE q = [Cleared(f, r) EXCEPT !.active = FALSE]
  <2>1. /\ q.active = FALSE /\ q.warn = FALSE
        /\ q.status = IF r.warn THEN Unflagged(f, r.status) ELSE r.status
    <3>. DEFINE c == Cleared(f, r)
    <3>1. c \in Row /\ c.warn = FALSE
          /\ c.status = IF r.warn THEN Unflagged(f, r.status) ELSE r.status
      BY <1>1, ClearedRow
    <3>2. q = [c EXCEPT !.active = FALSE]
      BY <1>7
    <3>. HIDE DEF c
    <3>. QED
      BY <3>1, <3>2 DEF Row
  <2>2. f \notin Amendments \/ f \in Restatements => q.status # "amendments_pending"
    BY <1>1, <2>1 DEF Book, Unflagged
  <2>. QED
    BY <1>1, <1>2, <2>1, <2>2 DEF Book, SameFiling
<1>8. CASE /\ f \in Restatements \/ f \notin Amendments \/ r.status = "applied" \/ r.active
           /\ q = Flagged(r)
  <2>1. q.active = r.active /\ q.warn = TRUE
    BY <1>1, <1>8, FlaggedRow
  <2>2. f \in Amendments \ Restatements => r.status \in Terminal
    BY <1>1, <1>8 DEF Book, Terminal
  <2>. QED
    BY <1>1, <1>2, <2>1, <2>2 DEF Book, SameFiling
<1>9. CASE f \notin Amendments /\ q = [Flagged(r) EXCEPT !.active = FALSE]
  <2>1. q.active = FALSE /\ q.warn = TRUE
    BY <1>1, <1>9, FlaggedRow DEF Row
  <2>. QED
    BY <1>1, <1>2, <1>3, <1>9, <2>1 DEF Book, SameFiling
<1>10. CASE /\ f \in Restatements /\ r.where = "group" /\ r.status \notin Parked
            /\ q = [r EXCEPT !.active = TRUE, !.status = "applied", !.warn = FALSE]
  <2>1. q.status = "applied" /\ q.warn = FALSE /\ q.where = "group"
    BY <1>1, <1>10, RestatementWins DEF SameFiling
  <2>. QED
    BY <1>1, <1>2, <2>1 DEF Book, SameFiling, Terminal
<1>11. CASE /\ f \in Amendments /\ r.where = "group" /\ r.status = "applied"
            /\ q = [r EXCEPT !.active = TRUE]
  <2>1. q.status = r.status /\ q.warn = r.warn /\ q.where = "group"
    BY <1>1, <1>11 DEF Row
  <2>. QED
    BY <1>1, <1>2, <1>11, <2>1 DEF Book, SameFiling, Terminal
<1>12. CASE /\ f \notin Amendments /\ r.where = "group"
            /\ q = [r EXCEPT !.active = TRUE, !.warn = FALSE, !.status = Unflagged(f, @)]
  <2>1. q.warn = FALSE /\ q.status = Unflagged(f, r.status) /\ q.where = "group"
    BY <1>1, <1>12, OriginalWins DEF Keeps, SameFiling
  <2>2. q.status # "amendments_pending"
    BY <1>12, <2>1 DEF Unflagged
  <2>. QED
    BY <1>1, <1>2, <1>3, <1>12, <2>1, <2>2 DEF Book, SameFiling, Amendments
<1>. QED
  BY <1>5, <1>6, <1>7, <1>8, <1>9, <1>10, <1>11, <1>12, Outcomes DEF r, q

LEMMA NormalizedRow ==
    ASSUME NEW f, NEW r \in Row, NEW q, q = Normalized(f, r)
    PROVE  /\ q \in Row /\ SameFiling(r, q) /\ q.warn = r.warn
           /\ q.active => r.active
           /\ f \in Amendments /\ r.status \in Terminal => q.active = r.active /\ q.status = r.status
           /\ f \notin Amendments => q.status = r.status /\ (q.active => r.where = "group")
           /\ f \in Amendments /\ r.status \notin Terminal =>
                 /\ ~q.active
                 /\ q.status = IF Form[f] \in NTForms /\ r.parse = "succeeded" THEN "applied"
                               ELSE IF f \in Restatements THEN "pending_parse"
                               ELSE "amendments_pending"
<1>1. CASE f \notin Amendments
  <2>1. q = r \/ (r.where # "group" /\ q = [r EXCEPT !.active = FALSE])
    BY <1>1 DEF Normalized
  <2>2. CASE q = r
    <3>1. q.active => r.where = "group"
      <4>1. CASE r.where = "group"
        BY <4>1
      <4>2. CASE r.where # "group"
        <5>1. q = [r EXCEPT !.active = FALSE]
          BY <1>1, <4>2 DEF Normalized
        <5>. QED
          BY <5>1 DEF Row
      <4>. QED
        BY <4>1, <4>2
    <3>. QED
      BY <1>1, <2>2, <3>1 DEF SameFiling
  <2>3. CASE r.where # "group" /\ q = [r EXCEPT !.active = FALSE]
    BY <1>1, <2>3 DEF Row, SameFiling
  <2>. QED
    BY <2>1, <2>2, <2>3
<1>2. CASE f \in Amendments /\ r.status \in Terminal
  BY <1>2 DEF Normalized, SameFiling
<1>3. CASE f \in Amendments /\ r.status \notin Terminal
  <2>. DEFINE d == IF Form[f] \in NTForms /\ r.parse = "succeeded" THEN "applied"
                   ELSE IF f \in Restatements THEN "pending_parse"
                   ELSE "amendments_pending"
  <2>1. q = [r EXCEPT !.active = FALSE, !.status = d]
    BY <1>3 DEF Normalized
  <2>2. d \in Statuses
    BY DEF Statuses, Terminal
  <2>3. q.status = d => q.status = IF Form[f] \in NTForms /\ r.parse = "succeeded" THEN "applied"
                                   ELSE IF f \in Restatements THEN "pending_parse"
                                   ELSE "amendments_pending"
    OBVIOUS
  <2>. HIDE DEF d
  <2>4. q \in Row /\ SameFiling(r, q) /\ q.warn = r.warn /\ q.active = FALSE /\ q.status = d
    BY <2>1, <2>2 DEF Row, SameFiling
  <2>. QED
    BY <1>3, <2>3, <2>4
<1>. QED
  BY <1>1, <1>2, <1>3

\* What the books say of a row once its document has been read.
LEMMA NormalizedBook ==
    ASSUME NEW f \in Filings, NEW b \in Row, Book(f, b), NEW r \in Row,
           r.active = b.active, r.status = b.status, r.warn = b.warn, r.run = b.run,
           Anchored /\ f \in Amendments => r.where \in {"group", b.where},
           NEW q, q = Normalized(f, r)
    PROVE  /\ q \in Row /\ Book(f, q)
           /\ q.active => b.active
           /\ b.status \in Terminal => q.status = b.status
<1>1. /\ q \in Row /\ SameFiling(r, q) /\ q.warn = r.warn
      /\ q.active => r.active
      /\ f \in Amendments /\ r.status \in Terminal => q.active = r.active /\ q.status = r.status
      /\ f \notin Amendments => q.status = r.status /\ (q.active => r.where = "group")
      /\ f \in Amendments /\ r.status \notin Terminal =>
            /\ ~q.active
            /\ q.status = IF Form[f] \in NTForms /\ r.parse = "succeeded" THEN "applied"
                          ELSE IF f \in Restatements THEN "pending_parse"
                          ELSE "amendments_pending"
  BY NormalizedRow
<1>2. Restatements \subseteq Amendments /\ (Form[f] = "13F-NT/A" => f \in Amendments)
  BY FilingAssumption DEF Amendments
<1>3. b.status \in Terminal => q.status = b.status
  BY <1>1
<1>4. Book(f, q)
  <2>1. CASE f \notin Amendments
    BY <1>1, <1>2, <2>1 DEF Book, SameFiling
  <2>2. CASE f \in Amendments /\ r.status \in Terminal
    <3>1. Anchored /\ q.active => q.where = "group"
      BY <1>1, <2>2 DEF Book, SameFiling
    <3>. QED
      BY <1>1, <2>2, <3>1 DEF Book, SameFiling, Terminal, Parked
  <2>3. CASE f \in Amendments /\ r.status \notin Terminal
    <3>1. Form[f] = "13F-NT/A" /\ r.parse = "succeeded" => q.status \in Terminal
      BY <1>1, <2>3 DEF NTForms, Terminal
    <3>2. f \in Restatements => q.status # "amendments_pending"
      BY <1>1, <2>3
    <3>. QED
      BY <1>1, <2>3, <3>1, <3>2 DEF Book, SameFiling
  <2>. QED
    BY <2>1, <2>2, <2>3
<1>. QED
  BY <1>1, <1>3, <1>4

\* What the routing backfill makes of a row.
Rerouted(r, w) == [r EXCEPT !.where = IF QuarterOf(w) = "group" THEN "group" ELSE @]

LEMMA DocumentBook ==
    ASSUME NEW f \in Filings, NEW b \in Row, Book(f, b), NEW a \in AccTimes[f]
    PROVE  /\ \A q : q = Accepted(b, a) =>
                 /\ q \in Row /\ Book(f, q)
                 /\ q.active = b.active /\ q.status = b.status /\ q.where = b.where
           /\ \A q : q = Normalized(f, Accepted(b, a)) =>
                 /\ q \in Row /\ Book(f, q)
                 /\ q.active => b.active
                 /\ b.status \in Terminal => q.status = b.status
                 /\ q.where = b.where
           /\ \A w \in Routes[f] : \A q : q = Normalized(f, Stated(f, b, a, w)) =>
                 /\ q \in Row /\ Book(f, q)
                 /\ q.active => b.active
                 /\ b.status \in Terminal => q.status = b.status
           /\ \A w \in Routes[f] : \A q : q = Rerouted(Accepted(b, a), w) =>
                 /\ q \in Row /\ Book(f, q)
                 /\ q.active = b.active /\ q.status = b.status
<1>. DEFINE c == Accepted(b, a)
<1>1. a \in Nat /\ Routes[f] \subseteq Routings
  BY AuthorityAssumption
<1>2. /\ c \in Row /\ c.where = b.where /\ c.active = b.active /\ c.status = b.status
      /\ c.warn = b.warn /\ c.parse = b.parse /\ c.run = b.run
  BY <1>1 DEF Accepted, Row
<1>3. ASSUME NEW q, q = Normalized(f, c)
      PROVE  /\ q \in Row /\ Book(f, q)
             /\ q.active => b.active
             /\ b.status \in Terminal => q.status = b.status
             /\ q.where = b.where
  <2>. HIDE DEF c
  <2>1. q.where = c.where
    BY <1>2, <1>3, NormalizedRow DEF SameFiling
  <2>2. /\ q \in Row /\ Book(f, q)
        /\ q.active => b.active
        /\ b.status \in Terminal => q.status = b.status
    BY <1>2, <1>3, NormalizedBook
  <2>. QED
    BY <1>2, <2>1, <2>2
<1>4. ASSUME NEW w \in Routes[f], NEW q, q = Normalized(f, Stated(f, b, a, w))
      PROVE  /\ q \in Row /\ Book(f, q)
             /\ q.active => b.active
             /\ b.status \in Terminal => q.status = b.status
  <2>. DEFINE r == Stated(f, b, a, w)
              p == ParseOf(f, w)
              u == QuarterOf(w)
  <2>1. u \in {"unrouted", "group"} /\ p \in {"pending", "needs_review", "succeeded", "failed"}
    BY <1>1, <1>4 DEF QuarterOf, ParseOf, Routings
  <2>2. r = [c EXCEPT !.where = u, !.parse = p]
    BY DEF Stated
  <2>3. Anchored /\ f \in Amendments => u = "group"
    BY <2>1, <1>4 DEF Anchored, QuarterOf
  <2>. HIDE DEF c, r, p, u
  <2>4. /\ r \in Row /\ r.where = u /\ r.active = b.active /\ r.status = b.status
        /\ r.warn = b.warn /\ r.run = b.run
    BY <1>2, <2>1, <2>2 DEF Row
  <2>5. q = Normalized(f, r)
    BY <1>4 DEF r
  <2>6. Anchored /\ f \in Amendments => r.where \in {"group", b.where}
    BY <2>3, <2>4
  <2>. QED
    BY <2>4, <2>5, <2>6, NormalizedBook
<1>5. ASSUME NEW w \in Routes[f], NEW q, q = Rerouted(c, w)
      PROVE  /\ q \in Row /\ Book(f, q)
             /\ q.active = b.active /\ q.status = b.status
  <2>. HIDE DEF c
  <2>1. /\ q \in Row /\ q.where \in {"group", c.where} /\ q.active = c.active
        /\ q.status = c.status /\ q.warn = c.warn /\ q.parse = c.parse /\ q.run = c.run
    BY <1>2, <1>5 DEF Row, Rerouted
  <2>2. Book(f, q)
    BY <1>2, <2>1 DEF Book
  <2>. QED
    BY <1>2, <2>1, <2>2
<1>6. Book(f, c)
  <2>. HIDE DEF c
  <2>. QED
    BY <1>2 DEF Book
<1>. QED
  BY <1>2, <1>3, <1>4, <1>5, <1>6

-----------------------------------------------------------------------------
(* One session after another: nothing changes between what a session reads  *)
(* and what it commits. Seen is the table as it would leave it.             *)

Alone == \A s, t \in Sessions : s = t

Seen(x, g) == [f \in Filings |-> IF f \in x.read THEN x.view[f] ELSE g[f]]

Parsers == {"parse", "controlled", "loop"}

Steady(x, g) ==
    /\ x.at \in {"idle", "gate"} => x.read = {} /\ x.rows = {} /\ x.op \in {"none", "controlled"}
    /\ x.at = "idle" => x.on \notin Filings
    /\ x.op \in Parsers /\ x.on \in Filings => Form[x.on] \in HRForms
    /\ x.at = "parsing" => x.on \in x.read /\ x.view[x.on] = g[x.on]
    /\ \A f \in x.read : x.orig[f] = g[f]
    /\ x.at # "closing" => \A f \in x.read \ x.rows : x.view[f].where = g[f].where
    /\ x.op \in Parsers => \A f \in x.rows : f \in Filings => g[f].run
    /\ Books(Seen(x, g))
    /\ \A f \in Filings :
          g[f].status \in Parked /\ Seen(x, g)[f].status # g[f].status
          => x.on = f /\ x.op \in {"resolve", "gate"}
    /\ Anchored => ~Several(Serving(Seen(x, g)))
    /\ x.op = "sweep" => /\ x.at = "ready" => Seen(x, g) = g
                         /\ x.at = "closing" => Seen(x, g) = Policy(g)

Solo ==
    /\ Shape
    /\ Books(db)
    /\ ~Several(Serving(db))
    /\ \A s \in Sessions : Steady(ses[s], db)

\* A session that remembers nothing yet.
LEMMA FreshIsSteady ==
    ASSUME NEW g \in Table, Books(g), ~Several(Serving(g)), NEW x, x.read = {},
           x.at \in {"idle", "gate", "ready"}, x.rows = {},
           x.at \in {"idle", "gate"} => x.op \in {"none", "controlled"},
           x.at = "idle" => x.on \notin Filings,
           x.op \in Parsers /\ x.on \in Filings => Form[x.on] \in HRForms
    PROVE  Steady(x, g)
<1>1. Seen(x, g) = g
  BY DEF Seen, Table
<1>. QED
  BY <1>1 DEF Steady

\* A session y that remembers what x does, and of f that it is q.
LEMMA OneMoreRowIsSteady ==
    ASSUME NEW g \in Table, NEW x, Steady(x, g), x.op \notin {"resolve", "gate", "sweep"},
           NEW f \in Filings, NEW q \in Row,
           NEW y, y.read = x.read \cup {f}, y.at \in {"looping", "parsing", "ready", "closing"},
           \A e \in y.read : y.orig[e] = g[e],
           y.view[f] = q, \A e \in x.read \ {f} : y.view[e] = x.view[e],
           y.op # "sweep", y.op \in Parsers /\ y.on \in Filings => Form[y.on] \in HRForms,
           y.at = "parsing" => y.on = f /\ q = g[f],
           y.at # "closing" => x.at # "closing" /\ x.rows \subseteq y.rows
                               /\ (f \in y.rows \/ q.where = g[f].where),
           y.op \in Parsers => \A e \in y.rows : e \in Filings => g[e].run,
           Book(f, q),
           Anchored /\ q.active /\ q.where = "group"
           => Seen(x, g)[f].active /\ Seen(x, g)[f].where = "group",
           g[f].status \in Parked /\ q.status # g[f].status
           => y.on = f /\ y.op \in {"resolve", "gate"}
    PROVE  Steady(y, g)
<1>. DEFINE h == Seen(y, g)
            k == Seen(x, g)
<1>1. \A e \in Filings : h[e] = IF e = f THEN q ELSE k[e]
  BY DEF Seen
<1>2. /\ Books(k) /\ (Anchored => ~Several(Serving(k)))
      /\ \A e \in Filings : g[e].status \in Parked => k[e].status = g[e].status
  BY DEF Steady
<1>3. x.at # "closing" => \A e \in x.read \ x.rows : x.view[e].where = g[e].where
  BY DEF Steady
<1>. HIDE DEF h, k
<1>4. Books(h)
  BY <1>1, <1>2 DEF Books
<1>5. Anchored => Serving(h) \subseteq Serving(k)
  BY <1>1 DEF Serving, Group, k
<1>6. Anchored => ~Several(Serving(h))
  BY <1>2, <1>5 DEF Several
<1>7. \A e \in Filings : g[e].status \in Parked /\ h[e].status # g[e].status
                         => y.on = e /\ y.op \in {"resolve", "gate"}
  BY <1>1, <1>2
<1>8. y.at # "closing" => \A e \in y.read \ y.rows : y.view[e].where = g[e].where
  BY <1>3
<1>. QED
  BY <1>4, <1>6, <1>7, <1>8 DEF Steady, h

\* A session that has read one row, and made q of it.
LEMMA OneRowIsSteady ==
    ASSUME NEW g \in Table, Books(g), ~Several(Serving(g)), NEW f \in Filings, NEW q \in Row,
           NEW x, x.read = {f}, x.orig[f] = g[f], x.view[f] = q, x.on = f,
           x.at \in {"parsing", "ready", "closing"}, x.op # "sweep",
           x.op \in Parsers => Form[f] \in HRForms /\ x.rows = {},
           x.at = "parsing" => q = g[f],
           x.at = "ready" => f \in x.rows \/ q.where = g[f].where,
           Book(f, q),
           Anchored /\ q.active /\ q.where = "group" => g[f].active /\ g[f].where = "group",
           g[f].status \in Parked /\ q.status # g[f].status => x.op \in {"resolve", "gate"}
    PROVE  Steady(x, g)
<1>1. PICK y : y = Idle
  OBVIOUS
<1>2. y.read = {} /\ y.at = "idle" /\ y.rows = {} /\ y.op = "none" /\ y.on \notin Filings
  BY <1>1, AuthorityAssumption DEF Idle
<1>3. Steady(y, g)
  BY <1>2, FreshIsSteady DEF Parsers
<1>4. Seen(y, g)[f] = g[f]
  BY <1>2 DEF Seen
<1>5. /\ x.read = y.read \cup {f} /\ (\A e \in x.read : x.orig[e] = g[e])
      /\ \A e \in y.read \ {f} : x.view[e] = y.view[e]
      /\ y.op \notin {"resolve", "gate", "sweep"} /\ y.at # "closing" /\ y.rows \subseteq x.rows
      /\ x.at = "parsing" => q.where = g[f].where
      /\ x.op \in Parsers => \A e \in x.rows : e \in Filings => g[e].run
  BY <1>2
<1>. QED
  BY <1>3, <1>4, <1>5, OneMoreRowIsSteady

\* A step of a session that commits nothing.
LEMMA SoloMoves ==
    ASSUME Alone, Solo, Shape', NEW s \in Sessions, NEW x, ses' = [ses EXCEPT ![s] = x],
           Steady(x, db), UNCHANGED db
    PROVE  Solo'
<1>1. \A t \in Sessions : ses'[t] = x
  BY DEF Alone, Solo, Shape, TypeOK
<1>. QED
  BY <1>1 DEF Solo

LEMMA SoloFacts ==
    ASSUME Solo, NEW s \in Sessions
    PROVE  /\ db \in Table /\ Books(db) /\ ~Several(Serving(db))
           /\ Fit(ses[s]) /\ ses[s] \in SessionState /\ Steady(ses[s], db)
           /\ ses[s].orig \in Table /\ ses[s].view \in Table
           /\ \A f \in Filings : db[f] \in Row /\ Book(f, db[f])
           /\ \A f \in filed : f \in Filings
BY AuthorityAssumption DEF Solo, Shape, TypeOK, Fit, SessionState, Table, Books

\* A session that has read f, made r of it, and goes on from there.
Opened(s, op, f, r, a) == [Reading(s, op, f, r) EXCEPT !.at = a]
Holding(s, op, f, r, a, R) == [Reading(s, op, f, r) EXCEPT !.at = a, !.rows = R]
Deciding(s, op, f, r, d) == [Reading(s, op, f, r) EXCEPT !.decision = d, !.at = "closing"]

Of(x, op, f, r, a) ==
    /\ x.at = a /\ x.op = op /\ x.on = f /\ x.read = {f}
    /\ x.orig[f] = db[f] /\ x.view[f] = r

LEMMA OpenedRow ==
    ASSUME NEW s, NEW op, NEW f \in Filings, NEW r, NEW a
    PROVE  Of(Opened(s, op, f, r, a), op, f, r, a) /\ Opened(s, op, f, r, a).rows = {}
BY DEF Of, Opened, Reading, Idle, Empty

LEMMA HoldingRow ==
    ASSUME NEW s, NEW op, NEW f \in Filings, NEW r, NEW a, NEW R
    PROVE  Of(Holding(s, op, f, r, a, R), op, f, r, a) /\ Holding(s, op, f, r, a, R).rows = R
BY DEF Of, Holding, Reading, Idle, Empty

LEMMA DecidingRow ==
    ASSUME NEW s, NEW op, NEW f \in Filings, NEW r, NEW d
    PROVE  Of(Deciding(s, op, f, r, d), op, f, r, "closing")
BY DEF Of, Deciding, Reading, Idle, Empty

LEMMA StartsSteady ==
    ASSUME Alone, Solo, Shape', NEW s \in Sessions, NEW op \in {"detail"},
           NEW f \in Filings, NEW r \in Row, StartPolicy(s, op, f, r),
           NEW q, q = Normalized(f, r),
           Book(f, q), q.active => db[f].active,
           db[f].status \in Terminal => q.status = db[f].status
    PROVE  Solo'
<1>. DEFINE a == IF RunsPolicy(f, r) THEN "ready" ELSE "closing"
            R == IF db[f] # r THEN {f} ELSE {}
<1>1. q \in Row /\ q.where = r.where
  BY NormalizedRow DEF SameFiling
<1>2. a \in {"ready", "closing"} /\ (db[f] # r => f \in R)
  OBVIOUS
<1>3. ses' = [ses EXCEPT ![s] = Holding(s, op, f, Normalized(f, r), a, R)] /\ db' = db
  BY DEF StartPolicy, Holding
<1>. HIDE DEF a, R
<1>4. PICK x : x = Holding(s, op, f, q, a, R)
  OBVIOUS
<1>5. /\ x.at = a /\ x.op = op /\ x.on = f /\ x.read = {f} /\ x.rows = R
      /\ x.orig[f] = db[f] /\ x.view[f] = q
  BY <1>4, HoldingRow DEF Of
<1>6. db[f] \in Row /\ Book(f, db[f]) /\ db \in Table /\ Books(db) /\ ~Several(Serving(db))
  BY SoloFacts
<1>7. Anchored /\ q.active /\ q.where = "group" => db[f].active /\ db[f].where = "group"
  BY <1>6 DEF Book
<1>8. db[f].status \in Parked /\ q.status # db[f].status => x.op \in {"resolve", "gate"}
  BY DEF Terminal
<1>9. x.at = "ready" => f \in x.rows \/ q.where = db[f].where
  BY <1>1, <1>2, <1>5
<1>10. /\ x.at \in {"parsing", "ready", "closing"} /\ x.op # "sweep"
       /\ x.op \notin Parsers /\ x.at # "parsing"
  BY <1>2, <1>5 DEF Parsers
<1>11. Steady(x, db)
  BY <1>1, <1>5, <1>6, <1>7, <1>8, <1>9, <1>10, OneRowIsSteady
<1>. QED
  BY <1>3, <1>4, <1>11, SoloMoves

LEMMA DecidedBook ==
    ASSUME NEW f \in Filings, NEW r \in Row, Book(f, r), NEW d \in Decisions
    PROVE  LET q == Decided(r, d) IN
           /\ q \in Row /\ Book(f, q)
           /\ q.where = r.where /\ q.active = r.active /\ q.status = d
<1>. DEFINE q == Decided(r, d)
            w == IF d = "applied" THEN FALSE ELSE r.warn
<1>1. d \in Statuses /\ d \in Terminal /\ d # "amendments_pending" /\ w \in BOOLEAN
  BY DEF Decisions, Statuses, Terminal, Parked, Row
<1>2. q = [r EXCEPT !.status = d, !.warn = w]
  BY DEF Decided
<1>. HIDE DEF q, w
<1>3. /\ q \in Row /\ q.where = r.where /\ q.active = r.active /\ q.status = d
      /\ q.parse = r.parse /\ q.run = r.run
  BY <1>1, <1>2 DEF Row
<1>4. Book(f, q)
  BY <1>1, <1>3 DEF Book
<1>. QED
  BY <1>3, <1>4 DEF q

\* A step that changes one committed row, when nobody remembers anything.
LEMMA SoloRow ==
    ASSUME Alone, Solo, Shape', NEW s \in Sessions, NEW f \in Filings, NEW q \in Row,
           ses[s].at = "idle", db' = [db EXCEPT ![f] = q], ses' = ses,
           Book(f, q), q.active /\ q.where = "group" => db[f].active /\ db[f].where = "group"
    PROVE  Solo'
<1>1. /\ db \in Table /\ Books(db) /\ ~Several(Serving(db)) /\ Steady(ses[s], db)
  BY SoloFacts
<1>2. db' \in Table
  BY DEF Shape, TypeOK
<1>3. \A e \in Filings : db'[e] = IF e = f THEN q ELSE db[e]
  BY <1>1 DEF Table
<1>4. Books(db') /\ Serving(db') \subseteq Serving(db)
  BY <1>1, <1>3 DEF Books, Serving, Group
<1>5. ~Several(Serving(db'))
  BY <1>1, <1>4 DEF Several
<1>6. /\ ses[s].read = {} /\ ses[s].rows = {} /\ ses[s].on \notin Filings /\ ses[s].op \in {"none", "controlled"}
      /\ ses[s].op \in Parsers /\ ses[s].on \in Filings => Form[ses[s].on] \in HRForms
      /\ Steady(ses[s], db) /\ ses[s].at = "idle"
  BY <1>1 DEF Steady
<1>7. Steady(ses[s], db')
  BY <1>2, <1>4, <1>5, <1>6, FreshIsSteady
<1>8. \A t \in Sessions : ses'[t] = ses[s]
  BY DEF Alone
<1>. QED
  BY <1>4, <1>5, <1>7, <1>8 DEF Solo

\* The bulk loop goes on to a filing it has not read.
LEMMA SoloLoops ==
    ASSUME Alone, Solo, Shape', NEW s \in Sessions, NEW f \in Filings,
           PassOver(s, f) \/ ParseNext(s, f)
    PROVE  Solo'
<1>. DEFINE x == ses[s]
            o == Was(s, f)
<1>1. /\ db \in Table /\ Fit(x) /\ x \in SessionState /\ Steady(x, db)
      /\ x.orig \in Table /\ x.view \in Table /\ db[f] \in Row /\ Book(f, db[f])
  BY SoloFacts
<1>2. x.at \in {"idle", "looping"} /\ f \notin x.read
  BY DEF PassOver, ParseNext
<1>3. x.op \in {"none", "controlled", "loop"}
  BY <1>1, <1>2 DEF Fit, Steady
<1>4. /\ x.at = "looping" => x.op = "loop"
      /\ x.op \in Parsers /\ x.on \in Filings => Form[x.on] \in HRForms
      /\ x.op \in Parsers => \A e \in x.rows : e \in Filings => db[e].run
      /\ x.at = "idle" => x.rows = {}
      /\ \A e \in x.read : x.orig[e] = db[e]
      /\ x.rows \subseteq Filings
  BY <1>1 DEF Fit, Steady, SessionState
<1>5. Seen(x, db)[f] = db[f]
  BY <1>2 DEF Seen
<1>6. ASSUME ParseNext(s, f) PROVE Solo'
  <2>. DEFINE v == Now(s, f, db[f])
  <2>1. /\ ses' = [ses EXCEPT ![s] = Taken(x, f, o, v)] /\ db' = db
        /\ x.at = "looping" /\ Form[f] \in HRForms
    BY <1>6, LoopSteps DEF ParseNext, Solo
  <2>2. /\ v[f] = db[f] /\ (\A e \in x.read \ {f} : v[e] = x.view[e])
        /\ o[f] = db[f] /\ \A e \in x.read \ {f} : o[e] = x.orig[e]
    BY <1>1, LoopTypes DEF SessionState, Solo
  <2>. HIDE DEF v, o
  <2>3. PICK y : y = Taken(x, f, o, v)
    OBVIOUS
  <2>4. /\ y.at = "parsing" /\ y.op = x.op /\ y.on = f /\ y.read = x.read \cup {f}
        /\ y.rows = x.rows /\ y.orig = o /\ y.view = v
    BY <1>1, <2>3 DEF Taken, SessionState
  <2>5. \A e \in y.read : y.orig[e] = db[e]
    BY <1>4, <2>2, <2>4
  <2>. HIDE DEF x
  <2>6. Anchored /\ db[f].active /\ db[f].where = "group"
        => Seen(x, db)[f].active /\ Seen(x, db)[f].where = "group"
    BY <1>5
  <2>7. Steady(y, db)
    BY <1>1, <1>3, <1>4, <2>1, <2>2, <2>4, <2>5, <2>6, OneMoreRowIsSteady
  <2>. QED
    BY <2>1, <2>3, <2>7, SoloMoves
<1>7. ASSUME PassOver(s, f) PROVE Solo'
  <2>. DEFINE q == Mended(db[f])
              v == Now(s, f, q)
              R == Held(s, f)
  <2>1. /\ ses' = [ses EXCEPT ![s] = Passed(x, f, o, v, R)]
        /\ R = x.rows \cup {e \in {f} : db[e] # q}
        /\ UNCHANGED <<filed, db, holder>>
    BY <1>7, LoopSteps DEF Solo, Held
  <2>2. /\ q \in Row /\ q.where = db[f].where /\ q.active = db[f].active
        /\ q.status = db[f].status /\ q.warn = db[f].warn /\ q.run = db[f].run
        /\ db[f] # q => db[f].run
    BY <1>1, MendedRow
  <2>3. /\ v[f] = q /\ (\A e \in x.read \ {f} : v[e] = x.view[e])
        /\ o[f] = db[f] /\ \A e \in x.read \ {f} : o[e] = x.orig[e]
    <3>1. q \in Row
      BY <2>2
    <3>. HIDE DEF q
    <3>. QED
      BY <1>1, <3>1, LoopTypes DEF SessionState, Solo
  <2>4. Book(f, q)
    <3>1. q.parse = db[f].parse \/ db[f].run
      BY <2>2
    <3>2. db[f].run => Form[f] \in HRForms
      BY <1>1 DEF Book
    <3>. HIDE DEF q
    <3>. QED
      BY <1>1, <2>2, <3>1, <3>2 DEF Book, HRForms
  <2>. HIDE DEF v, o, q, R
  <2>5. PICK y : y = Passed(x, f, o, v, R)
    OBVIOUS
  <2>6. /\ y.at = "looping" /\ y.op = "loop" /\ y.on = x.on /\ y.read = x.read \cup {f}
        /\ y.rows = R /\ y.orig = o /\ y.view = v
    BY <1>1, <2>5 DEF Passed, SessionState
  <2>7. \A e \in y.read : y.orig[e] = db[e]
    BY <1>4, <2>3, <2>6
  <2>8. Anchored /\ q.active /\ q.where = "group"
        => Seen(x, db)[f].active /\ Seen(x, db)[f].where = "group"
    BY <1>5, <2>2
  <2>9. x.at = "idle" => x.on \notin Filings
    BY <1>1 DEF Steady
  <2>10. y.op \in Parsers /\ y.on \in Filings => Form[y.on] \in HRForms
    BY <1>2, <1>4, <2>6, <2>9 DEF Parsers
  <2>11. \A e \in y.rows : e \in Filings => db[e].run
    BY <1>2, <1>4, <2>1, <2>2, <2>6 DEF Parsers
  <2>. HIDE DEF x
  <2>12. Steady(y, db)
    BY <1>1, <1>2, <1>3, <2>1, <2>2, <2>3, <2>4, <2>6, <2>7, <2>8, <2>10, <2>11, OneMoreRowIsSteady
  <2>. QED
    BY <2>1, <2>5, <2>12, SoloMoves
<1>. QED
  BY <1>6, <1>7

\* The bulk ingest has read the documents of many filings.
LEMMA SoloBulks ==
    ASSUME Alone, Solo, Shape', NEW s \in Sessions, NEW f \in Filings,
           NEW E \in SUBSET Filings, Bulk(s, f, E)
    PROVE  Solo'
<1>1. f \in E /\ UNCHANGED <<filed, db, holder>>
  BY BulkSteps
<1>2. PICK t \in Statements(E), a \in {"ready", "closing"} :
         ses' = [ses EXCEPT ![s] = Bulked(f, E, t, a)]
  BY BulkSteps
<1>. DEFINE u == BulkRead(E, t)
            v == BulkSees(f, E, t)
            R == BulkHolds(E, t)
<1>3. /\ db \in Table /\ Books(db) /\ ~Several(Serving(db))
      /\ \A e \in Filings : db[e] \in Row /\ Book(e, db[e])
  BY SoloFacts
<1>4. /\ u \in Table /\ BulkWas(E) \in Table /\ v \in Table
      /\ \A e \in E : t[e] \in AccTimes[e] /\ u[e] = Accepted(db[e], t[e])
      /\ v[f] = Normalized(f, u[f]) /\ \A e \in Filings : e # f => v[e] = u[e]
  BY <1>1, <1>3, BulkRows
<1>. HIDE DEF u, v, R
<1>5. \A e \in E : /\ u[e] \in Row /\ Book(e, u[e]) /\ u[e].active = db[e].active
                   /\ u[e].status = db[e].status /\ u[e].where = db[e].where
  BY <1>3, <1>4, DocumentBook
<1>6. /\ v[f] \in Row /\ Book(f, v[f]) /\ (v[f].active => db[f].active)
      /\ (db[f].status \in Terminal => v[f].status = db[f].status) /\ v[f].where = db[f].where
  BY <1>1, <1>3, <1>4, DocumentBook
<1>7. \A e \in Filings : e # f => v[e] = u[e]
  BY <1>4
<1>8. PICK y : y = Bulked(f, E, t, a)
  OBVIOUS
<1>9. /\ y.at = a /\ y.op = "bulk" /\ y.on = f /\ y.read = E /\ y.rows = R
      /\ y.orig = BulkWas(E) /\ y.view = v
  BY <1>8 DEF Bulked, Idle, v, R
<1>10. \A e \in E : /\ v[e].where = db[e].where /\ (v[e].active => db[e].active) /\ Book(e, v[e])
                    /\ db[e].status \in Parked => v[e].status = db[e].status
  BY <1>5, <1>6, <1>7 DEF Terminal
<1>. DEFINE h == Seen(y, db)
<1>11. \A e \in Filings : h[e] = IF e \in E THEN v[e] ELSE db[e]
  BY <1>9 DEF Seen
<1>. HIDE DEF h
<1>12. ASSUME NEW e \in Filings
       PROVE  /\ h[e].where = db[e].where /\ (h[e].active => db[e].active) /\ Book(e, h[e])
              /\ db[e].status \in Parked => h[e].status = db[e].status
  <2>1. CASE e \in E
    BY <1>10, <1>11, <2>1
  <2>2. CASE e \notin E
    BY <1>3, <1>11, <2>2
  <2>. QED
    BY <2>1, <2>2
<1>13. Books(h) /\ Serving(h) \subseteq Serving(db)
  BY <1>12 DEF Books, Serving, Group
<1>14. ~Several(Serving(h))
  BY <1>3, <1>13 DEF Several
<1>15. \A e \in E : BulkWas(E)[e] = db[e]
  BY DEF BulkWas
<1>16. y.at \in {"ready", "closing"} /\ y.op \notin Parsers /\ y.op # "sweep"
  BY <1>9 DEF Parsers
<1>17. /\ \A e \in y.read : y.orig[e] = db[e]
       /\ \A e \in y.read : y.view[e].where = db[e].where
  BY <1>9, <1>10, <1>15
<1>18. Steady(y, db)
  BY <1>12, <1>13, <1>14, <1>16, <1>17 DEF Steady, h
<1>. QED
  BY <1>1, <1>2, <1>8, <1>18, SoloMoves

LEMMA SoloIngests ==
    ASSUME Alone, Solo, Shape', NEW s \in Sessions, Ingest(s)
    PROVE  Solo'
<1>1. PICK f \in filed :
         \/ Discover(s, f)
         \/ \E a \in AccTimes[f], w \in Routes[f] : Detail(s, f, a, w) \/ Backfill(s, f, a, w)
         \/ \E E \in {{f}, filed} : Bulk(s, f, E)
         \/ \E op \in {"parse", "controlled"} : StartParse(s, op, f)
         \/ PassOver(s, f) \/ ParseNext(s, f)
  BY DEF Ingest
<1>2. /\ f \in Filings /\ db[f] \in Row /\ Book(f, db[f]) /\ filed \subseteq Filings
      /\ db \in Table /\ Books(db) /\ ~Several(Serving(db)) /\ Steady(ses[s], db)
  BY SoloFacts
<1>3. CASE Discover(s, f)
  <2>. DEFINE r == db[f]
              q == [r EXCEPT !.where = "unrouted"]
  <2>1. q \in Row /\ q.where = "unrouted" /\ q.active = r.active /\ q.status = r.status
        /\ q.warn = r.warn /\ q.parse = r.parse /\ q.run = r.run
    BY <1>2 DEF Row
  <2>2. ses[s].at = "idle" /\ db' = [db EXCEPT ![f] = q] /\ ses' = ses /\ r.where = "absent"
    BY <1>2, <1>3 DEF Discover
  <2>3. Book(f, r)
    BY <1>2
  <2>. HIDE DEF r, q
  <2>4. Book(f, q)
    BY <2>1, <2>2, <2>3 DEF Book
  <2>. QED
    BY <1>2, <2>1, <2>2, <2>4, SoloRow
<1>4. CASE PassOver(s, f) \/ ParseNext(s, f)
  BY <1>2, <1>4, SoloLoops
<1>5. ASSUME NEW a \in AccTimes[f], NEW w \in Routes[f], Detail(s, f, a, w) PROVE Solo'
  <2>. DEFINE r == Stated(f, db[f], a, w)
              q == Normalized(f, r)
  <2>1. StartPolicy(s, "detail", f, r)
    BY <1>5 DEF Detail
  <2>2. r \in Row
    BY <1>2, <1>5, StatedRows
  <2>3. Book(f, q) /\ (q.active => db[f].active) /\ (db[f].status \in Terminal => q.status = db[f].status)
    BY <1>2, <1>5, DocumentBook
  <2>. HIDE DEF r
  <2>. QED
    BY <1>2, <2>1, <2>2, <2>3, StartsSteady
<1>6. ASSUME NEW E \in {{f}, filed}, Bulk(s, f, E) PROVE Solo'
  BY <1>2, <1>6, SoloBulks
<1>7. ASSUME NEW a \in AccTimes[f], NEW w \in Routes[f], Backfill(s, f, a, w) PROVE Solo'
  <2>. DEFINE q == Rerouted(Accepted(db[f], a), w)
  <2>1. q \in Row /\ Book(f, q) /\ q.active = db[f].active /\ q.status = db[f].status
    BY <1>2, <1>7, DocumentBook
  <2>2. ses' = [ses EXCEPT ![s] = Opened(s, "route", f, q, "closing")] /\ db' = db
    BY <1>7 DEF Backfill, Opened, Rerouted
  <2>. HIDE DEF q
  <2>3. PICK x : x = Opened(s, "route", f, q, "closing")
    OBVIOUS
  <2>4. /\ x.at = "closing" /\ x.op = "route" /\ x.on = f /\ x.read = {f}
        /\ x.orig[f] = db[f] /\ x.view[f] = q
    BY <1>2, <2>3, OpenedRow DEF Of
  <2>5. Anchored /\ q.active /\ q.where = "group" => db[f].active /\ db[f].where = "group"
    BY <1>2, <2>1 DEF Book
  <2>6. Steady(x, db)
    BY <1>2, <2>1, <2>4, <2>5, OneRowIsSteady DEF Parsers
  <2>. QED
    BY <2>2, <2>3, <2>6, SoloMoves
<1>8. ASSUME NEW op \in {"parse", "controlled"}, StartParse(s, op, f) PROVE Solo'
  <2>1. ses' = [ses EXCEPT ![s] = Opened(s, op, f, db[f], "parsing")] /\ db' = db /\ Form[f] \in HRForms
    BY <1>8 DEF StartParse, Opened
  <2>2. PICK x : x = Opened(s, op, f, db[f], "parsing")
    OBVIOUS
  <2>3. /\ x.at = "parsing" /\ x.op = op /\ x.on = f /\ x.read = {f}
        /\ x.orig[f] = db[f] /\ x.view[f] = db[f] /\ x.rows = {}
    <3>1. Of(x, op, f, db[f], "parsing") /\ x.rows = {}
      BY <1>2, <2>2, OpenedRow
    <3>. QED
      BY <3>1 DEF Of
  <2>4. Steady(x, db)
    BY <1>2, <2>1, <2>3, OneRowIsSteady
  <2>. QED
    BY <2>1, <2>2, <2>4, SoloMoves
<1>. QED
  BY <1>1, <1>3, <1>4, <1>5, <1>6, <1>7, <1>8

LEMMA SoloResolves ==
    ASSUME Alone, Solo, Shape', NEW s \in Sessions, NEW f \in filed, NEW d \in Orders[f],
           Resolve(s, f, d)
    PROVE  Solo'
<1>1. /\ f \in Filings /\ db[f] \in Row /\ Book(f, db[f])
      /\ db \in Table /\ Books(db) /\ ~Several(Serving(db))
  BY SoloFacts
<1>2. d \in Decisions /\ d \in Terminal /\ f \in Amendments /\ db' = db
  BY <1>1, AuthorityAssumption DEF Resolve, Decisions, Terminal, Parked
<1>3. CASE db[f].where = "group"
  <2>. DEFINE x == [Idle EXCEPT !.op = "resolve", !.on = f, !.decision = d, !.at = "ready"]
  <2>1. ses' = [ses EXCEPT ![s] = x]
    BY <1>3 DEF Resolve
  <2>2. x.at = "ready" /\ x.op = "resolve" /\ x.read = {} /\ x.rows = {}
    BY DEF Idle
  <2>. HIDE DEF x
  <2>3. Steady(x, db)
    BY <1>1, <2>2, FreshIsSteady DEF Parsers
  <2>. QED
    BY <1>2, <2>1, <2>3, SoloMoves
<1>4. CASE db[f].where # "group"
  <2>. DEFINE q == Decided(db[f], d)
  <2>1. ses' = [ses EXCEPT ![s] = Deciding(s, "resolve", f, q, d)]
    BY <1>4 DEF Resolve, Deciding
  <2>2. q \in Row /\ q.active = db[f].active /\ q.where = db[f].where /\ Book(f, q)
    BY <1>1, <1>2, DecidedBook
  <2>. HIDE DEF q
  <2>3. PICK x : x = Deciding(s, "resolve", f, q, d)
    OBVIOUS
  <2>4. /\ x.at = "closing" /\ x.op = "resolve" /\ x.on = f /\ x.read = {f}
        /\ x.orig[f] = db[f] /\ x.view[f] = q
    BY <1>1, <2>3, DecidingRow DEF Of
  <2>5. Steady(x, db)
    BY <1>1, <1>4, <2>2, <2>4, OneRowIsSteady DEF Parsers
  <2>. QED
    BY <1>2, <2>1, <2>3, <2>5, SoloMoves
<1>. QED
  BY <1>3, <1>4

\* A session whose transaction has ended.
LEMMA EndsSteady ==
    ASSUME NEW s \in Sessions, NEW g \in Table, Books(g), ~Several(Serving(g)), Steady(ses[s], db)
    PROVE  Steady(Idle, g) /\ Steady(AfterParse(s), g)
<1>1. /\ Idle.at = "idle" /\ Idle.read = {} /\ Idle.op = "none" /\ Idle.rows = {}
      /\ Idle.on \notin Filings
  BY AuthorityAssumption DEF Idle
<1>2. \/ AfterParse(s) = Idle
      \/ /\ AfterParse(s).at = "gate" /\ AfterParse(s).read = {} /\ AfterParse(s).on = ses[s].on
         /\ AfterParse(s).rows = {} /\ ses[s].op = "controlled" /\ AfterParse(s).op = "controlled"
  BY DEF AfterParse, Idle
<1>3. Steady(Idle, g)
  BY <1>1, FreshIsSteady DEF Parsers
<1>4. ses[s].op = "controlled" /\ ses[s].on \in Filings => Form[ses[s].on] \in HRForms
  BY DEF Steady, Parsers
<1>. QED
  BY <1>2, <1>3, <1>4, FreshIsSteady

\* A parse ends with q for the row it is about.
LEMMA ParsedIsSteady ==
    ASSUME Solo, NEW s \in Sessions, NEW f, f = ses[s].on, ses[s].at = "parsing",
           NEW q \in Row, Book(f, q), q.where = db[f].where, q.active = db[f].active,
           q.status = db[f].status,
           NEW y, y.at \in {"ready", "closing"}, y.on = f,
           y.op \in {"parse", "controlled", "loop"}, ses[s].op = "loop" => y.op = "loop",
           y.read = ses[s].read, y.rows = ses[s].rows, y.orig = ses[s].orig,
           y.view[f] = q, \A e \in ses[s].read \ {f} : y.view[e] = ses[s].view[e]
    PROVE  Steady(y, db)
<1>. DEFINE x == ses[s]
<1>1. /\ db \in Table /\ Fit(x) /\ Steady(x, db) /\ f \in Filings
      /\ x.op \in {"parse", "controlled", "loop"}
  BY SoloFacts DEF Fit
<1>2. /\ x.read = x.read \cup {f} /\ x.view[f] = db[f]
      /\ \A e \in x.read : x.orig[e] = db[e]
      /\ Form[f] \in HRForms /\ \A e \in x.rows : e \in Filings => db[e].run
  BY <1>1 DEF Steady, Parsers
<1>3. Seen(x, db)[f] = db[f]
  BY <1>1, <1>2 DEF Seen
<1>4. /\ y.read = x.read \cup {f} /\ (\A e \in y.read : y.orig[e] = db[e])
      /\ Anchored /\ q.active /\ q.where = "group"
         => Seen(x, db)[f].active /\ Seen(x, db)[f].where = "group"
      /\ x.at # "closing" /\ x.rows \subseteq y.rows /\ y.op # "sweep"
      /\ x.op \notin {"resolve", "gate", "sweep"} /\ y.at # "parsing"
      /\ \A e \in y.rows : e \in Filings => db[e].run
  BY <1>1, <1>2, <1>3
<1>. HIDE DEF x
<1>5. \A e \in x.read \ {f} : y.view[e] = x.view[e]
  BY DEF x
<1>. QED
  BY <1>1, <1>2, <1>4, <1>5, OneMoreRowIsSteady

LEMMA SoloParses ==
    ASSUME Alone, Solo, Shape', NEW s \in Sessions,
           \/ ParseOk(s) \/ ParseFails(s) \/ ParseQuarantined(s)
           \/ EndLoop(s) \/ LoopRollsBack(s) \/ GatePasses(s) \/ GateFails(s)
    PROVE  Solo'
<1>. DEFINE x == ses[s]
            f == x.on
<1>1. /\ db \in Table /\ Books(db) /\ ~Several(Serving(db)) /\ Steady(x, db)
      /\ Fit(x) /\ x \in SessionState /\ x.orig \in Table /\ x.view \in Table
  BY SoloFacts
<1>2. ses \in [Sessions -> SessionState]
  BY DEF Solo, Shape, TypeOK
<1>3. x.at \in {"parsing", "gate"} =>
         /\ f \in Filings /\ db[f] \in Row /\ Book(f, db[f])
         /\ x.op \in {"parse", "controlled", "loop"} /\ Form[f] \in HRForms
  BY <1>1 DEF Fit, Table, Books, Steady, Parsers
<1>4. x.at = "parsing" => x.view[f] = db[f] /\ DOMAIN x.view = Filings
  BY <1>1 DEF Steady, Table
<1>5. \A p \in {"succeeded", "failed"} : \A b \in BOOLEAN : \A q :
         x.at = "parsing" /\ q = [db[f] EXCEPT !.parse = p, !.run = b]
         => q \in Row /\ q.where = db[f].where /\ q.active = db[f].active
            /\ q.status = db[f].status /\ Book(f, q)
  <2>. SUFFICES ASSUME NEW p \in {"succeeded", "failed"}, NEW b \in BOOLEAN, NEW q,
                       x.at = "parsing", q = [db[f] EXCEPT !.parse = p, !.run = b]
                PROVE  q \in Row /\ q.where = db[f].where /\ q.active = db[f].active
                       /\ q.status = db[f].status /\ Book(f, q)
    OBVIOUS
  <2>. DEFINE r == db[f]
  <2>1. r \in Row /\ Book(f, r) /\ Form[f] \in HRForms /\ q = [r EXCEPT !.parse = p, !.run = b]
    BY <1>3
  <2>. SUFFICES q \in Row /\ q.where = r.where /\ q.active = r.active
                /\ q.status = r.status /\ Book(f, q)
    OBVIOUS
  <2>. HIDE DEF r
  <2>2. /\ q \in Row /\ q.where = r.where /\ q.active = r.active
        /\ q.status = r.status /\ q.warn = r.warn
    BY <2>1 DEF Row
  <2>. QED
    BY <2>1, <2>2 DEF Book, HRForms
<1>6. CASE ParseOk(s)
  <2>. DEFINE r == [x.view[f] EXCEPT !.parse = "succeeded", !.run = TRUE]
              v == [x.view EXCEPT ![f] = r]
              a == IF f \in Restatements /\ r.where = "group" THEN "ready" ELSE "closing"
              y == [x EXCEPT !.view = v, !.at = a]
  <2>1. x.at = "parsing" /\ db' = db
    BY <1>6 DEF ParseOk
  <2>2. /\ r \in Row /\ r.where = db[f].where /\ r.active = db[f].active
        /\ r.status = db[f].status /\ Book(f, r)
    <3>. DEFINE q == [db[f] EXCEPT !.parse = "succeeded", !.run = TRUE]
    <3>1. r = q
      BY <1>4, <2>1
    <3>2. /\ q \in Row /\ q.where = db[f].where /\ q.active = db[f].active
          /\ q.status = db[f].status /\ Book(f, q)
      BY <1>5, <2>1
    <3>. HIDE DEF q, r
    <3>. QED
      BY <3>1, <3>2
  <2>3. ses' = [ses EXCEPT ![s] = y]
    BY <1>1, <1>2, <1>6 DEF ParseOk, SessionState
  <2>4. a \in {"ready", "closing"}
    OBVIOUS
  <2>. HIDE DEF r, a
  <2>5. /\ y.at = a /\ y.op = x.op /\ y.on = f /\ y.read = x.read /\ y.orig = x.orig /\ y.view = v
    BY <1>1 DEF SessionState
  <2>6. v[f] = r /\ (\A e \in x.read \ {f} : v[e] = x.view[e]) /\ y.rows = x.rows
    BY <1>1, <1>3, <1>4, <2>1 DEF SessionState
  <2>. HIDE DEF y, v
  <2>7. Steady(y, db)
    BY <1>3, <2>1, <2>2, <2>4, <2>5, <2>6, ParsedIsSteady
  <2>. QED
    BY <2>1, <2>3, <2>7, SoloMoves
<1>7. CASE ParseFails(s)
  <2>. DEFINE p == IF x.view[f].run THEN "succeeded" ELSE "failed"
              r == [x.view[f] EXCEPT !.parse = p]
              v == [x.view EXCEPT ![f] = r]
              op == IF x.op = "controlled" THEN "parse" ELSE x.op
              y == [x EXCEPT !.view = v, !.op = op, !.at = "closing"]
  <2>1. x.at = "parsing" /\ db' = db
    BY <1>7 DEF ParseFails
  <2>2. /\ r \in Row /\ r.where = db[f].where /\ r.active = db[f].active
        /\ r.status = db[f].status /\ Book(f, r)
    <3>. DEFINE b == db[f].run
                q == [db[f] EXCEPT !.parse = p, !.run = b]
    <3>1. b \in BOOLEAN /\ p \in {"succeeded", "failed"}
      BY <1>3, <2>1 DEF Row
    <3>2. r = q
      <4>. DEFINE t == db[f]
      <4>1. t \in Row /\ r = [t EXCEPT !.parse = p]
        BY <1>3, <1>4, <2>1
      <4>. SUFFICES r = [t EXCEPT !.parse = p, !.run = t.run]
        OBVIOUS
      <4>2. p \in {"succeeded", "failed"}
        BY <3>1
      <4>. HIDE DEF t, p, r
      <4>. QED
        BY <4>1, <4>2 DEF Row
    <3>. HIDE DEF p, b
    <3>3. /\ q \in Row /\ q.where = db[f].where /\ q.active = db[f].active
          /\ q.status = db[f].status /\ Book(f, q)
      BY <1>5, <2>1, <3>1
    <3>. HIDE DEF q, r
    <3>. QED
      BY <3>2, <3>3
  <2>3. ses' = [ses EXCEPT ![s] = y]
    BY <1>1, <1>2, <1>7 DEF ParseFails, SessionState
  <2>. HIDE DEF r
  <2>5. /\ y.at = "closing" /\ y.op = op /\ y.on = f /\ y.read = x.read /\ y.orig = x.orig /\ y.view = v
        /\ op \in {"parse", "controlled", "loop"} /\ (x.op = "loop" => op = "loop")
    BY <1>1, <1>3, <2>1 DEF SessionState
  <2>6. v[f] = r /\ (\A e \in x.read \ {f} : v[e] = x.view[e]) /\ y.rows = x.rows
    BY <1>1, <1>3, <1>4, <2>1 DEF SessionState
  <2>. HIDE DEF y, v, op
  <2>7. Steady(y, db)
    BY <1>3, <2>1, <2>2, <2>5, <2>6, ParsedIsSteady
  <2>. QED
    BY <2>1, <2>3, <2>7, SoloMoves
<1>8. CASE GatePasses(s) \/ LoopRollsBack(s)
  <2>1. ses' = [ses EXCEPT ![s] = Idle] /\ db' = db
    BY <1>8 DEF LoopRollsBack, GatePasses
  <2>. QED
    BY <2>1, EndsSteady, <1>1, SoloMoves
<1>10. CASE ParseQuarantined(s) \/ EndLoop(s)
  <2>. DEFINE y == [x EXCEPT !.at = "closing"]
  <2>1. ses' = [ses EXCEPT ![s] = y] /\ db' = db /\ x.at \in {"parsing", "looping"}
    BY <1>10 DEF ParseQuarantined, EndLoop
  <2>2. /\ y.at = "closing" /\ y.op = x.op /\ y.on = x.on /\ y.read = x.read /\ y.rows = x.rows
        /\ y.orig = x.orig /\ y.view = x.view
    BY <1>1 DEF SessionState
  <2>3. x.op # "sweep"
    BY <1>1, <2>1 DEF Fit
  <2>. HIDE DEF y
  <2>4. Seen(y, db) = Seen(x, db)
    BY <2>2 DEF Seen
  <2>. HIDE DEF x
  <2>5. Steady(y, db)
    BY <1>1, <2>2, <2>3, <2>4 DEF Steady
  <2>. QED
    BY <2>1, <2>5, SoloMoves DEF x
<1>9. CASE GateFails(s)
  <2>. DEFINE b == x.orig[f].run
              d == IF f \in Restatements THEN "rejected" ELSE db[f].status
              q == [db[f] EXCEPT !.run = b, !.status = d]
              p == [db[f] EXCEPT !.run = b, !.status = IF f \in Restatements THEN "rejected" ELSE @]
              a == IF f \in Restatements /\ q.where = "group" THEN "ready" ELSE "closing"
              R == IF db[f] # q THEN {f} ELSE {}
  <2>1. x.at = "gate" /\ db' = db
    BY <1>9 DEF GateFails
  <2>2. b \in BOOLEAN /\ d \in Statuses
    BY <1>1, <1>3, <2>1 DEF Table, Row, Statuses, Terminal, Parked
  <2>3. p = q
    OBVIOUS
  <2>4. ses' = [ses EXCEPT ![s] = Holding(s, "gate", f, p, a, R)]
    BY <1>9, <2>3 DEF GateFails, Holding
  <2>5. /\ q \in Row /\ q.where = db[f].where /\ q.active = db[f].active /\ Book(f, q)
    <3>. DEFINE r == db[f]
    <3>1. r \in Row /\ Book(f, r) /\ Form[f] \in HRForms
      BY <1>3, <2>1
    <3>2. d = r.status \/ (f \in Restatements /\ d = "rejected")
      OBVIOUS
    <3>. SUFFICES q \in Row /\ q.where = r.where /\ q.active = r.active /\ Book(f, q)
      OBVIOUS
    <3>3. q = [r EXCEPT !.run = b, !.status = d]
      OBVIOUS
    <3>. HIDE DEF r, b, d, q
    <3>4. /\ q \in Row /\ q.where = r.where /\ q.active = r.active
          /\ q.status = d /\ q.warn = r.warn /\ q.parse = r.parse
      BY <2>2, <3>1, <3>3 DEF Row
    <3>. QED
      BY <3>1, <3>2, <3>4 DEF Book, HRForms, Terminal, Parked
  <2>6. a \in {"ready", "closing"}
    OBVIOUS
  <2>. HIDE DEF p, q, a, R
  <2>7. PICK y : y = Holding(s, "gate", f, q, a, R)
    OBVIOUS
  <2>8. f \in Filings
    BY <1>3, <2>1
  <2>9. /\ y.at = a /\ y.op = "gate" /\ y.on = f /\ y.read = {f}
        /\ y.orig[f] = db[f] /\ y.view[f] = q
    BY <2>7, <2>8, HoldingRow DEF Of
  <2>10. Steady(y, db)
    BY <1>1, <2>5, <2>6, <2>8, <2>9, OneRowIsSteady DEF Parsers
  <2>. QED
    BY <2>1, <2>3, <2>4, <2>7, <2>10, SoloMoves
<1>. QED
  BY <1>6, <1>7, <1>8, <1>9, <1>10

LEMMA ParkedStays ==
    ASSUME NEW g \in Table, NEW f \in Filings, g[f].status \in Parked
    PROVE  Policy(g)[f].status = g[f].status
<1>1. CASE Keeps(g[f], Policy(g)[f])
  BY <1>1 DEF Keeps, SameStanding, Terminal
<1>2. CASE Rule(g) = "restatement" /\ ~Contested(g) /\ f = Winner(g)
  <2>1. f \in Competing(g)
    BY <1>2, WinnerStands, Pools
  <2>. QED
    BY <2>1 DEF Competing
<1>. QED
  BY <1>1, <1>2, PolicyKeeps

LEMMA SoloReads ==
    ASSUME Solo, NEW s \in Sessions, ses[s].at = "ready"
    PROVE  /\ Queried(s, ses[s].orig) = db
           /\ Queried(s, ses[s].view) = Seen(ses[s], db)
           /\ Seen(ses[s], db) \in Table
<1>. DEFINE x == ses[s]
<1>1. /\ db \in Table /\ x.orig \in Table /\ x.view \in Table
      /\ \A f \in x.read : x.orig[f] = db[f]
      /\ \A f \in x.read \ x.rows : x.view[f].where = db[f].where
  BY SoloFacts DEF Steady
<1>2. \A r \in Row : \A w : r.where = w => [r EXCEPT !.where = w] = r
  BY DEF Row
<1>3. Seen(x, db) \in Table
  BY <1>1 DEF Seen, Table
<1>4. \A f \in Filings : /\ x.orig[f] \in Row /\ x.view[f] \in Row
                         /\ db = [e \in Filings |-> db[e]]
  BY <1>1 DEF Table
<1>5. Queried(s, x.orig) = [f \in Filings |-> db[f]]
  BY <1>1, <1>2, <1>4 DEF Queried
<1>6. Queried(s, x.view) = Seen(x, db)
  BY <1>1, <1>2, <1>4 DEF Queried, Seen
<1>. QED
  BY <1>1, <1>3, <1>5, <1>6 DEF Table

LEMMA SoloCommits ==
    ASSUME Solo, NEW s \in Sessions
    PROVE  Committed(s) = Seen(ses[s], db) /\ Seen(ses[s], db) \in Table
<1>. DEFINE x == ses[s]
<1>1. /\ db \in Table /\ x.orig \in Table /\ x.view \in Table
      /\ \A f \in x.read : x.orig[f] = db[f]
      /\ x.read \subseteq Filings
  BY SoloFacts DEF Steady, SessionState
<1>2. \A f \in Filings : db[f] \in Row /\ x.view[f] \in Row
  BY <1>1 DEF Table
<1>3. \A f \in Changed(s) : Columns(x.view[f], x.orig[f], db[f]) = x.view[f]
  BY <1>1, <1>2, WrittenAlone DEF Changed
<1>4. \A f \in Filings \ Changed(s) : Seen(x, db)[f] = db[f]
  BY <1>1 DEF Changed, Seen
<1>5. \A f \in Changed(s) : Seen(x, db)[f] = x.view[f]
  BY <1>1 DEF Changed, Seen
<1>6. Seen(x, db) = [f \in Filings |-> Seen(x, db)[f]]
  BY DEF Seen
<1>7. Committed(s) = [f \in Filings |-> Seen(x, db)[f]]
  BY <1>1, <1>3, <1>4, <1>5 DEF Committed
<1>8. Seen(x, db) \in Table
  BY <1>1, <1>2 DEF Seen, Table
<1>. QED
  BY <1>6, <1>7, <1>8

LEMMA SoloLocks ==
    ASSUME Alone, Solo, Shape', NEW s \in Sessions, TakeLock(s)
    PROVE  Solo'
<1>. DEFINE x == ses[s]
            seen == Seen(x, db)
            view == IF x.op = "resolve" THEN [seen EXCEPT ![x.on] = Decided(@, x.decision)]
                    ELSE seen
            y == [x EXCEPT !.at = "closing", !.read = Filings, !.orig = db, !.view = Policy(view)]
<1>1. x.at = "ready" /\ db' = db
  BY DEF TakeLock
<1>2. /\ Queried(s, x.orig) = db /\ Queried(s, x.view) = seen /\ seen \in Table
  BY <1>1, SoloReads
<1>3. ses' = [ses EXCEPT ![s] = y]
  BY <1>2 DEF TakeLock
<1>4. /\ db \in Table /\ Fit(x) /\ x \in SessionState /\ Books(seen)
      /\ \A f \in Filings :
            db[f].status \in Parked /\ seen[f].status # db[f].status
            => x.on = f /\ x.op \in {"resolve", "gate"}
      /\ Anchored => ~Several(Serving(seen))
      /\ x.op = "sweep" => seen = db
      /\ x.op \in Parsers /\ x.on \in Filings => Form[x.on] \in HRForms
      /\ x.op \in Parsers => \A f \in x.rows : f \in Filings => db[f].run
  BY <1>1, SoloFacts DEF Steady
<1>. HIDE DEF seen
<1>5. /\ view \in Table /\ Books(view)
      /\ \A f \in Filings : /\ view[f].where = seen[f].where /\ view[f].active = seen[f].active
                            /\ view[f] # seen[f] => x.on = f /\ x.op = "resolve"
  <2>1. CASE x.op # "resolve"
    BY <1>2, <1>4, <2>1
  <2>2. CASE x.op = "resolve"
    <3>1. x.on \in Filings /\ x.decision \in Decisions
      BY <1>4, <2>2 DEF Fit
    <3>2. \A f \in Filings : seen[f] \in Row /\ Book(f, seen[f])
      BY <1>2, <1>4 DEF Table, Books
    <3>3. \A f \in Filings : view[f] = IF f = x.on THEN Decided(seen[f], x.decision) ELSE seen[f]
      BY <1>2, <2>2, <3>1 DEF Table
    <3>4. view \in Table
      BY <1>2, <2>2, <3>1, DecidedTypes
    <3>. HIDE DEF view
    <3>. QED
      BY <2>2, <3>1, <3>2, <3>3, <3>4, DecidedBook DEF Books
  <2>. QED
    BY <2>1, <2>2
<1>. DEFINE h == Policy(view)
<1>6. /\ y.at = "closing" /\ y.op = x.op /\ y.on = x.on /\ y.read = Filings /\ y.orig = db
      /\ y.view = h /\ y.rows = x.rows
  BY <1>4 DEF SessionState
<1>7. x.op = "sweep" => h = Policy(db)
  BY <1>4
<1>. HIDE DEF view
<1>8. h \in Table /\ Books(h)
  BY <1>5, PolicyTypes, PolicyBooks
<1>9. Anchored => ~Several(Serving(h))
  <2>1. Serving(view) = Serving(seen)
    BY <1>5 DEF Serving, Group
  <2>. QED
    BY <1>4, <1>5, <2>1, ServesOne
<1>10. \A f \in Filings : view[f].status \in Parked => h[f].status = view[f].status
  BY <1>5, ParkedStays
<1>11. \A f \in Filings : db[f].status \in Parked /\ h[f].status # db[f].status
                         => x.on = f /\ x.op \in {"resolve", "gate"}
  BY <1>4, <1>5, <1>10
<1>. HIDE DEF h, y
<1>12. Seen(y, db) = h
  BY <1>6, <1>8 DEF Seen, Table
<1>13. Steady(y, db)
  BY <1>4, <1>6, <1>7, <1>8, <1>9, <1>11, <1>12 DEF Steady
<1>. QED
  BY <1>1, <1>3, <1>13, SoloMoves

LEMMA SoloRefused ==
    ASSUME Solo, NEW s \in Sessions
    PROVE  /\ Refused(s) \in Table /\ Books(Refused(s)) /\ ~Several(Serving(Refused(s)))
           /\ \A f \in Filings : Refused(s)[f].status = db[f].status
<1>. DEFINE x == ses[s]
            g == Refused(s)
<1>1. /\ db \in Table /\ ~Several(Serving(db)) /\ \A f \in Filings : Book(f, db[f])
      /\ x.op \in Parsers /\ x.on \in Filings => Form[x.on] \in HRForms
      /\ x.op \in Parsers => \A f \in x.rows : f \in Filings => db[f].run
  BY SoloFacts DEF Steady
<1>2. /\ g \in Table
      /\ \A f \in Filings : /\ g[f].where = db[f].where /\ g[f].active = db[f].active
                            /\ g[f].status = db[f].status /\ g[f].warn = db[f].warn
                            /\ g[f].run = db[f].run
      /\ \A f \in Filings : \/ g[f] = db[f]
                            \/ x.op \in Parsers /\ (f = x.on \/ f \in x.rows)
  <2>1. g \in Table
    BY <1>1, RefusedRows
  <2>2. \A f \in Filings : /\ g[f].where = db[f].where /\ g[f].active = db[f].active
                           /\ g[f].status = db[f].status /\ g[f].warn = db[f].warn
                           /\ g[f].run = db[f].run
    BY <1>1, RefusedRows
  <2>3. \A f \in Filings : g[f] = db[f] \/ (x.op \in Parsers /\ (f = x.on \/ f \in x.rows))
    BY DEF Refused, Parsers
  <2>. QED
    BY <2>1, <2>2, <2>3
<1>. HIDE DEF x, g
<1>3. \A f \in Filings : g[f] = db[f] \/ Form[f] \in HRForms
  BY <1>1, <1>2 DEF Book
<1>4. Books(g)
  BY <1>1, <1>2, <1>3 DEF Books, Book, HRForms
<1>5. Serving(g) = Serving(db)
  BY <1>2 DEF Serving, Group
<1>. QED
  BY <1>1, <1>2, <1>4, <1>5 DEF g

LEMMA SoloEnds ==
    ASSUME Alone, Solo, Shape', NEW s \in Sessions, Commit(s)
    PROVE  /\ Solo'
           /\ \/ db' = Seen(ses[s], db)
              \/ /\ Several(Serving(Seen(ses[s], db)))
                 /\ \A f \in Filings : db'[f].status = db[f].status
<1>1. /\ db \in Table /\ Books(db) /\ ~Several(Serving(db)) /\ Steady(ses[s], db)
      /\ Books(Seen(ses[s], db))
  BY SoloFacts DEF Steady
<1>2. \/ db' = Seen(ses[s], db) /\ ~Several(Serving(Seen(ses[s], db)))
      \/ db' = Refused(s) /\ Several(Serving(Seen(ses[s], db)))
  BY SoloCommits DEF Commit, IndexAllows
<1>3. /\ db' \in Table /\ Books(db') /\ ~Several(Serving(db'))
      /\ db' = Refused(s) => \A f \in Filings : db'[f].status = db[f].status
  BY <1>1, <1>2, SoloRefused DEF Shape, TypeOK
<1>4. PICK x \in {Idle, AfterParse(s)} : ses' = [ses EXCEPT ![s] = x]
  BY DEF Commit
<1>5. Steady(x, db')
  BY <1>1, <1>3, <1>4, EndsSteady
<1>6. \A t \in Sessions : ses'[t] = x
  BY <1>4 DEF Alone, Solo, Shape, TypeOK
<1>7. Solo'
  BY <1>3, <1>5, <1>6 DEF Solo
<1>. QED
  BY <1>2, <1>3, <1>7

LEMMA SoloKept == ASSUME Alone, Solo, [Next]_vars PROVE Solo'
<1>1. Shape'
  BY ShapeKept DEF Solo
<1>2. CASE UNCHANGED vars
  BY <1>1, <1>2 DEF vars, Solo
<1>3. ASSUME NEW s \in Sessions, NEW first \in BOOLEAN, Sweep(s, first) PROVE Solo'
  <2>. DEFINE x == [Idle EXCEPT !.op = "sweep", !.at = "ready",
                                !.read = IF first THEN Group(db) ELSE {},
                                !.orig = IF first THEN db ELSE Empty,
                                !.view = IF first THEN db ELSE Empty]
  <2>1. ses' = [ses EXCEPT ![s] = x] /\ db' = db
    BY <1>3 DEF Sweep
  <2>2. /\ x.at = "ready" /\ x.op = "sweep"
        /\ x.read = IF first THEN Group(db) ELSE {}
        /\ x.orig = IF first THEN db ELSE Empty
        /\ x.view = IF first THEN db ELSE Empty
    BY DEF Idle
  <2>. HIDE DEF x
  <2>3. /\ db \in Table /\ Books(db) /\ ~Several(Serving(db))
    BY SoloFacts
  <2>4. Seen(x, db) = db
    BY <2>2, <2>3 DEF Seen, Table
  <2>5. Steady(x, db)
    BY <2>2, <2>3, <2>4 DEF Steady, Parsers
  <2>. QED
    BY <1>1, <2>1, <2>5, SoloMoves
<1>4. ASSUME NEW s \in Sessions PROVE ~AbortDeadlocked(s)
  BY DEF AbortDeadlocked, Deadlocked, Alone
<1>. QED
  BY <1>1, <1>2, <1>3, <1>4, SoloIngests, SoloResolves, SoloParses, SoloLocks, SoloEnds DEF Next

LEMMA SoloAtFirst == ASSUME Init PROVE Solo
<1>1. Shape /\ db = Empty /\ \A s \in Sessions : ses[s] = Idle
  BY ShapeAtFirst DEF Init
<1>2. Empty \in Table /\ \A f \in Filings : Empty[f] = NoRow
  BY IdleFits DEF Empty
<1>3. Books(Empty)
  BY <1>2 DEF Books, Book, NoRow, Terminal, Parked
<1>4. ~Several(Serving(Empty))
  BY <1>2 DEF Several, Serving, Group, NoRow
<1>5. Steady(Idle, Empty)
  BY <1>2, <1>3, <1>4, FreshIsSteady, AuthorityAssumption DEF Idle, Parsers
<1>. QED
  BY <1>1, <1>3, <1>4, <1>5 DEF Solo

-----------------------------------------------------------------------------
(* A quarter with nothing left to dispute.                                  *)

LEMMA Peace ==
    ASSUME Undisputed, db \in Table, Books(db)
    PROVE  /\ ~Contested(db) /\ Pool(db) \subseteq filed
           /\ Rule(db) = "none" => \A f \in filed : Tier(f) = 0
           /\ Rule(db) # "none" =>
                 \E k \in {1, 2, 3, 4} : /\ Pool(db) = {f \in filed : Tier(f) = k}
                                         /\ \A f \in filed : Tier(f) <= k
           /\ Rule(db) = "none" => \A f \in filed : /\ f \in Amendments \ Restatements
                                                    /\ db[f].status \notin Terminal
<1>. DEFINE g == db
            P == Pool(g)
<1>1. /\ filed = Group(g) /\ filed \subseteq Filings
      /\ \A f \in filed : /\ g[f].acc \in Nat /\ g[f].acc # 0 /\ g[f].parse = "succeeded"
                          /\ g[f].status \notin Parked /\ g[f].where = "group"
                          /\ Form[f] = "13F-HR/A" => f \in Restatements \/ g[f].status # "applied"
      /\ \A e, f \in filed : e # f => g[e].acc # g[f].acc
  BY DEF Undisputed, Group, Table, Row
<1>2. P \subseteq filed
  BY <1>1, Pools
<1>3. ~Contested(g)
  <2>1. ~Missing(g, P)
    BY <1>1, <1>2 DEF Missing
  <2>2. ~Several(Latest(g, P))
    <3>. SUFFICES ASSUME NEW e \in Latest(g, P), NEW f \in Latest(g, P), e # f PROVE FALSE
      BY DEF Several
    <3>1. e \in P /\ f \in P /\ g[e].acc <= g[f].acc /\ g[f].acc <= g[e].acc
      BY DEF Latest
    <3>. HIDE DEF P
    <3>2. e \in filed /\ f \in filed
      BY <1>2, <3>1
    <3>. QED
      BY <1>1, <3>1, <3>2
  <2>. QED
    BY <2>1, <2>2 DEF Contested, Tied
<1>. HIDE DEF g
<1>4. /\ \A f \in Filings : Form[f] \in Forms
      /\ Restatements \subseteq Amendments
      /\ Amendments = {f \in Filings : Form[f] \in {"13F-HR/A", "13F-NT/A"}}
  BY FilingAssumption DEF Amendments
<1>5. \A f \in filed : Form[f] = "13F-NT/A" => g[f].status = "applied"
  <2>. TAKE f \in filed
  <2>. HAVE Form[f] = "13F-NT/A"
  <2>1. g[f].status \in Terminal
    BY <1>1 DEF Books, Book, g
  <2>. QED
    BY <1>1, <2>1 DEF Terminal
<1>6. Competing(g) = {f \in filed : Form[f] = "13F-HR/A" /\ f \in Restatements}
  BY <1>1, <1>4 DEF Competing, HRForms
<1>7. \A f \in filed : Form[f] = "13F-HR/A" /\ g[f].status = "applied" => f \in Restatements
  BY <1>1
<1>8. AppliedOf(g, HRForms) \subseteq Competing(g)
  BY <1>1, <1>4, <1>6, <1>7 DEF AppliedOf, HRForms
<1>9. AppliedOf(g, NTForms) = {f \in filed : Form[f] = "13F-NT/A"}
  BY <1>1, <1>4, <1>5 DEF AppliedOf, NTForms
<1>10. OriginalsOf(g, HRForms) = {f \in filed : Form[f] = "13F-HR"}
  BY <1>1, <1>4 DEF OriginalsOf, HRForms
<1>11. OriginalsOf(g, NTForms) = {f \in filed : Form[f] = "13F-NT"}
  BY <1>1, <1>4 DEF OriginalsOf, NTForms
<1>12. \A f \in filed :
          /\ Tier(f) \in {0, 1, 2, 3, 4}
          /\ Tier(f) = 4 <=> f \in Competing(g)
          /\ Tier(f) = 3 <=> f \in OriginalsOf(g, HRForms)
          /\ Tier(f) = 2 <=> f \in AppliedOf(g, NTForms)
          /\ Tier(f) = 1 <=> f \in OriginalsOf(g, NTForms)
          /\ Tier(f) = 0 => Form[f] = "13F-HR/A" /\ f \notin Restatements
  BY <1>1, <1>4, <1>6, <1>9, <1>10, <1>11 DEF Tier, Forms
<1>13. /\ Competing(g) \subseteq filed /\ OriginalsOf(g, HRForms) \subseteq filed
       /\ AppliedOf(g, NTForms) \subseteq filed /\ OriginalsOf(g, NTForms) \subseteq filed
  BY <1>6, <1>9, <1>10, <1>11
<1>14. CASE Competing(g) # {}
  <2>1. Rule(g) = "restatement" /\ P = Competing(g)
    BY <1>14, Pools
  <2>2. P = {f \in filed : Tier(f) = 4} /\ \A f \in filed : Tier(f) <= 4
    BY <1>12, <1>13, <2>1
  <2>. QED
    BY <1>2, <1>3, <2>1, <2>2 DEF g
<1>15. CASE Competing(g) = {} /\ OriginalsOf(g, HRForms) # {}
  <2>1. Rule(g) = "originals" /\ P = OriginalsOf(g, HRForms)
    BY <1>8, <1>15 DEF Rule, Pool, Leading
  <2>2. P = {f \in filed : Tier(f) = 3} /\ \A f \in filed : Tier(f) <= 3
    BY <1>12, <1>13, <1>15, <2>1
  <2>. QED
    BY <1>2, <1>3, <2>1, <2>2 DEF g
<1>16. CASE Competing(g) = {} /\ OriginalsOf(g, HRForms) = {} /\ AppliedOf(g, NTForms) # {}
  <2>1. Rule(g) = "amendment_owned" /\ P = AppliedOf(g, NTForms)
    BY <1>8, <1>16 DEF Rule, Pool, Leading
  <2>2. P = {f \in filed : Tier(f) = 2} /\ \A f \in filed : Tier(f) <= 2
    BY <1>12, <1>13, <1>16, <2>1
  <2>. QED
    BY <1>2, <1>3, <2>1, <2>2 DEF g
<1>17. CASE /\ Competing(g) = {} /\ OriginalsOf(g, HRForms) = {} /\ AppliedOf(g, NTForms) = {}
            /\ OriginalsOf(g, NTForms) # {}
  <2>1. Rule(g) = "originals" /\ P = OriginalsOf(g, NTForms)
    BY <1>8, <1>17 DEF Rule, Pool, Leading
  <2>2. P = {f \in filed : Tier(f) = 1} /\ \A f \in filed : Tier(f) <= 1
    BY <1>12, <1>13, <1>17, <2>1
  <2>. QED
    BY <1>2, <1>3, <2>1, <2>2 DEF g
<1>18. CASE /\ Competing(g) = {} /\ OriginalsOf(g, HRForms) = {} /\ AppliedOf(g, NTForms) = {}
            /\ OriginalsOf(g, NTForms) = {}
  <2>1. Rule(g) = "none"
    BY <1>8, <1>18 DEF Rule
  <2>2. \A f \in filed : Tier(f) = 0
    BY <1>12, <1>18
  <2>3. \A f \in filed : f \in Amendments \ Restatements /\ g[f].status \notin Terminal
    BY <1>1, <1>4, <1>12, <2>2 DEF Terminal
  <2>. QED
    BY <1>2, <1>3, <2>1, <2>2, <2>3 DEF g
<1>. QED
  BY <1>14, <1>15, <1>16, <1>17, <1>18

LEMMA PeaceServes ==
    ASSUME Undisputed, db \in Table, Books(db), Policy(db) = db
    PROVE  \A f \in filed : db[f].active <=> Rightful(f)
<1>. SUFFICES ASSUME NEW f \in filed PROVE db[f].active <=> Rightful(f)
  OBVIOUS
<1>1. /\ filed = Group(db)
      /\ \A e \in filed : Tier(e) \in {0, 1, 2, 3, 4} /\ db[e].acc \in Nat
      /\ \A e \in filed : \A d \in filed : e # d => db[e].acc # db[d].acc
  BY DEF Undisputed, Tier, Group, Table, Row
<1>2. CASE Rule(db) = "none"
  <2>1. ~db[f].active
    BY <1>1, <1>2, ServesAfter
  <2>2. Tier(f) = 0
    BY <1>2, Peace
  <2>. QED
    BY <2>1, <2>2 DEF Rightful
<1>3. CASE Rule(db) # "none"
  <2>1. PICK k \in {1, 2, 3, 4} : /\ Pool(db) = {e \in filed : Tier(e) = k}
                                  /\ \A e \in filed : Tier(e) <= k
    BY <1>3, Peace
  <2>2. Latest(db, Pool(db)) = {Winner(db)} /\ Winner(db) \in Pool(db)
    BY <1>3, Peace, WinnerStands
  <2>3. db[f].active <=> f = Winner(db)
    BY <1>1, <1>3, Peace, ServesAfter
  <2>4. f = Winner(db) <=> f \in Latest(db, Pool(db))
    BY <2>2
  <2>5. f \in Latest(db, Pool(db)) <=>
           Tier(f) = k /\ \A e \in filed : Tier(e) = k => db[e].acc <= db[f].acc
    BY <2>1 DEF Latest
  <2>6. ASSUME Rightful(f) PROVE f \in Latest(db, Pool(db))
    <3>1. Winner(db) \in filed /\ Tier(Winner(db)) = k
      BY <2>1, <2>2
    <3>2. Tier(f) = k
      BY <1>1, <2>1, <2>6, <3>1 DEF Rightful
    <3>3. \A e \in filed : Tier(e) = k => db[e].acc <= db[f].acc
      BY <1>1, <2>6, <3>2 DEF Rightful
    <3>. QED
      BY <2>5, <3>2, <3>3
  <2>7. ASSUME Tier(f) = k, \A e \in filed : Tier(e) = k => db[e].acc <= db[f].acc
        PROVE  Rightful(f)
    <3>1. \A e \in filed \ {f} : \/ Tier(e) < Tier(f)
                                 \/ Tier(e) = Tier(f) /\ db[e].acc < db[f].acc
      BY <1>1, <2>1, <2>7
    <3>. QED
      BY <2>7, <3>1 DEF Rightful
  <2>. QED
    BY <2>3, <2>4, <2>5, <2>6, <2>7
<1>. QED
  BY <1>2, <1>3

LEMMA PeaceForgets ==
    ASSUME Undisputed, db \in Table, Books(db), Policy(db) = db
    PROVE  \A f \in filed :
              /\ db[f].warn => Rule(db) = "amendment_owned" /\ db[f].active
              /\ f \in Restatements \cup (Filings \ Amendments)
                 => db[f].status # "amendments_pending"
<1>. SUFFICES ASSUME NEW f \in filed
              PROVE  /\ db[f].warn => Rule(db) = "amendment_owned" /\ db[f].active
                     /\ f \in Restatements \cup (Filings \ Amendments)
                        => db[f].status # "amendments_pending"
  OBVIOUS
<1>1. filed = Group(db) /\ f \in Filings /\ db[f] \in Row /\ Book(f, db[f])
  BY DEF Undisputed, Group, Table, Books
<1>2. CASE Rule(db) = "none"
  BY <1>1, <1>2, Peace DEF Book
<1>3. CASE Rule(db) # "none" /\ f # Winner(db)
  <2>. DEFINE r == db[f]
              c == Cleared(f, r)
  <2>1. r = [c EXCEPT !.active = FALSE] /\ r \in Row
    BY <1>1, <1>3, Peace, ServesAfter
  <2>2. c \in Row /\ c.warn = FALSE
    BY <2>1, ClearedRow
  <2>. HIDE DEF c, r
  <2>3. r.warn = FALSE
    BY <2>1, <2>2 DEF Row
  <2>. QED
    BY <1>1, <2>3 DEF Book, r
<1>4. CASE Rule(db) # "none" /\ f = Winner(db)
  <2>1. ~Contested(db) /\ db[f].active
    BY <1>1, <1>4, Peace, ServesAfter
  <2>2. CASE Rule(db) = "restatement"
    <3>1. db = ElectRestatement(db, f)
      BY <1>4, <2>1, <2>2, PolicyDoes DEF Contested
    <3>2. db[f] = [db[f] EXCEPT !.active = TRUE, !.status = "applied", !.warn = FALSE]
      BY <1>1, <3>1 DEF ElectRestatement, Elect
    <3>3. db[f].status = "applied" /\ db[f].warn = FALSE
      BY <1>1, <3>2, RestatementWins
    <3>. QED
      BY <3>3
  <2>3. CASE Rule(db) = "originals"
    <3>1. db = ElectOriginal(db, f)
      BY <1>4, <2>1, <2>3, PolicyDoes DEF Contested
    <3>2. db[f] = [db[f] EXCEPT !.active = TRUE, !.warn = FALSE, !.status = Unflagged(f, @)]
      BY <1>1, <3>1 DEF ElectOriginal, Elect
    <3>3. db[f].warn = FALSE
      BY <1>1, <3>2, OriginalWins
    <3>. QED
      BY <1>1, <3>3 DEF Book
  <2>4. CASE Rule(db) = "amendment_owned"
    <3>1. f \in Amendments /\ db[f].status = "applied"
      BY <1>4, <2>1, <2>4, WinnerStands, Pools
    <3>. QED
      BY <2>1, <2>4, <3>1
  <2>. QED
    BY <1>4, <2>2, <2>3, <2>4, Pools
<1>. QED
  BY <1>2, <1>3, <1>4

LEMMA SoloAlways == ASSUME Alone PROVE Spec => []Solo
<1>1. Init => Solo
  BY SoloAtFirst
<1>2. Solo /\ [Next]_vars => Solo'
  BY SoloKept
<1>. QED
  BY <1>1, <1>2, PTL DEF Spec

\* Whatever one session after another has done to a quarter, and in whatever order
\* its filings came, were parsed, gained their acceptance times and were decided
\* about: once nothing is left to dispute and apply_active_filing_policy has
\* nothing left to change, the rightful filing serves and no other does.
THEOREM TheRightfulServes ==
    ASSUME \A s, t \in Sessions : s = t
    PROVE  Spec => []SettledServes
<1>1. Solo => SettledServes
  BY PeaceServes DEF SettledServes, Settled, Solo, Shape, TypeOK
<1>2. Alone
  BY DEF Alone
<1>. QED
  BY <1>1, <1>2, SoloAlways, PTL

\* Nor is a trace left of the disputes there were: _flag_pending's warnings and
\* statuses are undone by _clear_stale_residue, but for the warning an applied
\* amendment may keep while it owns the quarter.
THEOREM TheDisputesFade ==
    ASSUME \A s, t \in Sessions : s = t
    PROVE  Spec => []DisputesFade
<1>1. Solo => DisputesFade
  BY PeaceForgets DEF DisputesFade, Settled, Solo, Shape, TypeOK
<1>2. Alone
  BY DEF Alone
<1>. QED
  BY <1>1, <1>2, SoloAlways, PTL

\* A sweep that commits leaves nothing for a second one: its decision does not run
\* into the unique index, and the policy would decide the same again.
THEOREM TheSweepSettles ==
    ASSUME \A s, t \in Sessions : s = t
    PROVE  Spec => SweepSettles
<1>. Alone
  BY DEF Alone
<1>1. Spec => []Solo
  BY SoloAlways
<1>2. ASSUME Solo, Next PROVE \A s \in Sessions :
         ses[s].op = "sweep" /\ ses[s].at = "closing" /\ ses'[s].at = "idle" => Policy(db') = db'
  <2>. SUFFICES ASSUME NEW s \in Sessions, ses[s].op = "sweep", ses[s].at = "closing"
                PROVE  Policy(db') = db'
    OBVIOUS
  <2>1. ~AbortDeadlocked(s)
    BY DEF AbortDeadlocked, Deadlocked, Alone
  <2>2. ~Ingest(s)
    BY DEF Ingest, Discover, Detail, Backfill, Bulk, StartParse, PassOver, ParseNext
  <2>3. /\ ~EndLoop(s) /\ ~LoopRollsBack(s) /\ ~ParseOk(s) /\ ~ParseFails(s) /\ ~ParseQuarantined(s) /\ ~GatePasses(s)
        /\ ~GateFails(s) /\ ~TakeLock(s)
        /\ \A f \in filed : \A d \in Orders[f] : ~Resolve(s, f, d)
        /\ \A first \in BOOLEAN : ~Sweep(s, first)
    BY DEF EndLoop, LoopRollsBack, ParseOk, ParseFails, ParseQuarantined, GatePasses, GateFails,
           TakeLock, Resolve, Sweep
  <2>4. Commit(s)
    BY <1>2, <2>1, <2>2, <2>3 DEF Next, Alone
  <2>5. Shape' /\ db \in Table /\ ~Several(Serving(db)) /\ Seen(ses[s], db) = Policy(db)
    BY <1>2, ShapeKept, SoloFacts DEF Solo, Steady
  <2>6. ~Several(Serving(Policy(db)))
    BY <2>5, ServesOne
  <2>7. db' = Policy(db)
    BY <1>2, <2>4, <2>5, <2>6, SoloEnds
  <2>. QED
    BY <2>5, <2>7, DecidesOnce
<1>3. Solo /\ [Next]_vars =>
         [\A s \in Sessions :
             ses[s].op = "sweep" /\ ses[s].at = "closing" /\ ses'[s].at = "idle"
             => Policy(db') = db']_vars
  BY <1>2
<1>. QED
  BY <1>1, <1>3, PTL DEF Spec, SweepSettles

\* "A resolved amendment is terminal": what an admin has parked stays parked, until
\* resolve_amendment decides again or a controlled reparse of it fails its gate.
THEOREM TheDecisionStands ==
    ASSUME \A s, t \in Sessions : s = t
    PROVE  Spec => DecisionStands
<1>. Alone
  BY DEF Alone
<1>1. Spec => []Solo
  BY SoloAlways
<1>2. ASSUME Solo, Next PROVE \A f \in Filings :
         db[f].status \in Parked /\ db'[f].status # db[f].status
         => \E s \in Sessions : ses[s].on = f /\ ses[s].op \in {"resolve", "gate"}
  <2>. SUFFICES ASSUME NEW f \in Filings, db[f].status \in Parked, db'[f].status # db[f].status
                PROVE  \E s \in Sessions : ses[s].on = f /\ ses[s].op \in {"resolve", "gate"}
    OBVIOUS
  <2>1. db \in Table /\ \A e \in Filings : db[e] \in Row
    BY <1>2 DEF Solo, Shape, TypeOK, Table
  <2>2. PICK s \in Sessions : Ingest(s) \/ Commit(s) \/ db' = db
    BY <1>2 DEF Next, ParseOk, ParseFails, ParseQuarantined, EndLoop, LoopRollsBack, GatePasses,
                GateFails, TakeLock, Resolve, Sweep, AbortDeadlocked
  <2>3. CASE Ingest(s)
    <3>1. \/ db' = db
          \/ \E e \in filed : db' = [db EXCEPT ![e].where = "unrouted"]
      BY <2>3 DEF Ingest, Discover, Detail, Backfill, Bulk, StartParse, PassOver, ParseNext,
                  StartPolicy
    <3>2. db'[f].status = db[f].status
      BY <2>1, <3>1 DEF Table, Row
    <3>. QED
      BY <3>2
  <2>4. CASE Commit(s)
    <3>1. Shape'
      BY <1>2, ShapeKept DEF Solo
    <3>3. db'[f].status = Seen(ses[s], db)[f].status
      BY <1>2, <2>4, <3>1, SoloEnds
    <3>. QED
      BY <1>2, <3>3, SoloFacts DEF Steady
  <2>. QED
    BY <2>2, <2>3, <2>4
<1>3. Solo /\ [Next]_vars =>
         [\A f \in Filings :
             db[f].status \in Parked /\ db'[f].status # db[f].status
             => \E s \in Sessions : ses[s].on = f /\ ses[s].op \in {"resolve", "gate"}]_vars
  BY <1>2
<1>. QED
  BY <1>1, <1>3, PTL DEF Spec, DecisionStands

\* As long as no amendment is taken off its quarter again, no decision of one
\* session after another runs into uq_active_filing_per_manager_period.
THEOREM TheIndexIsQuiet ==
    ASSUME \A s, t \in Sessions : s = t,
           \A f \in Amendments : Routes[f] \subseteq {"routed", "stale"}
    PROVE  Spec => []IndexNeverFires
<1>. Alone /\ Anchored
  BY DEF Alone, Anchored
<1>1. Solo => IndexNeverFires
  BY SoloFacts, SoloCommits DEF IndexNeverFires, IndexAllows, Steady
<1>. QED
  BY <1>1, SoloAlways, PTL
-----------------------------------------------------------------------------
(* Any number of sessions that parse, re-parse, gate and sweep a quarter    *)
(* whose documents have been read. Nothing is disputed there, so that each  *)
(* row is one of a few kinds, and the table is right at all times: whoever  *)
(* is ahead of those who compete serves.                                    *)

Plain(g, form) == {f \in Group(g) : Form[f] = form}

Best(g) ==
    IF Competing(g) # {} THEN Competing(g)
    ELSE IF Plain(g, "13F-HR") # {} THEN Plain(g, "13F-HR")
    ELSE IF Plain(g, "13F-NT/A") # {} THEN Plain(g, "13F-NT/A")
    ELSE Plain(g, "13F-NT")

EvenRow(f, r) ==
    /\ r.warn = FALSE
    /\ r.run => r.parse = "succeeded"
    /\ f \in Restatements /\ Form[f] \in HRForms /\ r.parse = "succeeded" /\ ~r.run
          => r.status \in Parked
    /\ Form[f] = "13F-HR/A" /\ r.status = "applied" => f \in Restatements /\ r.parse = "succeeded"
    /\ Form[f] = "13F-NT/A" => r.status = "applied"
    /\ f \notin Amendments => r.status # "amendments_pending"

Even(g) ==
    /\ \A f \in Filings \ Group(g) : g[f] = NoRow
    /\ \A f \in Group(g) : g[f].acc # 0 /\ EvenRow(f, g[f])
    /\ \A e, f \in Group(g) : e # f => g[e].acc # g[f].acc

Right(g) ==
    /\ Even(g)
    /\ \A f \in Group(g) :
          /\ g[f].active <=> f \in Latest(g, Best(g))
          /\ g[f].active /\ f \in Restatements /\ Form[f] \in HRForms => g[f].status = "applied"

(* What a session remembers of its filing, o, is still so, b, but for who   *)
(* serves and what follows from that; and what it makes of it without the   *)
(* policy, v, is about the parse and takes nobody out of the competition.   *)
Follows(o, b) ==
    /\ o.status \in Terminal => b.status = o.status
    /\ b.status \in Parked => o.status \in Parked

Link(f, o, b) ==
    /\ EvenRow(f, o) /\ SameFiling(o, b) /\ Follows(o, b)
    /\ f \in Restatements /\ o.active => o.parse = "succeeded" /\ o.status \notin Parked

Slight(f, v, o) ==
    /\ v.where = o.where /\ v.active = o.active /\ v.status = o.status /\ v.warn = o.warn
    /\ v.acc = o.acc
    /\ v.run => v.parse = "succeeded"
    /\ f \in Restatements => /\ v.run = o.run
                             /\ v.parse = o.parse \/ (v.run = FALSE /\ v.parse = "failed")

(* A filing f that a session may decide about: it has a parse, and is to be *)
(* judged by what was read of it, or it has been rejected by a gate, which  *)
(* either locked its row as it is or found it rejected.                     *)
Claims(f, o, v, b, gated, locked) ==
    /\ f \in Restatements
    /\ Link(f, o, b) /\ EvenRow(f, v)
    /\ v.where = o.where /\ v.acc = o.acc /\ v.parse = "succeeded"
    /\ \/ ~gated /\ v.status = o.status
       \/ gated /\ v.status \in Parked /\ ((o = b /\ locked) \/ o.status \in Parked)

(* Of the other filings a decision has changed who serves.                  *)
Chosen(o, v, b) ==
    /\ SameFiling(o, v) /\ v.warn = o.warn
    /\ o.active = b.active /\ o.status = b.status /\ Follows(b, v)

(* What a session would leave of the table g.                               *)
After(x, g) ==
    [f \in Filings |-> IF f \in x.read /\ x.view[f] # x.orig[f]
                       THEN Columns(x.view[f], x.orig[f], g[f]) ELSE g[f]]

Own == {"parse", "controlled", "gate"}
Mine(x, g) == x.op \in Own /\ x.on \in Group(g) /\ Form[x.on] \in HRForms

Parsing(x, g) ==
    /\ x.at = "parsing" /\ x.op # "gate" /\ Mine(x, g) /\ x.read = {x.on}
    /\ x.view[x.on] = x.orig[x.on] /\ Link(x.on, x.orig[x.on], g[x.on])

Gated(x, g) ==
    /\ x.at = "gate" /\ x.op = "controlled" /\ Mine(x, g) /\ x.read = {}
    /\ g[x.on].parse = "succeeded"

Light(x, g) ==
    /\ x.at = "closing" /\ Mine(x, g) /\ x.read = {x.on}
    /\ Link(x.on, x.orig[x.on], g[x.on]) /\ Slight(x.on, x.view[x.on], x.orig[x.on])
    /\ x.op = "controlled" => x.view[x.on].parse = "succeeded"

Asking(x, g) ==
    /\ x.at = "ready" /\ Mine(x, g) /\ x.read = {x.on}
    /\ Claims(x.on, x.orig[x.on], x.view[x.on], g[x.on], x.op = "gate", x.on \in x.rows)

Heavy(x, g) ==
    /\ x.at = "closing" /\ Mine(x, g) /\ x.read = Filings
    /\ Right(After(x, g)) /\ Group(After(x, g)) = Group(g)
    /\ \A e \in Filings \ {x.on} : Chosen(x.orig[e], x.view[e], g[e])
    /\ x.op = "controlled" => After(x, g)[x.on].parse = "succeeded"

Sweeping(x, g) ==
    /\ x.op = "sweep" /\ x.view = x.orig
    /\ \/ x.at = "ready" /\ x.read = {}
       \/ x.at = "ready" /\ Right(x.orig) /\ x.read = Group(g) /\ Group(x.orig) = Group(g)
       \/ x.at = "closing"

Course(x, g, held) ==
    \/ x = Idle
    \/ Parsing(x, g) \/ Gated(x, g) \/ Light(x, g) \/ Asking(x, g)
    \/ Heavy(x, g) /\ held
    \/ Sweeping(x, g)

OnePerFiling ==
    \A s, t \in Sessions : s # t /\ ses[s].op \in Own /\ ses[t].op \in Own => ses[s].on # ses[t].on

Orderly ==
    /\ Shape
    /\ Right(db)
    /\ \A s \in Sessions : Course(ses[s], db, holder = s)
    /\ OnePerFiling

LEMMA TableRows ==
    ASSUME NEW g \in Table
    PROVE  /\ \A f \in Filings : g[f] \in Row /\ g[f].acc \in Nat
           /\ Group(g) \subseteq Filings
           /\ \A f \in Filings : f \in Group(g) <=> g[f].where = "group"
BY DEF Table, Row, Group

LEMMA Kinds ==
    /\ \A f \in Filings : /\ Form[f] \in {"13F-HR", "13F-NT", "13F-NT/A", "13F-HR/A"}
                          /\ f \in Amendments <=> Form[f] \in {"13F-HR/A", "13F-NT/A"}
    /\ \A f \in Restatements : /\ f \in Filings /\ f \in Amendments
                               /\ Form[f] \in HRForms => Form[f] = "13F-HR/A"
BY FilingAssumption DEF Amendments, Forms, HRForms

LEMMA BestGrouped ==
    ASSUME NEW g
    PROVE  /\ Competing(g) \subseteq Group(g) /\ Best(g) \subseteq Group(g)
           /\ Group(g) \subseteq Filings
BY DEF Best, Plain, Competing, Group

\* Who competes, in a table where nothing is disputed.
LEMMA EvenPool ==
    ASSUME NEW g \in Table, Even(g)
    PROVE  /\ Pool(g) = Best(g) /\ ~Contested(g)
           /\ Rule(g) = "none" <=> Best(g) = {}
<1>1. /\ \A f \in Group(g) : f \in Filings /\ g[f].acc # 0 /\ EvenRow(f, g[f])
      /\ \A e, f \in Group(g) : e # f => g[e].acc # g[f].acc
  BY BestGrouped DEF Even
<1>2. OriginalsOf(g, HRForms) = Plain(g, "13F-HR") /\ OriginalsOf(g, NTForms) = Plain(g, "13F-NT")
  BY <1>1, Kinds DEF OriginalsOf, HRForms, NTForms, Plain
<1>3. AppliedOf(g, NTForms) = Plain(g, "13F-NT/A")
  BY <1>1, Kinds DEF AppliedOf, NTForms, Plain, EvenRow
<1>4. Competing(g) = {} => AppliedOf(g, HRForms) = {}
  BY <1>1, Kinds DEF AppliedOf, HRForms, EvenRow, Competing, Parked
<1>5. /\ Pool(g) = Best(g)
      /\ Rule(g) = "none" <=> Best(g) = {}
  BY <1>2, <1>3, <1>4 DEF Rule, Pool, Leading, Best
<1>6. Pool(g) \subseteq Group(g)
  BY Pools
<1>7. ~Missing(g, Pool(g))
  BY <1>1, <1>6 DEF Missing
<1>8. \A f \in Group(g) : g[f].acc \in Nat
  BY TableRows
<1>9. ~Tied(g, Pool(g))
  BY <1>1, <1>6, <1>8 DEF Tied, Several, Latest
<1>. QED
  BY <1>5, <1>7, <1>9 DEF Contested

\* What a decision makes of an undisputed table.
LEMMA EvenOutcome ==
    ASSUME NEW g \in Table, Even(g), NEW f \in Group(g)
    PROVE  LET q == Policy(g)[f]
               ahead == f \in Latest(g, Best(g))
           IN /\ q \in Row /\ SameFiling(g[f], q) /\ q.warn = g[f].warn
              /\ q.active <=> ahead
              /\ q.status = IF ahead /\ Competing(g) # {} THEN "applied" ELSE g[f].status
<1>. DEFINE q == Policy(g)[f]
            w == Winner(g)
            B == Best(g)
            r == g[f]
<1>1. /\ Pool(g) = B /\ ~Contested(g) /\ (Rule(g) = "none" <=> B = {})
      /\ EvenRow(f, r) /\ f \in Filings
  BY EvenPool, BestGrouped DEF Even
<1>2. q \in Row /\ SameFiling(r, q) /\ r \in Row /\ r.warn = FALSE
  BY <1>1, PolicyTypes DEF Table, EvenRow
<1>3. Rule(g) # "none" => Latest(g, B) = {w}
  BY <1>1, WinnerStands
<1>4. Rule(g) = "none" => Latest(g, B) = {}
  BY <1>1 DEF Latest
<1>5. Rule(g) = "none" \/ f # w => q = [r EXCEPT !.active = FALSE]
  <2>1. CASE Rule(g) = "none"
    BY <1>1, <1>2, <2>1, PolicyDoes DEF NobodyServes
  <2>2. CASE Rule(g) # "none" /\ f # w
    <3>1. q = [Cleared(f, r) EXCEPT !.active = FALSE]
      BY <1>1, <2>2, ServesAfter
    <3>. QED
      BY <1>2, <3>1 DEF Cleared
  <2>. QED
    BY <2>1, <2>2
<1>6. Rule(g) = "restatement" /\ f = w
      => q = [r EXCEPT !.active = TRUE, !.status = "applied", !.warn = FALSE]
  <2>1. Rule(g) = "restatement" => Policy(g) = ElectRestatement(g, w)
    BY <1>1, PolicyDoes DEF Contested
  <2>. QED
    BY <1>1, <2>1 DEF ElectRestatement, Elect
<1>7. Rule(g) = "amendment_owned" /\ f = w => q = [r EXCEPT !.active = TRUE]
  <2>1. Rule(g) = "amendment_owned" => Policy(g) = ElectOwner(g, w)
    BY <1>1, PolicyDoes
  <2>. QED
    BY <1>1, <2>1 DEF ElectOwner, Elect
<1>8. Rule(g) = "originals" /\ f = w
      => q = [r EXCEPT !.active = TRUE, !.warn = FALSE, !.status = Unflagged(f, @)]
  <2>1. Rule(g) = "originals" => Policy(g) = ElectOriginal(g, w)
    BY <1>1, PolicyDoes DEF Contested
  <2>. QED
    BY <1>1, <2>1 DEF ElectOriginal, Elect
<1>9. Rule(g) = "originals" /\ f = w => Unflagged(f, r.status) = r.status
  <2>1. Rule(g) = "originals" /\ f = w => f \notin Amendments
    BY <1>1, WinnerStands, Pools
  <2>. QED
    BY <1>1, <2>1 DEF Unflagged, EvenRow
<1>10. Rule(g) = "restatement" <=> Competing(g) # {}
  BY Pools
<1>11. r \in Row /\ r.warn = FALSE
  BY <1>2
<1>. SUFFICES /\ q.warn = FALSE
              /\ q.active <=> f \in Latest(g, B)
              /\ q.status = IF f \in Latest(g, B) /\ Competing(g) # {} THEN "applied" ELSE r.status
  BY <1>2
<1>12. CASE Rule(g) = "none" \/ f # w
  <2>1. q = [r EXCEPT !.active = FALSE] /\ f \notin Latest(g, B)
    BY <1>3, <1>4, <1>5, <1>12
  <2>. HIDE DEF r, q, B
  <2>. QED
    BY <1>11, <2>1 DEF Row
<1>13. CASE Rule(g) # "none" /\ f = w
  <2>1. f \in Latest(g, B)
    BY <1>3, <1>13
  <2>2. \/ Competing(g) # {} /\ q = [r EXCEPT !.active = TRUE, !.status = "applied", !.warn = FALSE]
        \/ Competing(g) = {} /\ q = [r EXCEPT !.active = TRUE]
        \/ Competing(g) = {} /\ q = [r EXCEPT !.active = TRUE, !.warn = FALSE, !.status = r.status]
    BY <1>6, <1>7, <1>8, <1>9, <1>10, <1>13, Pools
  <2>. HIDE DEF r, q, B
  <2>. QED
    BY <1>11, <2>1, <2>2 DEF Row
<1>. QED
  BY <1>12, <1>13

\* A table that differs from a right one only where it does not matter is right.
LEMMA RightAs ==
    ASSUME NEW g, Right(g), NEW h, Group(h) = Group(g), Competing(h) = Competing(g),
           \A f \in Filings \ Group(g) : h[f] = g[f],
           \A f \in Group(g) : /\ EvenRow(f, h[f])
                               /\ h[f].acc = g[f].acc /\ h[f].active = g[f].active
                               /\ h[f].active /\ f \in Restatements /\ Form[f] \in HRForms
                                  => h[f].status = "applied"
    PROVE  Right(h)
<1>1. Best(h) = Best(g)
  BY DEF Best, Plain
<1>2. Latest(h, Best(g)) = Latest(g, Best(g))
  BY BestGrouped DEF Latest
<1>. QED
  BY <1>1, <1>2 DEF Right, Even

\* A decision on an undisputed table makes it right.
LEMMA EvenDecides ==
    ASSUME NEW g \in Table, Even(g)
    PROVE  Right(Policy(g))
<1>. DEFINE h == Policy(g)
            A == Latest(g, Best(g))
<1>1. /\ \A f \in Group(g) : g[f].acc # 0 /\ EvenRow(f, g[f]) /\ g[f] \in Row
      /\ \A e, f \in Group(g) : e # f => g[e].acc # g[f].acc
  BY TableRows DEF Even
<1>2. /\ Group(h) = Group(g) /\ Competing(h) = Competing(g)
      /\ \A P \in SUBSET Filings : Latest(h, P) = Latest(g, P)
  BY SamePool
<1>3. Best(h) = Best(g)
  <2>. HIDE DEF h
  <2>. QED
    BY <1>2 DEF Best, Plain
<1>4. Latest(h, Best(h)) = A
  <2>1. Best(g) \in SUBSET Filings
    BY BestGrouped
  <2>. QED
    BY <1>2, <1>3, <2>1
<1>5. \A f \in Group(g) : /\ h[f] \in Row /\ SameFiling(g[f], h[f]) /\ h[f].warn = g[f].warn
                          /\ h[f].active <=> f \in A
                          /\ h[f].status = IF f \in A /\ Competing(g) # {} THEN "applied"
                                           ELSE g[f].status
  BY EvenOutcome
<1>6. \A f \in Filings \ Group(g) : h[f] = NoRow
  BY ServesAfter DEF Even
<1>7. \A f \in A : Competing(g) # {} => f \in Competing(g)
  BY DEF Latest, Best
<1>8. \A f \in A : f \in Restatements /\ Form[f] \in HRForms => Competing(g) # {}
  <2>. SUFFICES ASSUME NEW f \in A, f \in Restatements, Form[f] \in HRForms, Competing(g) = {}
                PROVE  FALSE
    OBVIOUS
  <2>1. f \in Best(g) /\ Form[f] = "13F-HR/A"
    BY Kinds DEF Latest
  <2>. QED
    BY <2>1 DEF Best, Plain
<1>. SUFFICES Right(h)
  OBVIOUS
<1>. HIDE DEF h, A
<1>9. ASSUME NEW f \in Group(g) PROVE EvenRow(f, h[f])
  <2>1. f \in A /\ Competing(g) # {} => /\ f \in Restatements /\ Form[f] \in HRForms
                                        /\ g[f].parse = "succeeded" /\ g[f].status \notin Parked
    BY <1>7 DEF Competing
  <2>2. f \in A /\ Competing(g) # {} => Form[f] = "13F-HR/A" /\ f \in Amendments
    BY <2>1, Kinds
  <2>3. CASE f \in A /\ Competing(g) # {}
    <3>1. /\ h[f].status = "applied" /\ h[f].warn = FALSE /\ h[f].parse = "succeeded"
          /\ h[f].run = g[f].run /\ g[f].run = TRUE
      BY <1>1, <1>5, <2>1, <2>3 DEF SameFiling, EvenRow, Row
    <3>. QED
      BY <2>1, <2>2, <2>3, <3>1 DEF EvenRow
  <2>4. CASE ~(f \in A /\ Competing(g) # {})
    BY <1>1, <1>5, <2>4 DEF SameFiling, EvenRow
  <2>. QED
    BY <2>3, <2>4
<1>10. Even(h)
  BY <1>1, <1>2, <1>5, <1>6, <1>9 DEF Even, SameFiling
<1>. QED
  BY <1>2, <1>4, <1>5, <1>8, <1>10 DEF Right

\* A right table is what the policy would make of it.
LEMMA RightStays ==
    ASSUME NEW g \in Table, Right(g)
    PROVE  Policy(g) = g
<1>. DEFINE h == Policy(g)
            A == Latest(g, Best(g))
<1>1. Even(g)
  BY DEF Right
<1>2. ASSUME NEW f \in Group(g) PROVE h[f] = g[f]
  <2>1. /\ h[f] \in Row /\ g[f] \in Row
        /\ SameFiling(g[f], h[f]) /\ h[f].warn = g[f].warn
        /\ h[f].active <=> f \in A
        /\ h[f].status = IF f \in A /\ Competing(g) # {} THEN "applied" ELSE g[f].status
    BY <1>1, EvenOutcome, TableRows
  <2>2. g[f].active <=> f \in A
    BY DEF Right
  <2>3. h[f].active = g[f].active
    <3>1. h[f].active \in BOOLEAN /\ g[f].active \in BOOLEAN
      BY <2>1 DEF Row
    <3>. HIDE DEF h, A
    <3>. QED
      BY <2>1, <2>2, <3>1
  <2>4. f \in A /\ Competing(g) # {} => g[f].status = "applied"
    <3>1. f \in A /\ Competing(g) # {} => f \in Restatements /\ Form[f] \in HRForms
      BY DEF Latest, Best, Competing
    <3>. QED
      BY <2>2, <3>1 DEF Right
  <2>5. h[f].status = g[f].status
    BY <2>1, <2>4
  <2>. HIDE DEF h
  <2>. QED
    BY <2>1, <2>3, <2>5, SameRow DEF SameFiling
<1>3. \A f \in Filings \ Group(g) : h[f] = g[f]
  BY ServesAfter
<1>4. h = [f \in Filings |-> h[f]] /\ g = [f \in Filings |-> g[f]]
  BY PolicyKeeps DEF Table
<1>. QED
  BY <1>2, <1>3, <1>4

LEMMA RightServesOne ==
    ASSUME NEW g \in Table, Right(g)
    PROVE  ~Several(Serving(g))
<1>1. \A f \in Group(g) : g[f].acc \in Nat
  BY TableRows
<1>2. \A e, f \in Latest(g, Best(g)) : e = f
  BY <1>1, BestGrouped DEF Latest, Right, Even
<1>. QED
  BY <1>2 DEF Several, Serving, Right

\* A restatement that serves competes.
LEMMA ServesCompeting ==
    ASSUME NEW g, Right(g), NEW f \in Group(g), f \in Restatements, Form[f] \in HRForms,
           g[f].active
    PROVE  f \in Competing(g)
<1>1. f \in Best(g) /\ Form[f] = "13F-HR/A"
  BY Kinds DEF Right, Latest
<1>. QED
  BY <1>1 DEF Best, Plain

\* What a parse without the policy may write keeps a table right.
LEMMA Harmless ==
    ASSUME NEW g \in Table, Right(g), NEW h \in Table, Group(h) = Group(g),
           \A f \in Filings \ Group(g) : h[f] = g[f],
           \A f \in Group(g) : Slight(f, h[f], g[f])
    PROVE  Right(h)
<1>1. Even(g) /\ \A f \in Group(g) : EvenRow(f, g[f]) /\ f \in Filings
  BY BestGrouped DEF Right, Even
<1>2. \A f \in Group(g) : g[f] \in Row /\ h[f] \in Row
  BY <1>1, TableRows
<1>3. \A f \in Group(g) : /\ h[f].active = g[f].active /\ h[f].status = g[f].status
                          /\ h[f].acc = g[f].acc /\ h[f].where = g[f].where
  BY DEF Slight
<1>7. ASSUME NEW f \in Group(g), f \in Restatements, Form[f] \in HRForms, g[f].status \notin Parked
      PROVE  h[f].parse = "succeeded" <=> g[f].parse = "succeeded"
  <2>1. /\ g[f].parse = "succeeded" => g[f].run
        /\ h[f].run = g[f].run
        /\ h[f].parse = g[f].parse \/ (h[f].run = FALSE /\ h[f].parse = "failed")
    BY <1>1, <1>7 DEF EvenRow, Slight
  <2>2. g[f].run \in BOOLEAN
    BY <1>2 DEF Row
  <2>. QED
    BY <2>1, <2>2
<1>4. Competing(h) = Competing(g)
  <2>1. \A f \in Group(g) \cap Restatements :
           Form[f] \in HRForms /\ h[f].parse = "succeeded" /\ h[f].status \notin Parked
           <=> Form[f] \in HRForms /\ g[f].parse = "succeeded" /\ g[f].status \notin Parked
    BY <1>3, <1>7
  <2>. QED
    BY <2>1 DEF Competing
<1>5. ASSUME NEW f \in Group(g) PROVE EvenRow(f, h[f])
  <2>1. Form[f] = "13F-HR/A" /\ h[f].status = "applied" => f \in Restatements /\ h[f].parse = "succeeded"
    <3>. SUFFICES ASSUME Form[f] = "13F-HR/A", h[f].status = "applied"
                  PROVE  f \in Restatements /\ h[f].parse = "succeeded"
      OBVIOUS
    <3>1. f \in Restatements /\ g[f].parse = "succeeded" /\ g[f].status \notin Parked
      BY <1>1, <1>3 DEF EvenRow, Parked
    <3>. QED
      BY <1>7, <3>1 DEF HRForms
  <2>2. f \in Restatements /\ Form[f] \in HRForms /\ h[f].parse = "succeeded" /\ ~h[f].run
        => h[f].status \in Parked
    BY <1>1, <1>2 DEF Slight, EvenRow, Row
  <2>. QED
    BY <1>1, <2>1, <2>2 DEF Slight, EvenRow
<1>6. \A f \in Group(g) : h[f].active /\ f \in Restatements /\ Form[f] \in HRForms
                       => h[f].status = "applied"
  BY <1>3 DEF Right
<1>. QED
  BY <1>3, <1>4, <1>5, <1>6, RightAs

\* What a session leaves of a row it has read, column by column.
LEMMA AfterRows ==
    ASSUME NEW x \in SessionState, NEW g \in Table
    PROVE  /\ After(x, g) \in Table
           /\ \A f \in Filings : f \notin x.read => After(x, g)[f] = g[f]
           /\ \A f \in Filings : x.view[f] = x.orig[f] => After(x, g)[f] = g[f]
           /\ \A f \in Filings : x.view[f] # x.orig[f] /\ f \in x.read /\ x.orig[f] = g[f]
                                 => After(x, g)[f] = x.view[f]
<1>1. \A f \in Filings : x.view[f] \in Row /\ x.orig[f] \in Row /\ g[f] \in Row
  BY DEF SessionState, Table
<1>2. \A f \in Filings : Columns(x.view[f], x.orig[f], g[f]) \in Row
  BY <1>1, Written
<1>3. \A f \in Filings : x.orig[f] = g[f] => Columns(x.view[f], x.orig[f], g[f]) = x.view[f]
  BY <1>1, WrittenAlone
<1>. QED
  BY <1>1, <1>2, <1>3 DEF After, Table

LEMMA AfterColumns ==
    ASSUME NEW x \in SessionState, NEW g \in Table, NEW f \in Filings, f \in x.read
    PROVE  LET q == After(x, g)[f]
               o == x.orig[f]
               v == x.view[f]
           IN /\ q \in Row /\ o \in Row /\ v \in Row /\ g[f] \in Row
              /\ q.where = IF v.where # o.where THEN v.where ELSE g[f].where
              /\ q.active = IF v.active # o.active THEN v.active ELSE g[f].active
              /\ q.status = IF v.status # o.status THEN v.status ELSE g[f].status
              /\ q.warn = IF v.warn # o.warn THEN v.warn ELSE g[f].warn
              /\ q.parse = IF v.parse # o.parse THEN v.parse ELSE g[f].parse
              /\ q.acc = IF v.acc # o.acc THEN v.acc ELSE g[f].acc
              /\ q.run = IF v.run # o.run THEN v.run ELSE g[f].run
<1>1. x.view[f] \in Row /\ x.orig[f] \in Row /\ g[f] \in Row
  BY DEF SessionState, Table
<1>2. After(x, g)[f] = IF x.view[f] # x.orig[f] THEN Columns(x.view[f], x.orig[f], g[f]) ELSE g[f]
  BY DEF After
<1>3. CASE x.view[f] # x.orig[f]
  BY <1>1, <1>2, <1>3, Written
<1>4. CASE x.view[f] = x.orig[f]
  BY <1>1, <1>2, <1>4
<1>. QED
  BY <1>3, <1>4

LEMMA CommitsAfter == ASSUME NEW s PROVE Committed(s) = After(ses[s], db)
BY DEF Committed, After, Changed

\* A session that has not asked the policy commits harmlessly.
LEMMA LightCommits ==
    ASSUME NEW x \in SessionState, NEW g \in Table, Right(g), Light(x, g)
    PROVE  LET h == After(x, g) IN
           /\ Right(h) /\ Group(h) = Group(g)
           /\ \A e \in Filings : e # x.on => h[e] = g[e]
           /\ \A e \in Group(g) : Slight(e, h[e], g[e])
           /\ h[x.on].parse = x.view[x.on].parse
<1>. DEFINE h == After(x, g)
            f == x.on
            o == x.orig[f]
            v == x.view[f]
<1>1. f \in Group(g) /\ f \in Filings /\ f \in x.read /\ x.read = {f}
  BY BestGrouped DEF Light, Mine
<1>2. SameFiling(o, g[f]) /\ Slight(f, v, o)
  BY DEF Light, Link
<1>3. /\ h[f] \in Row /\ o \in Row /\ v \in Row /\ g[f] \in Row
      /\ h[f].where = g[f].where /\ h[f].active = g[f].active /\ h[f].status = g[f].status
      /\ h[f].warn = g[f].warn /\ h[f].acc = g[f].acc
      /\ h[f].parse = v.parse /\ h[f].run = v.run
  BY <1>1, <1>2, AfterColumns DEF SameFiling, Slight
<1>4. Slight(f, h[f], g[f])
  BY <1>2, <1>3 DEF SameFiling, Slight
<1>5. h \in Table /\ \A e \in Filings : e # f => h[e] = g[e]
  BY <1>1, AfterRows
<1>6. \A e \in Group(g) : e \in Filings /\ EvenRow(e, g[e])
  BY BestGrouped DEF Right, Even
<1>. SUFFICES /\ Right(h) /\ Group(h) = Group(g)
              /\ \A e \in Group(g) : Slight(e, h[e], g[e])
  BY <1>3, <1>5
<1>. HIDE DEF h, f
<1>7. \A e \in Group(g) : Slight(e, h[e], g[e])
  <2>. TAKE e \in Group(g)
  <2>1. CASE e = f
    BY <1>4, <2>1
  <2>2. CASE e # f
    BY <1>5, <1>6, <2>2 DEF Slight, EvenRow
  <2>. QED
    BY <2>1, <2>2
<1>8. Group(h) = Group(g)
  BY <1>1, <1>3, <1>5 DEF Group
<1>9. \A e \in Filings \ Group(g) : h[e] = g[e]
  BY <1>1, <1>5
<1>. QED
  BY <1>5, <1>7, <1>8, <1>9, Harmless

LEMMA FollowsOn ==
    ASSUME NEW f, NEW o, NEW b, NEW c, SameFiling(b, c), Follows(b, c)
    PROVE  /\ Link(f, o, b) => Link(f, o, c)
           /\ \A v, gated, locked :
                 Claims(f, o, v, b, gated, locked) /\ (locked => c = b)
                 => Claims(f, o, v, c, gated, locked)
<1>1. Link(f, o, b) => Link(f, o, c)
  BY DEF Link, SameFiling, Follows
<1>. QED
  BY <1>1 DEF Claims

\* What others commit does not disturb a session that has not decided yet.
LEMMA QuietStays ==
    ASSUME NEW x \in SessionState, NEW g \in Table, NEW h \in Table, Group(h) = Group(g),
           NEW held, NEW holds, Course(x, g, held), ~Heavy(x, g) \/ ~held,
           x.op \in Own => /\ SameFiling(g[x.on], h[x.on]) /\ Follows(g[x.on], h[x.on])
                           /\ x.on \in x.rows => h[x.on] = g[x.on]
    PROVE  Course(x, h, holds)
<1>1. CASE x = Idle
  BY <1>1 DEF Course
<1>2. Parsing(x, g) => Parsing(x, h)
  BY FollowsOn DEF Parsing, Mine
<1>3. Gated(x, g) => Gated(x, h)
  BY DEF Gated, Mine, SameFiling
<1>4. Light(x, g) => Light(x, h)
  BY FollowsOn DEF Light, Mine
<1>5. Asking(x, g) => Asking(x, h)
  BY FollowsOn DEF Asking, Mine
<1>6. Sweeping(x, g) => Sweeping(x, h)
  BY DEF Sweeping
<1>. QED
  BY <1>1, <1>2, <1>3, <1>4, <1>5, <1>6 DEF Course

\* Nor does a harmless commit disturb the one who has decided.
LEMMA DecidedStays ==
    ASSUME NEW x \in SessionState, NEW g \in Table, NEW h \in Table, Right(g), Heavy(x, g),
           Group(h) = Group(g), h[x.on] = g[x.on],
           \A e \in Filings \ Group(g) : h[e] = g[e],
           \A e \in Group(g) : Slight(e, h[e], g[e])
    PROVE  Heavy(x, h)
<1>. DEFINE a == After(x, g)
            b == After(x, h)
<1>1. /\ a \in Table /\ b \in Table /\ Right(a) /\ Group(a) = Group(g) /\ x.read = Filings
      /\ x.on \in Group(g) /\ Group(g) \subseteq Filings
      /\ \A e \in Filings \ {x.on} : Chosen(x.orig[e], x.view[e], g[e])
  BY AfterRows, BestGrouped DEF Heavy, Mine
<1>2. \A e \in Filings : h[e] = g[e] => b[e] = a[e]
  BY DEF After
<1>3. \A e \in Group(g) : EvenRow(e, a[e]) /\ g[e].active = h[e].active /\ g[e].status = h[e].status
  BY <1>1 DEF Right, Even, Slight
<1>4. ASSUME NEW e \in Group(g) PROVE Slight(e, b[e], a[e]) /\ b[e].where = a[e].where
  <2>1. CASE e = x.on
    <3>1. b[e] = a[e]
      BY <1>1, <1>2, <2>1
    <3>. QED
      BY <1>3, <3>1 DEF Slight, EvenRow
  <2>2. CASE e # x.on
    <3>1. e \in Filings /\ e \in x.read /\ SameFiling(x.orig[e], x.view[e])
          /\ x.view[e].warn = x.orig[e].warn /\ Slight(e, h[e], g[e])
      BY <1>1, <2>2 DEF Chosen
    <3>2. /\ a[e].where = g[e].where /\ a[e].parse = g[e].parse /\ a[e].acc = g[e].acc
          /\ a[e].run = g[e].run /\ a[e].warn = g[e].warn
          /\ a[e].active = IF x.view[e].active # x.orig[e].active THEN x.view[e].active ELSE g[e].active
          /\ a[e].status = IF x.view[e].status # x.orig[e].status THEN x.view[e].status ELSE g[e].status
      BY <3>1, AfterColumns DEF SameFiling
    <3>3. /\ b[e].where = h[e].where /\ b[e].parse = h[e].parse /\ b[e].acc = h[e].acc
          /\ b[e].run = h[e].run /\ b[e].warn = h[e].warn
          /\ b[e].active = IF x.view[e].active # x.orig[e].active THEN x.view[e].active ELSE h[e].active
          /\ b[e].status = IF x.view[e].status # x.orig[e].status THEN x.view[e].status ELSE h[e].status
      BY <3>1, AfterColumns DEF SameFiling
    <3>. HIDE DEF a, b
    <3>. QED
      BY <3>1, <3>2, <3>3 DEF Slight
  <2>. QED
    BY <2>1, <2>2
<1>5. \A e \in Filings \ Group(g) : b[e] = a[e]
  BY <1>2
<1>6. Group(b) = Group(g)
  <2>. HIDE DEF a, b
  <2>1. \A e \in Filings : b[e].where = "group" <=> a[e].where = "group"
    BY <1>4, <1>5
  <2>. QED
    BY <1>1, <2>1 DEF Group
<1>7. Right(b)
  <2>. HIDE DEF a, b
  <2>. QED
    BY <1>1, <1>4, <1>5, <1>6, Harmless
<1>8. \A e \in Filings \ {x.on} : Chosen(x.orig[e], x.view[e], h[e])
  <2>1. \A e \in Filings : h[e].active = g[e].active /\ h[e].status = g[e].status
    BY <1>3
  <2>. QED
    BY <1>1, <2>1 DEF Chosen, Follows
<1>9. b[x.on] = a[x.on]
  BY <1>1, <1>2
<1>. QED
  BY <1>1, <1>6, <1>7, <1>8, <1>9 DEF Heavy, Mine

\* What a decision commits of the rows of others.
LEMMA HeavyCommits ==
    ASSUME NEW x \in SessionState, NEW g \in Table, Heavy(x, g)
    PROVE  LET h == After(x, g) IN
           /\ Right(h) /\ Group(h) = Group(g)
           /\ \A e \in Filings : e # x.on => /\ SameFiling(g[e], h[e]) /\ Follows(g[e], h[e])
                                             /\ x.view[e] = x.orig[e] => h[e] = g[e]
<1>. DEFINE h == After(x, g)
<1>1. Right(h) /\ Group(h) = Group(g) /\ x.read = Filings
  BY DEF Heavy
<1>2. ASSUME NEW e \in Filings, e # x.on
      PROVE  /\ SameFiling(g[e], h[e]) /\ Follows(g[e], h[e])
             /\ x.view[e] = x.orig[e] => h[e] = g[e]
  <2>1. Chosen(x.orig[e], x.view[e], g[e]) /\ e \in x.read
    BY <1>1, <1>2 DEF Heavy
  <2>2. SameFiling(g[e], h[e]) /\ h[e].status = x.view[e].status
    BY <2>1, AfterColumns DEF SameFiling, Chosen
  <2>. QED
    BY <2>1, <2>2, AfterRows DEF Chosen, Follows
<1>. QED
  BY <1>1, <1>2

\* Who is ahead does not hang on what a session remembers of a row, as long as it
\* competes in the one table and in the other.
LEMMA StillAhead ==
    ASSUME NEW g \in Table, NEW t \in Table, NEW f \in Filings,
           Group(t) = Group(g), t[f].acc = g[f].acc, \A e \in Filings : e # f => t[e] = g[e],
           f \in Competing(g), f \in Competing(t)
    PROVE  Latest(t, Best(t)) = Latest(g, Best(g))
<1>1. Competing(t) = Competing(g)
  <2>1. ASSUME NEW e \in Filings, e # f PROVE e \in Competing(t) <=> e \in Competing(g)
    BY <2>1 DEF Competing
  <2>2. \A e \in Filings : e \in Competing(t) <=> e \in Competing(g)
    BY <2>1
  <2>. QED
    BY <2>2, BestGrouped
<1>2. Best(g) = Competing(g) /\ Best(t) = Competing(g)
  BY <1>1 DEF Best
<1>3. \A e \in Filings : t[e].acc = g[e].acc
  OBVIOUS
<1>. QED
  BY <1>2, <1>3, BestGrouped DEF Latest

\* The decision of a session about a filing it has a claim on: what it read of it
\* may be out of date, and yet what it leaves of the quarter is right.
LEMMA ClaimsDecide ==
    ASSUME NEW g \in Table, Right(g), NEW f \in Group(g), Form[f] \in HRForms,
           NEW o \in Row, NEW v \in Row, NEW gated \in BOOLEAN, NEW locked \in BOOLEAN,
           Claims(f, o, v, g[f], gated, locked),
           NEW t \in Table, t[f] = v, \A e \in Filings : e # f => t[e] = g[e],
           NEW c \in Table, \A e \in Filings : e # f => c[e] = Policy(t)[e],
           c[f] = Columns(Policy(t)[f], o, g[f])
    PROVE  /\ Right(c) /\ Group(c) = Group(g) /\ c[f].parse = "succeeded"
           /\ \A e \in Filings : e # f => Chosen(g[e], Policy(t)[e], g[e])
<1>. DEFINE h == Policy(t)
            b == g[f]
            q == h[f]
<1>1. /\ f \in Filings /\ f \in Restatements /\ Link(f, o, b) /\ EvenRow(f, v)
      /\ v.where = o.where /\ v.acc = o.acc /\ v.parse = "succeeded"
      /\ b \in Row /\ EvenRow(f, b) /\ b.where = "group" /\ Even(g)
  BY TableRows, BestGrouped DEF Claims, Right, Even
<1>2. Group(t) = Group(g) /\ v.where = b.where /\ v.acc = b.acc
  <2>1. v.where = b.where /\ v.acc = b.acc
    BY <1>1 DEF Link, SameFiling
  <2>. QED
    BY <2>1 DEF Group
<1>3. Even(t)
  BY <1>1, <1>2, BestGrouped DEF Even
<1>4. /\ Right(h) /\ h \in Table /\ Group(h) = Group(t) /\ Competing(h) = Competing(t)
      /\ \A e \in Filings : h[e] \in Row /\ SameFiling(t[e], h[e])
      /\ Latest(h, Best(h)) = Latest(t, Best(t))
  <2>1. /\ Group(h) = Group(t) /\ Competing(h) = Competing(t)
        /\ \A P \in SUBSET Filings : Latest(h, P) = Latest(t, P)
    BY SamePool
  <2>2. Best(h) = Best(t) /\ Best(t) \in SUBSET Filings
    <3>. HIDE DEF h
    <3>. QED
      BY <2>1, BestGrouped DEF Best, Plain
  <2>. QED
    BY <1>3, <2>1, <2>2, EvenDecides, PolicyTypes
<1>5. \A e \in Group(t) : /\ h[e].warn = t[e].warn
                          /\ h[e].active <=> e \in Latest(t, Best(t))
                          /\ \/ h[e].status = t[e].status
                             \/ h[e].status = "applied" /\ e \in Competing(t)
  <2>1. \A e \in Group(t) : /\ h[e].warn = t[e].warn
                            /\ h[e].active <=> e \in Latest(t, Best(t))
                            /\ h[e].status = IF e \in Latest(t, Best(t)) /\ Competing(t) # {}
                                             THEN "applied" ELSE t[e].status
    BY <1>3, EvenOutcome
  <2>2. \A e \in Latest(t, Best(t)) : Competing(t) # {} => e \in Competing(t)
    BY DEF Latest, Best
  <2>. HIDE DEF h
  <2>. QED
    BY <2>1, <2>2
<1>6. \A e \in Filings \ Group(t) : h[e] = t[e]
  BY ServesAfter
<1>7. \A e \in Filings : e # f => Chosen(g[e], h[e], g[e])
  <2>. SUFFICES ASSUME NEW e \in Filings, e # f
                PROVE  SameFiling(g[e], h[e]) /\ h[e].warn = g[e].warn /\ Follows(g[e], h[e])
    BY DEF Chosen
  <2>1. t[e] = g[e] /\ SameFiling(g[e], h[e])
    BY <1>4
  <2>2. CASE e \in Group(t)
    <3>1. e \in Competing(t) => g[e].status \notin Parked
      BY <2>1 DEF Competing
    <3>2. \/ h[e].status = g[e].status
          \/ h[e].status = "applied" /\ g[e].status \notin Parked
      BY <1>5, <2>1, <2>2, <3>1
    <3>3. h[e].warn = g[e].warn
      BY <1>5, <2>1, <2>2
    <3>. HIDE DEF h
    <3>. QED
      BY <2>1, <3>2, <3>3 DEF Follows, Terminal, Parked
  <2>3. CASE e \notin Group(t)
    BY <1>6, <2>1, <2>3 DEF Follows
  <2>. QED
    BY <2>2, <2>3
<1>8. q \in Row /\ SameFiling(v, q) /\ EvenRow(f, q) /\ f \in Group(h)
  BY <1>1, <1>2, <1>4 DEF Right, Even
<1>9. /\ c[f].where = "group" /\ c[f].parse = "succeeded" /\ c[f].acc = q.acc /\ c[f].run = q.run
      /\ c[f].warn = FALSE
      /\ c[f].active = IF q.active # o.active THEN q.active ELSE b.active
      /\ c[f].status = IF q.status # o.status THEN q.status ELSE b.status
  <2>3. c[f] = Columns(q, o, b)
    OBVIOUS
  <2>. HIDE DEF h
  <2>1. LET r == c[f] IN
        /\ r.where = IF q.where # o.where THEN q.where ELSE b.where
        /\ r.active = IF q.active # o.active THEN q.active ELSE b.active
        /\ r.status = IF q.status # o.status THEN q.status ELSE b.status
        /\ r.warn = IF q.warn # o.warn THEN q.warn ELSE b.warn
        /\ r.parse = IF q.parse # o.parse THEN q.parse ELSE b.parse
        /\ r.acc = IF q.acc # o.acc THEN q.acc ELSE b.acc
        /\ r.run = IF q.run # o.run THEN q.run ELSE b.run
    BY <1>1, <1>8, <2>3, Written
  <2>2. /\ q.where = o.where /\ q.acc = o.acc /\ q.parse = "succeeded" /\ q.warn = FALSE
        /\ b.where = o.where /\ b.acc = o.acc /\ b.parse = o.parse /\ b.run = o.run
        /\ b.warn = FALSE /\ o.warn = FALSE
    BY <1>1, <1>8 DEF Link, SameFiling, EvenRow
  <2>. QED
    BY <1>1, <2>1, <2>2
<1>10. /\ o.status \in Terminal => b.status = o.status
       /\ b.status \in Parked => o.status \in Parked
       /\ o.parse = b.parse
       /\ o.active => o.parse = "succeeded" /\ o.status \notin Parked
       /\ \/ ~gated /\ v.status = o.status
          \/ gated /\ v.status \in Parked /\ (o = b \/ o.status \in Parked)
  BY <1>1 DEF Link, Follows, SameFiling, Claims
<1>11. f \in Latest(t, Best(t)) /\ f \in Competing(g) => b.active
  <2>. SUFFICES ASSUME f \in Latest(t, Best(t)), f \in Competing(g) PROVE b.active
    OBVIOUS
  <2>1. h[f].active
    BY <1>2, <1>5
  <2>2. f \in Competing(t)
    BY <1>1, <1>2, <1>4, <2>1, ServesCompeting
  <2>. QED
    BY <1>1, <1>2, <2>2, StillAhead DEF Right
<1>12. b.active /\ f \in Competing(t) => f \in Latest(t, Best(t))
  <2>. SUFFICES ASSUME b.active, f \in Competing(t) PROVE f \in Latest(t, Best(t))
    OBVIOUS
  <2>1. f \in Competing(g) /\ f \in Latest(g, Best(g))
    BY <1>1, ServesCompeting DEF Right
  <2>. QED
    BY <1>1, <1>2, <2>1, StillAhead
<1>13. c[f].active = q.active
  <2>0. q.active \in BOOLEAN /\ o.active \in BOOLEAN /\ b.active \in BOOLEAN
    BY <1>1, <1>8 DEF Row
  <2>1. q.active <=> f \in Latest(t, Best(t))
    BY <1>2, <1>5
  <2>2. CASE o.active /\ q.active
    <3>1. f \in Competing(g)
      BY <1>1, <1>10, <2>2 DEF Competing
    <3>. QED
      BY <1>9, <1>11, <2>0, <2>1, <2>2, <3>1
  <2>3. CASE ~o.active /\ ~q.active /\ b.active
    <3>1. b.status = "applied"
      BY <1>1, <2>3 DEF Right
    <3>2. o.status \notin Parked
      BY <1>10, <3>1 DEF Parked, Terminal
    <3>3. v.status \notin Parked
      BY <1>10, <2>3, <3>2
    <3>4. f \in Competing(t)
      BY <1>1, <1>2, <3>3 DEF Competing
    <3>. QED
      BY <1>12, <2>1, <2>3, <3>4
  <2>4. CASE ~o.active /\ ~q.active /\ ~b.active
    BY <1>9, <2>0, <2>4
  <2>5. CASE o.active # q.active
    BY <1>9, <2>5
  <2>. QED
    BY <2>0, <2>2, <2>3, <2>4, <2>5
<1>14. c[f].status \in Parked <=> q.status \in Parked
  BY <1>9, <1>10 DEF Terminal
<1>15. c[f].active => c[f].status = "applied"
  <2>1. q.active => q.status = "applied"
    BY <1>1, <1>4, <1>8 DEF Right
  <2>. QED
    BY <1>9, <1>10, <1>13, <2>1 DEF Terminal
<1>16. EvenRow(f, c[f])
  <2>1. Form[f] # "13F-NT/A" /\ f \in Amendments
    BY <1>1, Kinds DEF HRForms
  <2>2. /\ q.run => q.parse = "succeeded"
        /\ ~q.run => q.status \in Parked
    BY <1>1, <1>8 DEF EvenRow, SameFiling
  <2>. QED
    BY <1>1, <1>9, <1>14, <2>1, <2>2 DEF EvenRow
<1>17. Group(c) = Group(h)
  BY <1>8, <1>9 DEF Group
<1>18. Competing(c) = Competing(h)
  <2>1. q.parse = "succeeded"
    BY <1>1, <1>8 DEF SameFiling
  <2>. HIDE DEF h
  <2>2. \A e \in Group(h) \cap Restatements :
           Form[e] \in HRForms /\ c[e].parse = "succeeded" /\ c[e].status \notin Parked
           <=> Form[e] \in HRForms /\ h[e].parse = "succeeded" /\ h[e].status \notin Parked
    <3>. TAKE e \in Group(h) \cap Restatements
    <3>1. CASE e = f
      BY <1>9, <1>14, <2>1, <3>1
    <3>2. CASE e # f
      <4>1. c[e] = h[e]
        BY <3>2, BestGrouped DEF h
      <4>. QED
        BY <4>1
    <3>. QED
      BY <3>1, <3>2
  <2>. QED
    BY <1>17, <2>2 DEF Competing
<1>19. \A e \in Filings \ Group(h) : c[e] = h[e]
  BY <1>8
<1>20. \A e \in Group(h) : /\ EvenRow(e, c[e])
                           /\ c[e].acc = h[e].acc /\ c[e].active = h[e].active
                           /\ c[e].active /\ e \in Restatements /\ Form[e] \in HRForms
                              => c[e].status = "applied"
  <2>. TAKE e \in Group(h)
  <2>1. CASE e = f
    BY <1>9, <1>13, <1>15, <1>16, <2>1
  <2>2. CASE e # f
    <3>1. c[e] = h[e]
      BY <2>2, BestGrouped
    <3>. HIDE DEF h
    <3>. QED
      BY <1>4, <3>1 DEF Right, Even
  <2>. QED
    BY <2>1, <2>2
<1>21. Right(c)
  <2>. HIDE DEF h
  <2>. QED
    BY <1>4, <1>17, <1>18, <1>19, <1>20, RightAs
<1>. QED
  BY <1>2, <1>4, <1>7, <1>9, <1>17, <1>21

\* The sessions at work parse, re-parse, gate and sweep, a filing a transaction.
Parses == Ops \subseteq {"parse", "controlled", "sweep"}

LEMMA OrderlyFacts ==
    ASSUME Orderly, NEW s \in Sessions
    PROVE  /\ ses \in [Sessions -> SessionState] /\ ses[s] \in SessionState
           /\ db \in Table /\ Right(db) /\ Course(ses[s], db, holder = s)
           /\ \A f \in Group(db) : f \in Filings /\ db[f] \in Row /\ EvenRow(f, db[f])
           /\ \A f \in Filings : f \notin Group(db) => db[f] = NoRow
BY TableRows, BestGrouped DEF Orderly, Shape, TypeOK, Right, Even

LEMMA Moves ==
    ASSUME Orderly, Shape', NEW s \in Sessions, NEW x, ses' = [ses EXCEPT ![s] = x],
           Right(db'), Course(x, db', holder' = s),
           \A t \in Sessions \ {s} : Course(ses[t], db', holder' = t),
           x.op \in Own => \/ x.on = ses[s].on /\ ses[s].op \in Own
                           \/ ~ParsedByOther(s, x.on)
    PROVE  Orderly'
<1>1. ses \in [Sessions -> SessionState]
  BY OrderlyFacts
<1>2. \A t \in Sessions : ses'[t] = IF t = s THEN x ELSE ses[t]
  BY <1>1
<1>3. \A t \in Sessions : Course(ses'[t], db', holder' = t)
  BY <1>2
<1>4. x.op \in Own => \A t \in Sessions \ {s} : ses[t].op \in Own => ses[t].on # x.on
  BY DEF Orderly, OnePerFiling, ParsedByOther, Own
<1>5. OnePerFiling'
  <2>1. \A t, u \in Sessions :
           t # u /\ ses'[t].op \in Own /\ ses'[u].op \in Own => ses'[t].on # ses'[u].on
    BY <1>2, <1>4 DEF Orderly, OnePerFiling
  <2>. QED
    BY <2>1 DEF OnePerFiling
<1>. QED
  BY <1>3, <1>5 DEF Orderly

LEMMA MovesAlone ==
    ASSUME Orderly, Shape', NEW s \in Sessions, NEW x, ses' = [ses EXCEPT ![s] = x],
           UNCHANGED <<db, holder>>, Course(x, db, holder = s),
           x.op \in Own => \/ x.on = ses[s].on /\ ses[s].op \in Own
                           \/ ~ParsedByOther(s, x.on)
    PROVE  Orderly'
<1>1. \A t \in Sessions : Course(ses[t], db', holder' = t)
  BY DEF Orderly
<1>2. Right(db') /\ Course(x, db', holder' = s)
  BY OrderlyFacts
<1>. QED
  BY <1>1, <1>2, Moves

LEMMA AsRead ==
    ASSUME NEW g, Right(g), NEW f \in Group(g), Form[f] \in HRForms
    PROVE  Link(f, g[f], g[f])
BY ServesCompeting DEF Link, SameFiling, Follows, Right, Even, Competing

LEMMA IdleCourse == ASSUME NEW g, NEW held PROVE Course(Idle, g, held) /\ Idle.op \notin Own
BY DEF Course, Idle, Own

LEMMA ParseStarts ==
    ASSUME Orderly, Shape', NEW s \in Sessions, NEW f \in Filings, NEW op, StartParse(s, op, f)
    PROVE  Orderly'
<1>. DEFINE x == Opened(s, op, f, db[f], "parsing")
<1>1. /\ op \in {"parse", "controlled"} /\ ~ParsedByOther(s, f)
      /\ db[f].where # "absent" /\ Form[f] \in HRForms
      /\ ses' = [ses EXCEPT ![s] = x] /\ UNCHANGED <<db, holder>>
  BY DEF StartParse, Opened
<1>2. Of(x, op, f, db[f], "parsing")
  BY OpenedRow
<1>. HIDE DEF x
<1>3. f \in Group(db) /\ Right(db)
  BY <1>1, OrderlyFacts DEF NoRow
<1>4. Parsing(x, db)
  BY <1>1, <1>2, <1>3, AsRead DEF Parsing, Mine, Own, Of
<1>5. Course(x, db, holder = s) /\ x.on = f
  BY <1>2, <1>4 DEF Course, Of
<1>. QED
  BY <1>1, <1>5, MovesAlone

\* A parse that is under way ends.
LEMMA ParsesEnd ==
    ASSUME Orderly, Shape', NEW s \in Sessions,
           ParseOk(s) \/ ParseFails(s) \/ ParseQuarantined(s)
    PROVE  Orderly'
<1>. DEFINE x == ses[s]
            f == x.on
            o == x.orig[f]
<1>1. x.at = "parsing"
  BY DEF ParseOk, ParseFails, ParseQuarantined
<1>2. Parsing(x, db)
  BY <1>1, OrderlyFacts DEF Course, Idle, Gated, Light, Asking, Heavy, Sweeping
<1>3. /\ x \in SessionState /\ ses \in [Sessions -> SessionState]
      /\ x.op \in Own /\ x.op # "gate" /\ f \in Group(db) /\ Form[f] \in HRForms
      /\ x.read = {f} /\ x.view[f] = o /\ Link(f, o, db[f]) /\ f \in Filings
  BY <1>2, OrderlyFacts DEF Parsing, Mine
<1>4. o \in Row /\ EvenRow(f, o) /\ o.where = "group" /\ SameFiling(o, db[f])
  BY <1>3 DEF Link, SameFiling, Group, SessionState, Table
<1>5. Form[f] # "13F-NT/A" /\ (f \in Restatements => f \in Amendments)
  BY <1>3, Kinds DEF HRForms
<1>6. CASE ParseOk(s)
  <2>. DEFINE r == [o EXCEPT !.parse = "succeeded", !.run = TRUE]
              a == IF f \in Restatements /\ r.where = "group" THEN "ready" ELSE "closing"
              v == [x.view EXCEPT ![f] = r]
              y == [x EXCEPT !.view = v, !.at = a]
  <2>1. ses' = [ses EXCEPT ![s] = y] /\ UNCHANGED <<db, holder>>
    BY <1>3, <1>6 DEF ParseOk, SessionState
  <2>2. /\ r \in Row /\ r.where = o.where /\ r.acc = o.acc /\ r.status = o.status
        /\ r.active = o.active /\ r.warn = o.warn /\ r.parse = "succeeded" /\ r.run = TRUE
    BY <1>4 DEF Row
  <2>3. v[f] = r
    BY <1>3 DEF SessionState, Table
  <2>4. a = IF f \in Restatements THEN "ready" ELSE "closing"
    BY <1>4, <2>2
  <2>. HIDE DEF r, v, a
  <2>5. /\ y.at = a /\ y.op = x.op /\ y.on = f /\ y.read = {f} /\ y.orig[f] = o /\ y.view[f] = r
        /\ y.rows = x.rows
    BY <1>3, <2>3 DEF SessionState
  <2>. HIDE DEF y
  <2>6. Mine(y, db)
    BY <1>3, <2>5 DEF Mine
  <2>7. CASE f \in Restatements
    <3>1. EvenRow(f, r)
      BY <1>4, <1>5, <2>2, <2>7 DEF EvenRow
    <3>2. Claims(f, o, r, db[f], y.op = "gate", f \in y.rows)
      BY <1>3, <2>2, <2>5, <2>7, <3>1 DEF Claims
    <3>3. Asking(y, db)
      BY <2>4, <2>5, <2>6, <2>7, <3>2 DEF Asking
    <3>. QED
      BY <1>3, <2>1, <2>5, <3>3, MovesAlone DEF Course
  <2>8. CASE f \notin Restatements
    <3>1. Slight(f, r, o)
      BY <2>2, <2>8 DEF Slight
    <3>2. Light(y, db)
      BY <1>3, <2>2, <2>4, <2>5, <2>6, <2>8, <3>1 DEF Light
    <3>. QED
      BY <1>3, <2>1, <2>5, <3>2, MovesAlone DEF Course
  <2>. QED
    BY <2>7, <2>8
<1>7. CASE ParseFails(s)
  <2>. DEFINE p == IF o.run THEN "succeeded" ELSE "failed"
              r == [o EXCEPT !.parse = p]
              v == [x.view EXCEPT ![f].parse = p]
              y == [x EXCEPT !.view = v, !.op = "parse", !.at = "closing"]
  <2>1. ses' = [ses EXCEPT ![s] = y] /\ UNCHANGED <<db, holder>>
    <3>1. (IF x.op = "controlled" THEN "parse" ELSE x.op) = "parse"
      BY <1>3 DEF Own
    <3>. QED
      BY <1>3, <1>7, <3>1 DEF ParseFails, SessionState
  <2>2. /\ r \in Row /\ r.where = o.where /\ r.acc = o.acc /\ r.status = o.status
        /\ r.active = o.active /\ r.warn = o.warn /\ r.parse = p /\ r.run = o.run
        /\ o.run \in BOOLEAN
    BY <1>4 DEF Row
  <2>3. v[f] = r
    BY <1>3 DEF SessionState, Table
  <2>4. Slight(f, r, o)
    BY <1>4, <2>2 DEF Slight, EvenRow
  <2>. HIDE DEF r, v, p
  <2>5. /\ y.at = "closing" /\ y.op = "parse" /\ y.on = f /\ y.read = {f} /\ y.orig[f] = o
        /\ y.view[f] = r
    BY <1>3, <2>3 DEF SessionState
  <2>. HIDE DEF y
  <2>6. Light(y, db)
    BY <1>3, <2>4, <2>5 DEF Light, Mine, Own
  <2>. QED
    BY <1>3, <2>1, <2>5, <2>6, MovesAlone DEF Course
<1>8. CASE ParseQuarantined(s)
  <2>. DEFINE y == [x EXCEPT !.at = "closing"]
  <2>1. ses' = [ses EXCEPT ![s] = y] /\ UNCHANGED <<db, holder>> /\ o.run
    BY <1>3, <1>8 DEF ParseQuarantined, SessionState
  <2>2. o.parse = "succeeded" /\ Slight(f, o, o)
    BY <1>4, <2>1 DEF EvenRow, Slight
  <2>3. /\ y.at = "closing" /\ y.op = x.op /\ y.on = f /\ y.read = {f} /\ y.orig[f] = o
        /\ y.view[f] = o
    BY <1>3 DEF SessionState
  <2>. HIDE DEF y
  <2>4. Light(y, db)
    BY <1>3, <2>2, <2>3 DEF Light, Mine
  <2>. QED
    BY <1>3, <2>1, <2>3, <2>4, MovesAlone DEF Course
<1>. QED
  BY <1>6, <1>7, <1>8

\* A gate passes, or rejects what was parsed.
LEMMA GatesOrderly ==
    ASSUME Orderly, Shape', NEW s \in Sessions, GatePasses(s) \/ GateFails(s)
    PROVE  Orderly'
<1>. DEFINE x == ses[s]
            f == x.on
            b == db[f]
<1>1. x.at = "gate"
  BY DEF GatePasses, GateFails
<1>2. Gated(x, db)
  BY <1>1, OrderlyFacts DEF Course, Idle, Parsing, Light, Asking, Heavy, Sweeping
<1>3. /\ x \in SessionState /\ x.op \in Own /\ f \in Group(db) /\ Form[f] \in HRForms
      /\ f \in Filings /\ b \in Row /\ b.parse = "succeeded" /\ EvenRow(f, b) /\ b.where = "group"
      /\ Right(db)
  BY <1>2, OrderlyFacts DEF Gated, Mine, Group
<1>4. CASE GatePasses(s)
  BY <1>4, IdleCourse, MovesAlone DEF GatePasses
<1>5. CASE GateFails(s)
  <2>. DEFINE d == IF f \in Restatements THEN "rejected" ELSE b.status
              r == [b EXCEPT !.run = x.orig[f].run, !.status = d]
              a == IF f \in Restatements /\ r.where = "group" THEN "ready" ELSE "closing"
              R == IF b # r THEN {f} ELSE {}
              y == Holding(s, "gate", f, r, a, R)
  <2>1. ses' = [ses EXCEPT ![s] = y] /\ UNCHANGED <<db, holder>>
    <3>1. r = [b EXCEPT !.run = x.orig[f].run,
                        !.status = IF f \in Restatements THEN "rejected" ELSE @]
      OBVIOUS
    <3>. QED
      BY <1>5, <3>1 DEF GateFails, Holding
  <2>2. /\ r \in Row /\ r.where = b.where /\ r.acc = b.acc /\ r.status = d
        /\ r.active = b.active /\ r.warn = b.warn /\ r.parse = "succeeded"
    <3>1. x.orig[f].run \in BOOLEAN /\ d \in Statuses
      BY <1>3 DEF SessionState, Table, Row, Statuses, Terminal, Parked
    <3>. HIDE DEF d
    <3>. QED
      BY <1>3, <3>1 DEF Row
  <2>3. a = IF f \in Restatements THEN "ready" ELSE "closing"
    BY <1>3, <2>2
  <2>4. b # r => f \in R
    OBVIOUS
  <2>5. Of(y, "gate", f, r, a) /\ y.rows = R
    BY <1>3, HoldingRow
  <2>6. Link(f, b, b)
    BY <1>3, AsRead
  <2>7. Form[f] # "13F-NT/A" /\ (f \in Restatements => f \in Amendments)
    BY <1>3, Kinds DEF HRForms
  <2>. HIDE DEF y, r, a, R
  <2>8. Mine(y, db) /\ y.on = f /\ y.op = "gate" /\ y.read = {f} /\ y.orig[f] = b /\ y.view[f] = r
        /\ y.at = a
    BY <1>3, <2>5 DEF Mine, Of, Own
  <2>9. CASE f \in Restatements
    <3>1. r.status = "rejected"
      BY <2>2, <2>9
    <3>2. EvenRow(f, r)
      BY <1>3, <2>2, <2>7, <2>9, <3>1 DEF EvenRow, Parked
    <3>3. f \in y.rows \/ b.status \in Parked
      BY <2>4, <2>5, <3>1 DEF Parked
    <3>4. Claims(f, b, r, b, y.op = "gate", f \in y.rows)
      BY <2>2, <2>6, <2>8, <2>9, <3>1, <3>2, <3>3 DEF Claims, Parked
    <3>5. Asking(y, db)
      BY <2>3, <2>8, <2>9, <3>4 DEF Asking
    <3>. QED
      BY <1>3, <2>1, <2>8, <3>5, MovesAlone DEF Course
  <2>10. CASE f \notin Restatements
    <3>1. Slight(f, r, b)
      BY <2>2, <2>10 DEF Slight
    <3>2. Light(y, db)
      BY <2>3, <2>6, <2>8, <2>10, <3>1 DEF Light
    <3>. QED
      BY <1>3, <2>1, <2>8, <3>2, MovesAlone DEF Course
  <2>. QED
    BY <2>9, <2>10
<1>. QED
  BY <1>4, <1>5

LEMMA SweepsOrderly ==
    ASSUME Orderly, Shape', NEW s \in Sessions, NEW first \in BOOLEAN, Sweep(s, first)
    PROVE  Orderly'
<1>. DEFINE R == IF first THEN Group(db) ELSE {}
            v == IF first THEN db ELSE Empty
            x == [Idle EXCEPT !.op = "sweep", !.at = "ready", !.read = R, !.orig = v, !.view = v]
<1>1. ses' = [ses EXCEPT ![s] = x] /\ UNCHANGED <<db, holder>>
  BY DEF Sweep
<1>2. R = {} \/ (R = Group(db) /\ v = db)
  OBVIOUS
<1>3. Right(db)
  BY OrderlyFacts
<1>. HIDE DEF R, v
<1>4. x.op = "sweep" /\ x.at = "ready" /\ x.read = R /\ x.orig = v /\ x.view = v
  BY DEF Idle
<1>. HIDE DEF x
<1>5. Sweeping(x, db) /\ x.op \notin Own
  BY <1>2, <1>3, <1>4 DEF Sweeping, Own
<1>. QED
  BY <1>1, <1>5, MovesAlone DEF Course

\* A sweep finds nothing to change.
LEMMA SweepDecides ==
    ASSUME Orderly, Shape', NEW s \in Sessions, TakeLock(s), Sweeping(ses[s], db)
    PROVE  Orderly'
<1>. DEFINE x == ses[s]
            Q == Queried(s, x.orig)
            y == [x EXCEPT !.at = "closing", !.read = Filings, !.orig = Q, !.view = Policy(Q)]
<1>1. /\ x \in SessionState /\ db \in Table /\ Right(db) /\ x.at = "ready"
      /\ x.op = "sweep" /\ x.view = x.orig /\ holder = NoSession
      /\ \/ x.read = {}
         \/ Right(x.orig) /\ x.read = Group(db) /\ Group(x.orig) = Group(db)
  BY OrderlyFacts DEF TakeLock, Sweeping
<1>2. ses' = [ses EXCEPT ![s] = y] /\ db' = db /\ holder' = s
  BY <1>1 DEF TakeLock
<1>3. Q = db \/ Q = x.orig
  <2>1. CASE x.read = {}
    <3>1. Q = [f \in Filings |-> db[f]]
      BY <2>1 DEF Queried
    <3>. QED
      BY <1>1, <3>1 DEF Table
  <2>2. CASE Right(x.orig) /\ x.read = Group(db) /\ Group(x.orig) = Group(db)
    <3>1. ASSUME NEW f \in Filings PROVE Q[f] = x.orig[f]
      <4>1. CASE f \in Group(db)
        <5>1. x.orig[f] \in Row /\ x.orig[f].where = "group" /\ db[f].where = "group"
          BY <1>1, <2>2, <4>1 DEF Group, SessionState, Table
        <5>2. [x.orig[f] EXCEPT !.where = "group"] = x.orig[f]
          BY <5>1 DEF Row
        <5>. QED
          BY <2>2, <4>1, <5>1, <5>2 DEF Queried
      <4>2. CASE f \notin Group(db)
        BY <1>1, <2>2, <4>2 DEF Queried, Right, Even
      <4>. QED
        BY <4>1, <4>2
    <3>2. Q = [f \in Filings |-> Q[f]] /\ x.orig = [f \in Filings |-> x.orig[f]]
      BY <1>1 DEF Queried, SessionState, Table
    <3>. HIDE DEF Q
    <3>. QED
      BY <3>1, <3>2
  <2>. QED
    BY <1>1, <2>1, <2>2
<1>4. Q \in Table /\ Right(Q)
  <2>1. x.read = {} => Q = db
    <3>1. x.read = {} => Q = [f \in Filings |-> db[f]]
      BY DEF Queried
    <3>. QED
      BY <1>1, <3>1 DEF Table
  <2>. QED
    BY <1>1, <1>3, <2>1 DEF SessionState
<1>5. Policy(Q) = Q
  <2>. HIDE DEF Q
  <2>. QED
    BY <1>4, RightStays
<1>. HIDE DEF Q
<1>6. y.op = "sweep" /\ y.at = "closing" /\ y.orig = Q /\ y.view = Policy(Q)
  BY <1>1 DEF SessionState
<1>. HIDE DEF y
<1>7. Sweeping(y, db) /\ y.op \notin Own
  BY <1>5, <1>6 DEF Sweeping, Own
<1>8. \A t \in Sessions \ {s} : Course(ses[t], db', holder' = t)
  BY <1>1, <1>2, OrderlyFacts, AuthorityAssumption DEF Course
<1>. QED
  BY <1>1, <1>2, <1>7, <1>8, Moves DEF Course

\* A session with a claim decides, under the lock.
LEMMA ClaimDecides ==
    ASSUME Orderly, Shape', NEW s \in Sessions, TakeLock(s), Asking(ses[s], db)
    PROVE  Orderly'
<1>. DEFINE x == ses[s]
            f == x.on
            o == x.orig[f]
            v == x.view[f]
            Q == Queried(s, x.orig)
            t == Queried(s, x.view)
            y == [x EXCEPT !.at = "closing", !.read = Filings, !.orig = Q, !.view = Policy(t)]
            c == After(y, db)
<1>1. /\ x \in SessionState /\ db \in Table /\ Right(db) /\ x.at = "ready"
      /\ x.op \in Own /\ f \in Group(db) /\ Form[f] \in HRForms /\ x.read = {f} /\ f \in Filings
      /\ Claims(f, o, v, db[f], x.op = "gate", f \in x.rows) /\ holder = NoSession
      /\ db[f].where = "group" /\ o \in Row /\ v \in Row
  BY OrderlyFacts DEF TakeLock, Asking, Mine, Group, SessionState, Table
<1>2. ses' = [ses EXCEPT ![s] = y] /\ db' = db /\ holder' = s
  BY <1>1 DEF TakeLock, Own
<1>3. /\ \A e \in Filings : e # f => Q[e] = db[e] /\ t[e] = db[e]
      /\ Q[f] = o /\ t[f] = v
  <2>1. o.where = "group" /\ v.where = "group"
    BY <1>1 DEF Claims, Link, SameFiling
  <2>2. [o EXCEPT !.where = "group"] = o /\ [v EXCEPT !.where = "group"] = v
    BY <1>1, <2>1 DEF Row
  <2>3. /\ \A e \in Filings : e # f => Q[e] = db[e] /\ t[e] = db[e]
        /\ Q[f] = IF f \in x.rows THEN o ELSE [o EXCEPT !.where = "group"]
        /\ t[f] = IF f \in x.rows THEN v ELSE [v EXCEPT !.where = "group"]
    BY <1>1 DEF Queried
  <2>. QED
    BY <2>2, <2>3
<1>4. Q \in Table /\ t \in Table
  BY <1>1, OverlayTypes DEF Orderly, SessionState
<1>5. Policy(t) \in Table
  <2>. HIDE DEF t
  <2>. QED
    BY <1>4, PolicyTypes
<1>. HIDE DEF Q, t
<1>6. /\ y.at = "closing" /\ y.op = x.op /\ y.on = f /\ y.read = Filings /\ y.orig = Q
      /\ y.view = Policy(t) /\ y \in SessionState
  BY <1>1, <1>4, <1>5 DEF SessionState
<1>. HIDE DEF y
<1>7. c \in Table
  BY <1>1, <1>6, AfterRows
<1>8. \A e \in Filings : e # f => c[e] = Policy(t)[e]
  <2>. SUFFICES ASSUME NEW e \in Filings, e # f PROVE c[e] = Policy(t)[e]
    OBVIOUS
  <2>1. y.orig[e] = db[e] /\ y.view[e] = Policy(t)[e] /\ e \in y.read
    BY <1>3, <1>6
  <2>. QED
    BY <1>1, <1>6, <2>1, AfterRows
<1>9. c[f] = Columns(Policy(t)[f], o, db[f])
  <2>1. Policy(t)[f] \in Row /\ db[f] \in Row
    BY <1>1, <1>5 DEF Table
  <2>2. CASE Policy(t)[f] # o
    BY <1>1, <1>3, <1>6, <2>2 DEF After
  <2>3. CASE Policy(t)[f] = o
    <3>1. c[f] = db[f]
      BY <1>1, <1>3, <1>6, <2>3 DEF After
    <3>2. Columns(o, o, db[f]) \in Row
      BY <1>1, <2>1, Written
    <3>3. Columns(o, o, db[f]) = db[f]
      BY <1>1, <2>1, <3>2, Written, SameRow
    <3>. QED
      BY <2>3, <3>1, <3>3
  <2>. QED
    BY <2>2, <2>3
<1>. HIDE DEF c
<1>10. /\ Right(c) /\ Group(c) = Group(db) /\ c[f].parse = "succeeded"
       /\ \A e \in Filings : e # f => Chosen(db[e], Policy(t)[e], db[e])
  <2>. DEFINE gated == x.op = "gate"
              locked == f \in x.rows
  <2>1. gated \in BOOLEAN /\ locked \in BOOLEAN /\ Claims(f, o, v, db[f], gated, locked)
    BY <1>1
  <2>. HIDE DEF gated, locked, x, f, o, v
  <2>. QED
    BY <1>1, <1>3, <1>4, <1>7, <1>8, <1>9, <2>1, ClaimsDecide
<1>11. Heavy(y, db)
  BY <1>1, <1>3, <1>6, <1>10 DEF Heavy, Mine, c
<1>12. \A u \in Sessions \ {s} : Course(ses[u], db', holder' = u)
  BY <1>1, <1>2, OrderlyFacts, AuthorityAssumption DEF Course
<1>. QED
  BY <1>1, <1>2, <1>6, <1>11, <1>12, Moves DEF Course

\* A commit leaves the quarter right, and what goes on beside it in order.
LEMMA ClosingIsRight ==
    ASSUME Orderly, NEW s \in Sessions, ses[s].at = "closing"
    PROVE  /\ Right(Committed(s)) /\ Group(Committed(s)) = Group(db)
           /\ Committed(s) \in Table /\ IndexAllows(s)
           /\ \/ Light(ses[s], db)
              \/ Heavy(ses[s], db) /\ holder = s
              \/ ses[s].op = "sweep" /\ Committed(s) = db
<1>. DEFINE x == ses[s]
            c == Committed(s)
<1>1. /\ x \in SessionState /\ db \in Table /\ Right(db) /\ c = After(x, db)
      /\ Course(x, db, holder = s) /\ c \in Table
  BY OrderlyFacts, CommitsAfter, CommittedTypes DEF Orderly
<1>2. \/ Light(x, db)
      \/ Heavy(x, db) /\ holder = s
      \/ Sweeping(x, db)
  BY <1>1 DEF Course, Idle, Parsing, Gated, Asking
<1>3. Sweeping(x, db) => x.op = "sweep" /\ c = db
  <2>1. Sweeping(x, db) => \A f \in Filings : c[f] = db[f]
    BY <1>1, AfterRows DEF Sweeping
  <2>2. c = [f \in Filings |-> c[f]] /\ db = [f \in Filings |-> db[f]]
    BY <1>1 DEF Table
  <2>. HIDE DEF c
  <2>. QED
    BY <2>1, <2>2 DEF Sweeping
<1>4. Right(c) /\ Group(c) = Group(db)
  BY <1>1, <1>2, <1>3, LightCommits, HeavyCommits
<1>5. IndexAllows(s)
  BY <1>1, <1>4, RightServesOne DEF IndexAllows
<1>. QED
  BY <1>1, <1>2, <1>3, <1>4, <1>5

LEMMA CommitsOrderly ==
    ASSUME Orderly, Shape', NEW s \in Sessions, Commit(s)
    PROVE  Orderly'
<1>. DEFINE x == ses[s]
            f == x.on
            c == Committed(s)
            y == AfterParse(s)
<1>1. /\ x.at = "closing" /\ Changed(s) \cap LockedByOthers(s) = {}
      /\ Right(c) /\ Group(c) = Group(db) /\ c \in Table /\ c = After(x, db)
      /\ db' = c /\ ses' = [ses EXCEPT ![s] = y] /\ holder' = Released(s)
  BY ClosingIsRight, CommitsAfter DEF Commit
<1>2. /\ x \in SessionState /\ db \in Table /\ Right(db)
      /\ \/ Light(x, db)
         \/ Heavy(x, db) /\ holder = s
         \/ x.op = "sweep" /\ c = db
  BY <1>1, OrderlyFacts, ClosingIsRight
<1>. HIDE DEF c
<1>3. /\ Light(x, db) => c[f].parse = x.view[f].parse
      /\ Heavy(x, db) /\ x.op = "controlled" => c[f].parse = "succeeded"
      /\ Light(x, db) /\ x.op = "controlled" => x.view[f].parse = "succeeded"
      /\ x.op = "sweep" => x.op # "controlled"
  BY <1>1, <1>2, LightCommits DEF Heavy, Light
<1>4. Course(y, c, holder' = s)
  <2>1. CASE x.op = "controlled"
    <3>1. y.at = "gate" /\ y.op = "controlled" /\ y.on = f /\ y.read = {}
      BY <2>1 DEF AfterParse, Idle
    <3>. HIDE DEF y
    <3>2. f \in Group(db) /\ Form[f] \in HRForms /\ c[f].parse = "succeeded"
      BY <1>2, <1>3, <2>1 DEF Light, Heavy, Mine
    <3>3. Gated(y, c)
      BY <1>1, <3>1, <3>2 DEF Gated, Mine, Own
    <3>. QED
      BY <3>3 DEF Course
  <2>2. CASE x.op # "controlled"
    BY <2>2, IdleCourse DEF AfterParse
  <2>. QED
    BY <2>1, <2>2
<1>5. y.op \in Own => y.on = f /\ x.op \in Own
  BY DEF AfterParse, Idle, Own
<1>6. ASSUME NEW t \in Sessions, t # s PROVE Course(ses[t], c, holder' = t)
  <2>. DEFINE z == ses[t]
  <2>1. z \in SessionState /\ Course(z, db, holder = t)
    BY OrderlyFacts
  <2>2. z.op \in Own /\ x.op \in Own => z.on # f
    BY <1>6 DEF Orderly, OnePerFiling
  <2>4. CASE x.op = "sweep" /\ c = db
    <3>1. holder = t => holder' = t
      BY <1>1, <1>6 DEF Released
    <3>. QED
      BY <2>1, <2>4, <3>1 DEF Course
  <2>5. CASE Light(x, db)
    <3>1. /\ \A e \in Filings : e # f => c[e] = db[e]
          /\ \A e \in Group(db) : Slight(e, c[e], db[e])
          /\ x.op \in Own /\ f \in Group(db)
      BY <1>1, <1>2, <2>5, LightCommits DEF Light, Mine
    <3>2. CASE Heavy(z, db) /\ holder = t
      <4>1. z.on \in Filings /\ z.on # f
        BY <2>2, <3>1, <3>2, BestGrouped DEF Heavy, Mine
      <4>2. \A e \in Filings \ Group(db) : c[e] = db[e]
        BY <3>1
      <4>3. Heavy(z, c)
        BY <1>1, <1>2, <2>1, <3>1, <3>2, <4>1, <4>2, DecidedStays
      <4>4. holder' = t
        BY <1>1, <1>6, <3>2 DEF Released
      <4>. QED
        BY <4>3, <4>4 DEF Course
    <3>3. CASE ~Heavy(z, db) \/ ~(holder = t)
      <4>1. z.op \in Own => z.on \in Filings
        BY <2>1 DEF Orderly, Shape, Fit, Own
      <4>2. z.op \in Own => c[z.on] = db[z.on]
        BY <2>2, <3>1, <4>1
      <4>3. z.op \in Own => /\ SameFiling(db[z.on], c[z.on]) /\ Follows(db[z.on], c[z.on])
                            /\ z.on \in z.rows => c[z.on] = db[z.on]
        BY <4>2 DEF SameFiling, Follows
      <4>. QED
        BY <1>1, <1>2, <2>1, <3>3, <4>3, QuietStays
    <3>. QED
      BY <3>2, <3>3
  <2>6. CASE Heavy(x, db) /\ holder = s
    <3>1. /\ \A e \in Filings : e # f => /\ SameFiling(db[e], c[e]) /\ Follows(db[e], c[e])
                                         /\ x.view[e] = x.orig[e] => c[e] = db[e]
          /\ x.op \in Own /\ x.read = Filings
      BY <1>1, <1>2, <2>6, HeavyCommits DEF Heavy, Mine
    <3>2. ~(holder = t)
      BY <1>6, <2>6
    <3>3. z.op \in Own => z.on \in Filings /\ z.on # f
      BY <2>1, <2>2, <3>1 DEF Orderly, Shape, Fit, Own
    <3>4. z.op \in Own /\ z.on \in z.rows => x.view[z.on] = x.orig[z.on]
      <4>1. z.rows \subseteq LockedByOthers(s)
        BY <1>6 DEF LockedByOthers
      <4>. QED
        BY <1>1, <3>1, <3>3, <4>1 DEF Changed
    <3>5. z.op \in Own => /\ SameFiling(db[z.on], c[z.on]) /\ Follows(db[z.on], c[z.on])
                          /\ z.on \in z.rows => c[z.on] = db[z.on]
      BY <3>1, <3>3, <3>4
    <3>. QED
      BY <1>1, <1>2, <2>1, <3>2, <3>5, QuietStays
  <2>. QED
    BY <1>2, <2>4, <2>5, <2>6
<1>. HIDE DEF y
<1>. QED
  BY <1>1, <1>4, <1>5, <1>6, Moves

LEMMA AbortsOrderly ==
    ASSUME Orderly, Shape', NEW s \in Sessions, AbortDeadlocked(s)
    PROVE  Orderly'
<1>1. ses' = [ses EXCEPT ![s] = Idle] /\ holder' = Released(s) /\ db' = db
  BY DEF AbortDeadlocked
<1>2. ASSUME NEW t \in Sessions, t # s PROVE Course(ses[t], db', holder' = t)
  <2>1. holder = t => holder' = t
    BY <1>1, <1>2 DEF Released
  <2>. QED
    BY <1>1, <2>1, OrderlyFacts DEF Course
<1>. QED
  BY <1>1, <1>2, OrderlyFacts, IdleCourse, Moves

LEMMA OrderlyKept == ASSUME Parses, Orderly, [Next]_vars PROVE Orderly'
<1>1. Shape'
  BY ShapeKept DEF Orderly
<1>2. CASE UNCHANGED vars
  BY <1>1, <1>2 DEF vars, Orderly, OnePerFiling
<1>3. CASE Next
  <2>1. PICK s \in Sessions :
          \/ Ingest(s)
          \/ ParseOk(s) \/ ParseFails(s) \/ ParseQuarantined(s)
          \/ EndLoop(s) \/ LoopRollsBack(s)
          \/ GatePasses(s) \/ GateFails(s)
          \/ \E f \in filed : \E d \in Orders[f] : Resolve(s, f, d)
          \/ \E first \in BOOLEAN : Sweep(s, first)
          \/ TakeLock(s)
          \/ Commit(s)
          \/ AbortDeadlocked(s)
    BY <1>3 DEF Next
  <2>2. filed \subseteq Filings
    BY AuthorityAssumption DEF Orderly, Shape, TypeOK
  <2>3. ses[s].at # "looping"
    BY OrderlyFacts DEF Course, Idle, Parsing, Gated, Light, Asking, Heavy, Sweeping
  <2>4. ~EndLoop(s) /\ ~LoopRollsBack(s) /\ \A f : ~ParseNext(s, f)
    BY <2>3 DEF EndLoop, LoopRollsBack, ParseNext
  <2>5. Ingest(s) => \E f \in Filings : \E op : StartParse(s, op, f)
    BY <2>2, <2>4 DEF Ingest, Parses, Discover, Detail, Backfill, Bulk, PassOver
  <2>6. ~\E f \in filed : \E d \in Orders[f] : Resolve(s, f, d)
    BY DEF Parses, Resolve
  <2>7. TakeLock(s) => Sweeping(ses[s], db) \/ Asking(ses[s], db)
    BY OrderlyFacts DEF TakeLock, Course, Idle, Parsing, Gated, Light, Heavy
  <2>. QED
    BY <1>1, <2>1, <2>4, <2>5, <2>6, <2>7, ParseStarts, ParsesEnd, GatesOrderly,
       SweepsOrderly, SweepDecides, ClaimDecides, CommitsOrderly, AbortsOrderly
<1>. QED
  BY <1>2, <1>3

\* A quarter whose documents have been read, and nothing more, is right.
LEMMA RoutedRow ==
    ASSUME NEW f \in Filings, NEW a \in Nat \ {0}
    PROVE  LET r == Routed(f, a) IN
           r \in Row /\ r.where = "group" /\ r.acc = a /\ EvenRow(f, r)
<1>. DEFINE p == IF Form[f] \in NTForms THEN "succeeded" ELSE "pending"
            n == Accepted(NoRow, a)
            d == Stated(f, NoRow, a, "routed")
            r == Routed(f, a)
<1>1. /\ n \in Row /\ n.active = FALSE /\ n.status = "no_amendments_seen"
      /\ n.warn = FALSE /\ n.acc = a /\ n.run = FALSE
  BY DEF Accepted, NoRow, Row, Statuses
<1>2. /\ d \in Row /\ d.where = "group" /\ d.active = FALSE /\ d.status = "no_amendments_seen"
      /\ d.warn = FALSE /\ d.parse = p /\ d.acc = a /\ d.run = FALSE
  <2>1. d = [n EXCEPT !.where = "group", !.parse = p]
    <3>1. QuarterOf("routed") = "group" /\ ParseOf(f, "routed") = p
      BY DEF QuarterOf, ParseOf
    <3>. HIDE DEF n, p
    <3>. QED
      BY <3>1 DEF Stated, n
  <2>2. p \in {"pending", "succeeded"}
    OBVIOUS
  <2>. HIDE DEF n, d, p
  <2>. QED
    BY <1>1, <2>1, <2>2 DEF Row
<1>3. /\ r.where = "group" /\ r.active = FALSE /\ r.warn = FALSE /\ r.parse = p /\ r.acc = a
      /\ r.run = FALSE
      /\ r.status = IF f \notin Amendments THEN "no_amendments_seen"
                    ELSE IF Form[f] \in NTForms THEN "applied"
                    ELSE IF f \in Restatements THEN "pending_parse" ELSE "amendments_pending"
      /\ r \in Row
  <2>. DEFINE u == IF Form[f] \in NTForms THEN "applied"
                   ELSE IF f \in Restatements THEN "pending_parse" ELSE "amendments_pending"
  <2>1. r = IF f \notin Amendments THEN d ELSE [d EXCEPT !.active = FALSE, !.status = u]
    <3>1. r = Normalized(f, d)
      BY DEF Routed
    <3>. HIDE DEF d, r
    <3>. QED
      BY <1>2, <3>1 DEF Normalized, Terminal, Parked
  <2>2. u \in Statuses
    BY DEF Statuses, Terminal
  <2>. HIDE DEF u, d, r, p
  <2>3. CASE f \notin Amendments
    BY <1>2, <2>1, <2>3
  <2>4. CASE f \in Amendments
    <3>1. /\ r.where = "group" /\ r.active = FALSE /\ r.warn = FALSE /\ r.parse = p /\ r.acc = a
          /\ r.run = FALSE /\ r.status = u /\ r \in Row
      BY <1>2, <2>1, <2>2, <2>4 DEF Row
    <3>. QED
      BY <2>4, <3>1 DEF u
  <2>. QED
    BY <2>3, <2>4
<1>5. EvenRow(f, r)
  <2>. HIDE DEF r
  <2>. QED
    BY <1>3, Kinds DEF EvenRow, HRForms, NTForms
<1>. QED
  BY <1>3, <1>5

LEMMA OrderlyAtFirst == ASSUME RoutedInit PROVE Orderly
<1>1. filed \in Quarters /\ filed \subseteq Filings /\ AccTimes \in [Filings -> SUBSET Nat]
  BY AuthorityAssumption DEF RoutedInit
<1>2. PICK t \in [filed -> UNION {AccTimes[f] : f \in filed}] :
         /\ \A f \in filed : t[f] \in AccTimes[f] \ {0}
         /\ \A e, f \in filed : e # f => t[e] # t[f]
         /\ db = Policy([f \in Filings |-> IF f \in filed THEN Routed(f, t[f]) ELSE NoRow])
  BY DEF RoutedInit
<1>. DEFINE g == [f \in Filings |-> IF f \in filed THEN Routed(f, t[f]) ELSE NoRow]
<1>3. \A f \in filed : LET r == Routed(f, t[f]) IN
         r \in Row /\ r.where = "group" /\ r.acc = t[f] /\ EvenRow(f, r) /\ t[f] # 0
  <2>. TAKE f \in filed
  <2>1. f \in Filings /\ t[f] \in Nat \ {0}
    BY <1>1, <1>2
  <2>. QED
    BY <2>1, RoutedRow
<1>4. g \in Table
  BY <1>3, IdleFits DEF Table
<1>5. Group(g) = filed
  BY <1>1, <1>3 DEF Group, NoRow
<1>6. Even(g)
  <2>1. \A f \in Filings : g[f] = IF f \in filed THEN Routed(f, t[f]) ELSE NoRow
    OBVIOUS
  <2>2. /\ \A f \in filed : g[f].acc = t[f] /\ EvenRow(f, g[f]) /\ t[f] # 0
        /\ \A f \in Filings \ filed : g[f] = NoRow
    BY <1>1, <1>3, <2>1
  <2>. HIDE DEF g
  <2>. QED
    BY <1>2, <1>5, <2>2 DEF Even
<1>7. db = Policy(g)
  BY <1>2
<1>. HIDE DEF g
<1>8. Right(db) /\ db \in Table
  BY <1>4, <1>6, <1>7, EvenDecides, PolicyTypes
<1>9. ses = [s \in Sessions |-> Idle] /\ holder = NoSession
  BY DEF RoutedInit
<1>10. Shape
  BY <1>1, <1>8, <1>9, IdleFits DEF Shape, TypeOK, Fit
<1>. QED
  BY <1>8, <1>9, <1>10, IdleCourse DEF Orderly, OnePerFiling

LEMMA OrderlyAlways == ASSUME Parses PROVE RoutedSpec => []Orderly
<1>1. RoutedInit => Orderly
  BY OrderlyAtFirst
<1>2. Orderly /\ [Next]_vars => Orderly'
  BY OrderlyKept
<1>. QED
  BY <1>1, <1>2, PTL DEF RoutedSpec

\* However many sessions parse, re-parse, gate and sweep a quarter whose documents
\* have been read, and in whatever order their transactions read, wait for the lock
\* and commit, none of them runs into the unique index on the serving filing: as long
\* as none of them parses several filings in one transaction, as the bulk loop does
\* when it has passed over one.
THEOREM TheIndexNeverFires ==
    ASSUME Ops \subseteq {"parse", "controlled", "sweep"}
    PROVE  RoutedSpec => []IndexNeverFires
<1>1. Orderly => IndexNeverFires
  BY ClosingIsRight DEF IndexNeverFires
<1>2. Parses
  BY DEF Parses
<1>. QED
  BY <1>1, <1>2, OrderlyAlways, PTL

\* Who is ahead of an undisputed quarter.
LEMMA BestTier ==
    ASSUME Undisputed
    PROVE  \A f \in Group(db) : f \in Best(db) <=> /\ Tier(f) > 0
                                                   /\ \A e \in Group(db) : Tier(e) <= Tier(f)
<1>1. \A f \in Group(db) : /\ f \in Competing(db) <=> Tier(f) = 4
                           /\ f \in Plain(db, "13F-HR") <=> Tier(f) = 3
                           /\ f \in Plain(db, "13F-NT/A") <=> Tier(f) = 2
                           /\ f \in Plain(db, "13F-NT") <=> Tier(f) = 1
                           /\ Tier(f) \in 0..4
  <2>. TAKE f \in Group(db)
  <2>1. /\ f \in Filings /\ Form[f] \in {"13F-HR", "13F-NT", "13F-NT/A", "13F-HR/A"}
        /\ f \in Restatements /\ Form[f] \in HRForms => Form[f] = "13F-HR/A"
    BY Kinds, BestGrouped
  <2>2. db[f].parse = "succeeded" /\ db[f].status \notin Parked
    BY DEF Undisputed
  <2>. QED
    BY <2>1, <2>2 DEF Competing, Plain, Tier, HRForms
<1>2. /\ Competing(db) \subseteq Group(db)
      /\ \A form : Plain(db, form) \subseteq Group(db)
  BY DEF Competing, Plain
<1>3. CASE \E e \in Group(db) : Tier(e) = 4
  BY <1>1, <1>2, <1>3 DEF Best
<1>4. CASE (\E e \in Group(db) : Tier(e) = 3) /\ ~\E e \in Group(db) : Tier(e) = 4
  BY <1>1, <1>2, <1>4 DEF Best
<1>5. CASE (\E e \in Group(db) : Tier(e) = 2) /\ ~\E e \in Group(db) : Tier(e) \in {3, 4}
  BY <1>1, <1>2, <1>5 DEF Best
<1>6. CASE ~\E e \in Group(db) : Tier(e) \in {2, 3, 4}
  BY <1>1, <1>2, <1>6 DEF Best
<1>. QED
  BY <1>3, <1>4, <1>5, <1>6

\* ... and whenever nothing about the quarter is disputed, the rightful filing
\* serves it, whatever was parsed first and whoever decided last.
THEOREM TheLatestServes ==
    ASSUME Ops \subseteq {"parse", "controlled", "sweep"}
    PROVE  RoutedSpec => []LatestServes
<1>1. ASSUME Orderly, Undisputed, NEW f \in filed PROVE db[f].active <=> Rightful(f)
  <2>1. filed = Group(db) /\ \A e \in Group(db) : db[e].acc \in Nat
    BY <1>1, OrderlyFacts, TableRows DEF Undisputed, Orderly, Shape, TypeOK
  <2>2. \A e \in Group(db) : e # f => db[e].acc # db[f].acc
    BY <1>1, <2>1 DEF Undisputed
  <2>3. db[f].active <=> f \in Best(db) /\ \A e \in Best(db) : db[e].acc <= db[f].acc
    BY <1>1, <2>1 DEF Orderly, Right, Latest
  <2>4. \A e \in Group(db) : Tier(e) \in 0..4
    BY DEF Tier
  <2>5. Best(db) \subseteq Group(db)
    BY BestGrouped
  <2>6. ASSUME f \in Best(db), \A e \in Best(db) : db[e].acc <= db[f].acc PROVE Rightful(f)
    <3>1. Tier(f) > 0 /\ \A e \in Group(db) : Tier(e) <= Tier(f)
      BY <1>1, <2>1, <2>6, BestTier
    <3>2. ASSUME NEW e \in Group(db), e # f, Tier(e) = Tier(f) PROVE db[e].acc < db[f].acc
      <4>1. e \in Best(db)
        BY <1>1, <3>1, <3>2, BestTier
      <4>. QED
        BY <1>1, <2>1, <2>2, <2>6, <3>2, <4>1
    <3>. QED
      BY <1>1, <2>1, <2>4, <3>1, <3>2 DEF Rightful
  <2>7. ASSUME Rightful(f) PROVE f \in Best(db) /\ \A e \in Best(db) : db[e].acc <= db[f].acc
    <3>1. /\ Tier(f) > 0
          /\ \A e \in Group(db) : e = f \/ Tier(e) < Tier(f)
                                  \/ (Tier(e) = Tier(f) /\ db[e].acc < db[f].acc)
      BY <2>1, <2>7 DEF Rightful
    <3>2. f \in Best(db)
      BY <1>1, <2>1, <2>4, <3>1, BestTier
    <3>3. ASSUME NEW e \in Best(db) PROVE db[e].acc <= db[f].acc
      <4>1. Tier(f) <= Tier(e)
        BY <1>1, <2>1, <2>5, BestTier
      <4>. QED
        BY <1>1, <2>1, <2>4, <2>5, <3>1, <4>1
    <3>. QED
      BY <3>2, <3>3
  <2>. QED
    BY <2>3, <2>6, <2>7
<1>2. Orderly => LatestServes
  BY <1>1 DEF LatestServes
<1>3. Parses
  BY DEF Parses
<1>. QED
  BY <1>2, <1>3, OrderlyAlways, PTL
=============================================================================
