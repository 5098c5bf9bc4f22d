------------------------- MODULE StockFactsProofs -------------------------
(***************************************************************************)
(* Proofs about StockFacts, for any number of documents, sessions, facts   *)
(* and values, processes, operations and filings, and any time.            *)
(*                                                                         *)
(* ParsedFacts: the types, and that what is current is the latest report   *)
(* with all it disagrees about, and the calculated fact rests on it.       *)
(* SecLineage: the types, that what is available rests on what was         *)
(* available before, and that what is answered about a time never changes, *)
(* by refinement of PointInTime. Both share the lock of the stock, and     *)
(* what is proved of each alone holds of both together, because neither    *)
(* ever gives or takes the lock in the other's name.                       *)
(***************************************************************************)
EXTENDS StockFacts, FiniteSetTheorems, SequenceTheorems, TLAPS

UnderLock == {"writing", "retiring"}
ParseOps == {"upload", "reparse"}
ParseStages == {"reading", "parsed", "writing"}

\* A session holds the lock of the stock when it is at a step under it, and only then.
Held == \A s \in Users : tx[s].at \in UnderLock <=> holder = s

\* A parse is about one document, and whoever writes has read all the facts there are.
StageOK(x) ==
    /\ x.op \in ParseOps <=> x.at \in ParseStages
    /\ x.op \in ParseOps => \E d \in Docs : x.on = {d}
    /\ x.at \in {"parsed", "writing"} => x.val \in Values
    /\ x.at = "writing" => x.seen = facts

Stages == \A s \in Users : StageOK(tx[s])

\* Every parse under way may append its fact.
Parsing == {s \in Users : tx[s].op \in ParseOps}
RoomLeft == Len(facts) + Cardinality(Parsing) <= MaxFacts

\* A report identity is given once.
Numbered ==
    /\ \A i \in DOMAIN facts : facts[i].rev <= docs[facts[i].doc].rev
    /\ \A i, j \in DOMAIN facts :
          facts[i].doc = facts[j].doc /\ facts[i].rev = facts[j].rev => i = j

FactsInv ==
    /\ FactsTypeOK /\ Held /\ Stages /\ RoomLeft /\ Numbered
    /\ CurrentIsLatest /\ DisagreementShown /\ CalculatedRests

\* What another process of the stock may do.
ElsewhereStep == UNCHANGED factVars /\ \A s \in Users : holder = s <=> holder' = s

-----------------------------------------------------------------------------
LEMMA IdleOK == Idle \in Transaction /\ Idle.at = "idle" /\ Idle.op = "none"
BY DEF Idle, Transaction

LEMMA FactsInitially == FactsInit /\ holder = Nobody => FactsInv
<1>. SUFFICES ASSUME FactsInit, holder = Nobody PROVE FactsInv
  OBVIOUS
<1>. USE FactsAssumption DEF FactsAssumption
<1>0. /\ facts = <<>> /\ calc = {} /\ docs = [d \in Docs |-> Absent]
      /\ tx = [s \in Users |-> Idle] /\ Len(facts) = 0 /\ DOMAIN facts = {}
  BY DEF FactsInit
<1>1. Current(facts) = {} /\ Latest(facts) = {}
  BY <1>0 DEF Current, Latest
<1>2. \A s \in Users : tx[s].at = "idle" /\ tx[s].op = "none"
  BY <1>0, IdleOK
<1>3. FactsTypeOK
  <2>1. docs \in [Docs -> Document]
    BY <1>0 DEF Absent, Document
  <2>2. facts \in Seq(Fact) /\ Len(facts) <= MaxFacts /\ calc \subseteq DOMAIN facts
    BY <1>0
  <2>3. tx \in [Users -> Transaction]
    BY <1>0, IdleOK
  <2>. QED
    BY <2>1, <2>2, <2>3 DEF FactsTypeOK
<1>4. Held /\ Stages
  BY <1>2 DEF Held, Stages, StageOK, UnderLock, ParseOps, ParseStages
<1>5. RoomLeft
  <2>1. Parsing = {}
    BY <1>2 DEF Parsing, ParseOps
  <2>. QED
    BY <1>0, <2>1, FS_EmptySet DEF RoomLeft
<1>6. Numbered
  BY <1>0 DEF Numbered
<1>7. CurrentIsLatest /\ DisagreementShown
  BY <1>1 DEF CurrentIsLatest, DisagreementShown
<1>8. CalculatedRests
  BY <1>0, <1>1, FS_EmptySet DEF CalculatedRests
<1>. QED
  BY <1>3, <1>4, <1>5, <1>6, <1>7, <1>8 DEF FactsInv

LEMMA ElsewhereKeeps == FactsInv /\ ElsewhereStep => FactsInv'
<1>. SUFFICES ASSUME FactsInv, ElsewhereStep PROVE FactsInv'
  OBVIOUS
<1>. USE DEF FactsInv
<1>1. UNCHANGED <<docs, facts, calc, tx>> /\ \A s \in Users : holder = s <=> holder' = s
  BY DEF ElsewhereStep, factVars
<1>2. FactsTypeOK'
  BY <1>1 DEF FactsTypeOK
<1>3. Held'
  BY <1>1 DEF Held
<1>4. Stages' /\ RoomLeft' /\ Numbered'
  BY <1>1 DEF Stages, StageOK, RoomLeft, Parsing, Numbered
<1>5. CurrentIsLatest' /\ DisagreementShown' /\ CalculatedRests'
  BY <1>1 DEF CurrentIsLatest, DisagreementShown, CalculatedRests, Current, Latest
<1>. QED
  BY <1>2, <1>3, <1>4, <1>5

-----------------------------------------------------------------------------
(* Steps that leave the facts alone.                                        *)

\* s goes on as x.
GoesOn(s, x) ==
    /\ tx' = [tx EXCEPT ![s] = x]
    /\ x.at \in UnderLock <=> holder' = s
    /\ \A u \in Users \ {s} : holder = u <=> holder' = u

\* The documents keep their report identities, and what is retired stays so.
DocsGrow ==
    /\ docs' \in [Docs -> Document]
    /\ \A d \in Docs : docs[d].rev <= docs'[d].rev /\ (docs[d].retired => docs'[d].retired)

LEMMA RoomKept ==
    ASSUME FactsInv, NEW s \in Users, NEW x, tx' = [tx EXCEPT ![s] = x],
           UNCHANGED facts, x.op \in ParseOps => Room \/ tx[s].op \in ParseOps
    PROVE  RoomLeft'
<1>1. IsFiniteSet(Users)
  BY FactsAssumption DEF FactsAssumption
<1>2. Parsing \subseteq Users /\ IsFiniteSet(Parsing) /\ Cardinality(Parsing) \in Nat
  BY <1>1, FS_Subset, FS_CardinalityType DEF Parsing
<1>3. Len(facts) \in Nat /\ MaxFacts \in Nat /\ tx \in [Users -> Transaction]
  BY FactsAssumption DEF FactsInv, FactsTypeOK, FactsAssumption
<1>4. CASE x.op \in ParseOps /\ tx[s].op \notin ParseOps
  <2>1. Parsing' = Parsing \cup {s}
    BY <1>3, <1>4 DEF Parsing
  <2>0. Cardinality(Parsing \cup {s}) \in {Cardinality(Parsing), Cardinality(Parsing) + 1}
    BY <1>2, FS_AddElement
  <2>2. Cardinality(Parsing') <= Cardinality(Parsing) + 1
    BY <1>2, <2>0, <2>1
  <2>3. Len(facts) + Cardinality(Parsing) < MaxFacts
    BY <1>4 DEF Room, Parsing, ParseOps
  <2>4. Cardinality(Parsing') \in Nat
    BY <1>2, <2>1, FS_AddElement, FS_CardinalityType
  <2>. QED
    BY <1>2, <1>3, <2>2, <2>3, <2>4 DEF RoomLeft
<1>5. CASE x.op \in ParseOps => tx[s].op \in ParseOps
  <2>1. Parsing' \subseteq Parsing
    BY <1>3, <1>5 DEF Parsing
  <2>2. Cardinality(Parsing') <= Cardinality(Parsing) /\ Cardinality(Parsing') \in Nat
    BY <1>2, <2>1, FS_Subset, FS_CardinalityType
  <2>. QED
    BY <1>2, <1>3, <2>2 DEF RoomLeft, FactsInv
<1>. QED
  BY <1>4, <1>5

LEMMA HeldKept ==
    ASSUME FactsInv, NEW s \in Users, NEW x \in Transaction, GoesOn(s, x)
    PROVE  Held' /\ tx' \in [Users -> Transaction]
           /\ (holder' \in Users => tx'[holder'].at \in UnderLock)
<1>1. tx \in [Users -> Transaction]
  BY DEF FactsInv, FactsTypeOK
<1>2. tx' \in [Users -> Transaction] /\ tx'[s] = x /\ \A u \in Users \ {s} : tx'[u] = tx[u]
  BY <1>1 DEF GoesOn
<1>3. Held'
  BY <1>2 DEF GoesOn, Held, FactsInv
<1>. QED
  BY <1>2, <1>3 DEF Held

LEMMA StagesKept ==
    ASSUME FactsInv, NEW s \in Users, NEW x, GoesOn(s, x), StageOK(x)', UNCHANGED facts
    PROVE  Stages'
<1>1. tx \in [Users -> Transaction]
  BY DEF FactsInv, FactsTypeOK
<1>2. tx'[s] = x /\ \A u \in Users \ {s} : tx'[u] = tx[u]
  BY <1>1 DEF GoesOn
<1>. QED
  BY <1>2 DEF FactsInv, Stages, StageOK

LEMMA LeavesFacts ==
    ASSUME FactsInv, NEW s \in Users, NEW x \in Transaction, GoesOn(s, x), StageOK(x),
           x.op \in ParseOps => Room \/ tx[s].op \in ParseOps,
           DocsGrow, UNCHANGED <<facts, calc>>
    PROVE  FactsInv'
<1>. USE DEF FactsInv
<1>1. UNCHANGED facts /\ UNCHANGED calc /\ DOMAIN facts' = DOMAIN facts
  OBVIOUS
<1>2. FactsTypeOK'
  BY <1>1, HeldKept DEF FactsTypeOK, UnderLock, DocsGrow
<1>3. Held'
  BY HeldKept
<1>4. Stages'
  <2>1. StageOK(x)'
    BY <1>1 DEF StageOK
  <2>. QED
    BY <1>1, <2>1, StagesKept
<1>5. RoomLeft'
  BY <1>1, RoomKept DEF GoesOn
<1>6. \A i \in DOMAIN facts : facts[i].doc \in Docs /\ facts[i].rev \in Nat
  <2>1. \A i \in DOMAIN facts : facts[i] \in Fact
    BY ElementOfSeq DEF FactsTypeOK
  <2>. QED
    BY <2>1 DEF Fact
<1>7. Numbered'
  <2>1. \A d \in Docs : docs[d].rev \in Nat /\ docs'[d].rev \in Nat
    BY DEF DocsGrow, FactsTypeOK, Document
  <2>. QED
    BY <1>1, <1>6, <2>1 DEF Numbered, DocsGrow
<1>8. DisagreementShown'
  BY <1>1, <1>6 DEF DisagreementShown, Current, Latest, DocsGrow
<1>9. CurrentIsLatest' /\ CalculatedRests'
  BY <1>1 DEF CurrentIsLatest, CalculatedRests, Current, Latest
<1>. QED
  BY <1>2, <1>3, <1>4, <1>5, <1>7, <1>8, <1>9

LEMMA WithoutLock ==
    ASSUME FactsInv, NEW s \in Users, tx[s].at \notin UnderLock, UNCHANGED holder
    PROVE  holder' # s /\ \A u \in Users \ {s} : holder = u <=> holder' = u
BY DEF FactsInv, Held

LEMMA TakesLock ==
    ASSUME NEW s \in Users, Takes(s)
    PROVE  holder' = s /\ \A u \in Users \ {s} : holder = u <=> holder' = u
BY FactsAssumption DEF Takes, FactsAssumption

LEMMA EndGoesOn ==
    ASSUME NEW s \in Users, Ends(s)
    PROVE  GoesOn(s, Idle)
<1>1. holder' # s /\ \A u \in Users \ {s} : holder = u <=> holder' = u
  BY FactsAssumption DEF Ends, Releases, FactsAssumption
<1>. QED
  BY <1>1, IdleOK DEF Ends, GoesOn, UnderLock

LEMMA EndKeeps ==
    ASSUME FactsInv, NEW s \in Users, Ends(s), DocsGrow, UNCHANGED <<facts, calc>>
    PROVE  FactsInv'
<1>1. StageOK(Idle) /\ Idle \in Transaction /\ Idle.op \notin ParseOps
  BY IdleOK DEF StageOK, ParseOps, ParseStages
<1>. QED
  BY <1>1, EndGoesOn, LeavesFacts

LEMMA SameDocs == FactsInv /\ UNCHANGED docs => DocsGrow
<1>. SUFFICES ASSUME FactsInv, UNCHANGED docs PROVE DocsGrow
  OBVIOUS
<1>1. docs \in [Docs -> Document] /\ \A d \in Docs : docs[d].rev \in Nat
  BY DEF FactsInv, FactsTypeOK, Document
<1>. QED
  BY <1>1 DEF DocsGrow

LEMMA ParseState ==
    ASSUME FactsInv, NEW d \in Docs, NEW p \in {"failed", "parsing"},
           docs' = [docs EXCEPT ![d].parse = p]
    PROVE  DocsGrow
<1>1. docs \in [Docs -> Document] /\ \A e \in Docs : docs[e].rev \in Nat
  BY DEF FactsInv, FactsTypeOK, Document
<1>2. docs' \in [Docs -> Document]
  BY <1>1 DEF Document
<1>3. \A e \in Docs : docs'[e].rev = docs[e].rev /\ docs'[e].retired = docs[e].retired
  BY <1>1 DEF Document
<1>. QED
  BY <1>1, <1>2, <1>3 DEF DocsGrow

LEMMA RetireGrows == ASSUME FactsInv, NEW D, docs' = RetiredDocs(D) PROVE DocsGrow
<1>1. docs \in [Docs -> Document] /\ \A e \in Docs : docs[e].rev \in Nat /\ docs[e].retired \in BOOLEAN
  BY DEF FactsInv, FactsTypeOK, Document
<1>2. \A d \in Docs : [docs[d] EXCEPT !.retired = @ \/ d \in D] \in Document
  BY <1>1 DEF Document
<1>3. docs' \in [Docs -> Document]
  BY <1>2 DEF RetiredDocs
<1>4. \A d \in Docs : docs'[d].rev = docs[d].rev /\ (docs[d].retired => docs'[d].retired)
  BY <1>1 DEF Document, RetiredDocs
<1>. QED
  BY <1>1, <1>3, <1>4 DEF DocsGrow

LEMMA OneDoc ==
    ASSUME FactsInv, NEW s \in Users, tx[s].op \in ParseOps
    PROVE  DocOf(s) \in Docs /\ tx[s].on = {DocOf(s)}
BY DEF FactsInv, Stages, StageOK, DocOf

LEMMA FailKeeps == ASSUME FactsInv, NEW s \in Users, FailsParse(s) PROVE FactsInv'
<1>1. CASE tx[s].op = "upload"
  <2>1. DocsGrow
    BY <1>1, OneDoc, ParseState DEF FailsParse, ParseOps
  <2>. QED
    BY <2>1, EndKeeps DEF FailsParse
<1>2. CASE tx[s].op # "upload"
  <2>1. DocsGrow
    BY <1>2, SameDocs DEF FailsParse
  <2>. QED
    BY <2>1, EndKeeps DEF FailsParse
<1>. QED
  BY <1>1, <1>2

-----------------------------------------------------------------------------
(* The actions that leave the facts alone.                                  *)

LEMMA Begun ==
    ASSUME NEW d \in Docs, NEW o \in ParseOps
    PROVE  /\ [Idle EXCEPT !.op = o, !.at = "reading", !.on = {d}] \in Transaction
           /\ StageOK([Idle EXCEPT !.op = o, !.at = "reading", !.on = {d}])
           /\ [Idle EXCEPT !.op = o, !.at = "reading", !.on = {d}].at = "reading"
BY IdleOK DEF Transaction, StageOK, ParseOps, ParseStages

LEMMA BeginKeeps ==
    ASSUME FactsInv, NEW s \in Users, NEW d \in Docs, NEW o \in ParseOps,
           tx' = [tx EXCEPT ![s] = [Idle EXCEPT !.op = o, !.at = "reading", !.on = {d}]],
           tx[s].at = "idle", Room, DocsGrow, UNCHANGED <<facts, calc, holder>>
    PROVE  FactsInv'
<1>. DEFINE x == [Idle EXCEPT !.op = o, !.at = "reading", !.on = {d}]
<1>1. x \in Transaction /\ StageOK(x) /\ x.at = "reading" /\ tx' = [tx EXCEPT ![s] = x]
  BY Begun
<1>. HIDE DEF x
<1>2. GoesOn(s, x)
  BY <1>1, WithoutLock DEF GoesOn, UnderLock
<1>. QED
  BY <1>1, <1>2, LeavesFacts

LEMMA UploadKeeps == ASSUME FactsInv, NEW s \in Users, NEW d \in Docs, Upload(s, d) PROVE FactsInv'
<1>1. DocsGrow
  BY ParseState DEF Upload
<1>. QED
  BY <1>1, BeginKeeps DEF Upload, ParseOps

LEMMA ReparseKeeps == ASSUME FactsInv, NEW s \in Users, NEW d \in Docs, Reparse(s, d) PROVE FactsInv'
<1>1. DocsGrow
  BY SameDocs DEF Reparse
<1>. QED
  BY <1>1, BeginKeeps DEF Reparse, ParseOps

LEMMA ParseKeeps ==
    ASSUME FactsInv, NEW s \in Users, NEW t, NEW v \in Values, Parse(s, t, v)
    PROVE  FactsInv'
<1>. DEFINE x == [tx[s] EXCEPT !.at = "parsed", !.own = tx[s].on, !.date = t, !.val = v]
<1>1. tx[s] \in Transaction /\ StageOK(tx[s]) /\ tx[s].at = "reading"
  BY DEF FactsInv, FactsTypeOK, Stages, Parse
<1>2. t \in Nat
  <2>1. DocOf(s) \in Docs
    BY <1>1, OneDoc DEF StageOK, ParseStages
  <2>. QED
    BY <2>1, FactsAssumption DEF Parse, FactsAssumption
<1>3. x \in Transaction
  BY <1>1, <1>2 DEF Transaction
<1>4. x.at = "parsed" /\ x.op = tx[s].op /\ x.on = tx[s].on /\ x.val = v
  BY <1>1 DEF Transaction
<1>5. tx' = [tx EXCEPT ![s] = x] /\ UNCHANGED <<docs, facts, calc, holder>>
  BY DEF Parse
<1>. HIDE DEF x
<1>6. StageOK(x) /\ tx[s].op \in ParseOps
  BY <1>1, <1>4 DEF StageOK, ParseStages
<1>7. GoesOn(s, x)
  BY <1>1, <1>4, <1>5, WithoutLock DEF GoesOn, UnderLock
<1>. QED
  BY <1>3, <1>5, <1>6, <1>7, SameDocs, LeavesFacts

LEMMA TakeToWriteKeeps == ASSUME FactsInv, NEW s \in Users, TakeToWrite(s) PROVE FactsInv'
<1>. DEFINE x == [tx[s] EXCEPT !.at = "writing", !.seen = facts]
<1>1. /\ tx[s] \in Transaction /\ StageOK(tx[s]) /\ tx[s].at = "parsed" /\ facts \in Seq(Fact)
      /\ tx \in [Users -> Transaction]
  BY DEF FactsInv, FactsTypeOK, Stages, TakeToWrite
<1>2. x \in Transaction
  BY <1>1 DEF Transaction
<1>3. x.at = "writing" /\ x.op = tx[s].op /\ x.on = tx[s].on /\ x.val = tx[s].val /\ x.seen = facts
  BY <1>1 DEF Transaction
<1>4. tx' = [tx EXCEPT ![s] = x] /\ UNCHANGED <<docs, facts, calc>> /\ Takes(s)
  BY <1>1 DEF TakeToWrite
<1>. HIDE DEF x
<1>5. StageOK(x) /\ tx[s].op \in ParseOps
  BY <1>1, <1>3 DEF StageOK, ParseStages
<1>6. GoesOn(s, x)
  BY <1>3, <1>4, TakesLock DEF GoesOn, UnderLock
<1>. QED
  BY <1>2, <1>4, <1>5, <1>6, SameDocs, LeavesFacts

LEMMA LockRowsKeeps ==
    ASSUME FactsInv, NEW s \in Users, NEW o \in {"retire", "dedupe"}, NEW D \in SUBSET Docs,
           tx[s].at \notin UnderLock, LockRows(s, o, D)
    PROVE  FactsInv'
<1>1. PICK i \in FirstRows(D) :
        tx' = [tx EXCEPT ![s] = [Idle EXCEPT !.op = o, !.at = "locked", !.on = D,
                                             !.own = D, !.row = {i}]]
  BY DEF LockRows
<1>. DEFINE x == [Idle EXCEPT !.op = o, !.at = "locked", !.on = D, !.own = D, !.row = {i}]
<1>2. i \in 0..MaxFacts
  <2>1. Len(facts) \in Nat /\ Len(facts) <= MaxFacts /\ DOMAIN facts = 1..Len(facts) /\ MaxFacts \in Nat
    BY FactsAssumption DEF FactsInv, FactsTypeOK, FactsAssumption
  <2>2. i \in DOMAIN facts \/ i = 0
    BY DEF FirstRows, Current, CalcRow
  <2>. QED
    BY <2>1, <2>2
<1>3. x \in Transaction /\ x.at = "locked" /\ x.op = o
  BY <1>2, IdleOK DEF Transaction
<1>4. tx' = [tx EXCEPT ![s] = x] /\ UNCHANGED <<docs, facts, calc, holder>>
  BY <1>1 DEF LockRows
<1>. HIDE DEF x
<1>5. StageOK(x) /\ x.op \notin ParseOps
  BY <1>3 DEF StageOK, ParseOps, ParseStages
<1>6. GoesOn(s, x)
  BY <1>3, <1>4, WithoutLock DEF GoesOn, UnderLock
<1>. QED
  BY <1>3, <1>4, <1>5, <1>6, SameDocs, LeavesFacts

LEMMA NothingKeeps ==
    ASSUME FactsInv, NEW s \in Users, NEW D, NothingToDemote(s, D)
    PROVE  FactsInv'
<1>1. DocsGrow
  BY RetireGrows, SameDocs DEF NothingToDemote
<1>. QED
  BY <1>1, EndKeeps DEF NothingToDemote

LEMMA DeduplicateKeeps == ASSUME FactsInv, NEW s \in Users, Deduplicate(s) PROVE FactsInv'
<1>. DEFINE x == [Idle EXCEPT !.op = "dedupe", !.at = "found", !.on = Duplicates]
<1>1. x \in Transaction /\ x.at = "found" /\ x.op = "dedupe"
  BY IdleOK DEF Transaction, Duplicates
<1>2. tx' = [tx EXCEPT ![s] = x] /\ tx[s].at = "idle" /\ UNCHANGED <<docs, facts, calc, holder>>
  BY DEF Deduplicate
<1>. HIDE DEF x
<1>3. StageOK(x) /\ x.op \notin ParseOps
  BY <1>1 DEF StageOK, ParseOps, ParseStages
<1>4. GoesOn(s, x)
  BY <1>1, <1>2, WithoutLock DEF GoesOn, UnderLock
<1>. QED
  BY <1>1, <1>2, <1>3, <1>4, SameDocs, LeavesFacts

LEMMA TakeToRetireKeeps == ASSUME FactsInv, NEW s \in Users, TakeToRetire(s) PROVE FactsInv'
<1>. DEFINE x == [tx[s] EXCEPT !.at = "retiring"]
<1>1. /\ tx[s] \in Transaction /\ StageOK(tx[s]) /\ tx[s].at = "locked"
      /\ tx \in [Users -> Transaction]
  BY DEF FactsInv, FactsTypeOK, Stages, TakeToRetire
<1>2. x \in Transaction /\ x.at = "retiring" /\ x.op = tx[s].op
  BY <1>1 DEF Transaction
<1>3. tx' = [tx EXCEPT ![s] = x] /\ UNCHANGED <<docs, facts, calc>> /\ Takes(s)
  BY <1>1 DEF TakeToRetire
<1>. HIDE DEF x
<1>4. StageOK(x) /\ x.op \notin ParseOps
  BY <1>1, <1>2 DEF StageOK, ParseStages
<1>5. GoesOn(s, x)
  BY <1>2, <1>3, TakesLock DEF GoesOn, UnderLock
<1>. QED
  BY <1>2, <1>3, <1>4, <1>5, SameDocs, LeavesFacts

-----------------------------------------------------------------------------
(* Retiring a document.                                                     *)

LEMMA SeqOf == ASSUME NEW S, NEW n \in Nat, NEW f \in [1..n -> S] PROVE f \in Seq(S) /\ Len(f) = n
OBVIOUS

\* A session that commits facts is alone under the lock.
LEMMA OthersWait ==
    ASSUME FactsInv, NEW s \in Users, tx[s].at \in UnderLock, Ends(s)
    PROVE  /\ Held' /\ tx' \in [Users -> Transaction]
           /\ (holder' \in Users => tx'[holder'].at \in UnderLock)
           /\ Stages'
           /\ tx'[s] = Idle /\ \A u \in Users \ {s} : tx'[u] = tx[u]
<1>1. GoesOn(s, Idle) /\ tx \in [Users -> Transaction] /\ Idle \in Transaction
  BY EndGoesOn, IdleOK DEF FactsInv, FactsTypeOK
<1>2. tx'[s] = Idle /\ \A u \in Users \ {s} : tx'[u] = tx[u]
  BY <1>1 DEF GoesOn
<1>3. holder = s /\ \A u \in Users \ {s} : tx[u].at # "writing"
  BY DEF FactsInv, Held, UnderLock
<1>4. Held' /\ tx' \in [Users -> Transaction] /\ (holder' \in Users => tx'[holder'].at \in UnderLock)
  BY <1>1, HeldKept
<1>5. Stages'
  BY <1>2, <1>3, IdleOK DEF FactsInv, Stages, StageOK, ParseOps, ParseStages
<1>. QED
  BY <1>2, <1>4, <1>5

LEMMA FactFields ==
    ASSUME FactsInv
    PROVE  /\ facts \in Seq(Fact) /\ Len(facts) \in Nat /\ DOMAIN facts = 1..Len(facts)
           /\ \A i \in DOMAIN facts : facts[i] \in Fact
           /\ Current(facts) \subseteq DOMAIN facts /\ IsFiniteSet(Current(facts))
<1>1. facts \in Seq(Fact) /\ Len(facts) \in Nat /\ DOMAIN facts = 1..Len(facts)
  BY DEF FactsInv, FactsTypeOK
<1>2. \A i \in DOMAIN facts : facts[i] \in Fact
  BY <1>1, ElementOfSeq
<1>3. Current(facts) \subseteq 1..Len(facts)
  BY <1>1 DEF Current
<1>4. IsFiniteSet(1..Len(facts))
  BY <1>1, FS_Interval
<1>5. IsFiniteSet(Current(facts))
  BY <1>3, <1>4, FS_Subset
<1>. QED
  BY <1>1, <1>2, <1>3, <1>5

LEMMA RetiredFacts ==
    ASSUME FactsInv, NEW s \in Users, facts' = Without(s)
    PROVE  /\ facts' \in Seq(Fact) /\ Len(facts') = Len(facts) /\ DOMAIN facts' = DOMAIN facts
           /\ \A i \in DOMAIN facts :
                /\ facts'[i].doc = facts[i].doc /\ facts'[i].rev = facts[i].rev
                /\ facts'[i].date = facts[i].date /\ facts'[i].val = facts[i].val
                /\ facts'[i].cur <=> facts[i].cur /\ facts[i].doc \notin tx[s].on
           /\ Latest(facts') = Latest(facts)
           /\ Current(facts') = {i \in Current(facts) : facts[i].doc \notin tx[s].on}
<1>. USE FactFields
<1>1. \A i \in DOMAIN facts : [facts[i] EXCEPT !.cur = @ /\ facts[i].doc \notin tx[s].on] \in Fact
  BY DEF Fact
<1>2. facts' \in [1..Len(facts) -> Fact]
  BY <1>1 DEF Without
<1>3. facts' \in Seq(Fact) /\ Len(facts') = Len(facts) /\ DOMAIN facts' = DOMAIN facts
  BY <1>2, SeqOf
<1>4. ASSUME NEW i \in DOMAIN facts
      PROVE  /\ facts'[i].doc = facts[i].doc /\ facts'[i].rev = facts[i].rev
             /\ facts'[i].date = facts[i].date /\ facts'[i].val = facts[i].val
             /\ facts'[i].cur <=> facts[i].cur /\ facts[i].doc \notin tx[s].on
  <2>1. facts'[i] = [facts[i] EXCEPT !.cur = @ /\ facts[i].doc \notin tx[s].on]
    BY DEF Without
  <2>. QED
    BY <2>1 DEF Fact
<1>5. Latest(facts') = Latest(facts)
  BY <1>3, <1>4 DEF Latest
<1>6. Current(facts') = {i \in Current(facts) : facts[i].doc \notin tx[s].on}
  BY <1>3, <1>4 DEF Current
<1>. QED
  BY <1>3, <1>4, <1>5, <1>6

LEMMA RetireKeeps == ASSUME FactsInv, NEW s \in Users, FinishRetire(s) PROVE FactsInv'
<1>. USE DEF FactsInv
<1>1. /\ tx[s].at = "retiring" /\ Cardinality(Current(facts')) <= 1 /\ facts' = Without(s)
      /\ calc' = Current(facts') /\ docs' = RetiredDocs(tx[s].on) /\ Ends(s)
  BY DEF FinishRetire, Recalculated
<1>2. DocsGrow
  BY <1>1, RetireGrows
<1>3. /\ Held' /\ Stages' /\ tx' \in [Users -> Transaction]
      /\ (holder' \in Users => tx'[holder'].at \in UnderLock)
      /\ tx'[s] = Idle /\ \A u \in Users \ {s} : tx'[u] = tx[u]
  BY <1>1, OthersWait DEF UnderLock
<1>4. FactsTypeOK'
  <2>1. calc' \subseteq DOMAIN facts'
    BY <1>1 DEF Current
  <2>. QED
    BY <1>1, <1>2, <1>3, <2>1, RetiredFacts DEF FactsTypeOK, DocsGrow, UnderLock
<1>5. RoomLeft'
  <2>1. Parsing \subseteq Users /\ IsFiniteSet(Parsing) /\ Cardinality(Parsing) \in Nat
    BY FactsAssumption, FS_Subset, FS_CardinalityType DEF Parsing, FactsAssumption
  <2>2. Parsing' \subseteq Parsing
    BY <1>3, IdleOK DEF Parsing, ParseOps
  <2>3. Cardinality(Parsing') <= Cardinality(Parsing) /\ Cardinality(Parsing') \in Nat
    BY <2>1, <2>2, FS_Subset, FS_CardinalityType
  <2>. QED
    BY <1>1, <2>1, <2>3, RetiredFacts, FactFields, FactsAssumption DEF RoomLeft, FactsAssumption
<1>6. Numbered'
  <2>1. \A d \in Docs : docs[d].rev \in Nat /\ docs'[d].rev \in Nat
    BY <1>2 DEF DocsGrow, FactsTypeOK, Document
  <2>2. \A i \in DOMAIN facts : facts[i].doc \in Docs /\ facts[i].rev \in Nat
    BY FactFields DEF Fact
  <2>3. DOMAIN facts' = DOMAIN facts
        /\ \A i \in DOMAIN facts : facts'[i].doc = facts[i].doc /\ facts'[i].rev = facts[i].rev
    BY <1>1, RetiredFacts
  <2>. QED
    BY <1>2, <2>1, <2>2, <2>3 DEF Numbered, DocsGrow
<1>7. CurrentIsLatest'
  <2>1. /\ Current(facts') \subseteq Current(facts) /\ Latest(facts') = Latest(facts)
        /\ \A i \in Current(facts) : facts'[i].val = facts[i].val
    BY <1>1, RetiredFacts, FactFields
  <2>. QED
    BY <2>1 DEF CurrentIsLatest
<1>8. DisagreementShown'
  <2>. SUFFICES ASSUME \A i \in Latest(facts') : ~docs'[facts'[i].doc].retired
                PROVE  {facts'[i].val : i \in Current(facts')} = {facts'[i].val : i \in Latest(facts')}
    BY DEF DisagreementShown
  <2>1. /\ Latest(facts') = Latest(facts) /\ DOMAIN facts' = DOMAIN facts
        /\ \A i \in DOMAIN facts : facts'[i].doc = facts[i].doc /\ facts'[i].val = facts[i].val
        /\ Current(facts') = {i \in Current(facts) : facts[i].doc \notin tx[s].on}
    BY <1>1, RetiredFacts
  <2>2. Latest(facts) \subseteq DOMAIN facts /\ Current(facts) \subseteq DOMAIN facts
    BY DEF Latest, Current
  <2>3. \A i \in Latest(facts) : facts[i].doc \in Docs
    BY <2>2, FactFields DEF Fact
  <2>4. \A i \in Latest(facts) : ~docs[facts[i].doc].retired /\ facts[i].doc \notin tx[s].on
    <3>1. docs \in [Docs -> Document]
      BY DEF FactsTypeOK
    <3>2. \A d \in Docs : docs'[d].retired <=> docs[d].retired \/ d \in tx[s].on
      BY <1>1, <3>1 DEF RetiredDocs, Document
    <3>. QED
      BY <2>1, <2>2, <2>3, <3>2
  <2>5. Current(facts') = Current(facts)
    BY <2>1, <2>4 DEF CurrentIsLatest
  <2>. QED
    BY <2>1, <2>2, <2>4, <2>5 DEF DisagreementShown
<1>9. CalculatedRests'
  <2>1. \A i \in calc' : \E j \in Current(facts') : facts'[j].val = facts'[i].val
    BY <1>1
  <2>. QED
    BY <1>1, <2>1 DEF CalculatedRests
<1>. QED
  BY <1>3, <1>4, <1>5, <1>6, <1>7, <1>8, <1>9

-----------------------------------------------------------------------------
(* Reconciling a slot.                                                      *)

\* What is left current is of the latest date, and no two of it agree.
LEMMA TargetsDiffer ==
    ASSUME NEW F \in Seq(Fact)
    PROVE  /\ Targets(F) \subseteq Latest(F) /\ Latest(F) \subseteq DOMAIN F
           /\ \A i, j \in Targets(F) : F[i].val = F[j].val => i = j
<1>1. DOMAIN F = 1..Len(F) /\ Len(F) \in Nat
  OBVIOUS
<1>2. Targets(F) \subseteq Winners(F) /\ Winners(F) \subseteq Latest(F) /\ Latest(F) \subseteq DOMAIN F
  BY DEF Targets, Winners, Latest
<1>3. ASSUME NEW i \in Targets(F), NEW j \in Targets(F), F[i].val = F[j].val
      PROVE  i = j
  <2>1. i \in Nat /\ j \in Nat /\ i \in Winners(F) /\ j \in Winners(F)
    BY <1>1, <1>2
  <2>2. IF F[i].cur = F[j].cur THEN j <= i ELSE F[i].cur
    BY <1>3, <2>1 DEF Targets
  <2>3. IF F[j].cur = F[i].cur THEN i <= j ELSE F[j].cur
    BY <1>3, <2>1 DEF Targets
  <2>4. F[i] \in Fact /\ F[j] \in Fact
    BY <1>1, <1>2, ElementOfSeq
  <2>5. F[i].cur \in BOOLEAN /\ F[j].cur \in BOOLEAN
    BY <2>4 DEF Fact
  <2>6. F[i].cur = F[j].cur
    BY <2>2, <2>3, <2>5
  <2>. QED
    BY <2>1, <2>2, <2>3, <2>6
<1>. QED
  BY <1>2, <1>3

\* The fact that s is about to append, and the slot with it.
NewFact(s) == [doc |-> DocOf(s), rev |-> NextRev(DocOf(s)), date |-> tx[s].date,
               val |-> tx[s].val, cur |-> TRUE]
Slot(s) == Append(facts, NewFact(s))

\* It is the only one of its report identity, so that nothing else is demoted for it.
LEMMA AppendedFacts ==
    ASSUME FactsInv, NEW s \in Users, tx[s].at = "writing"
    PROVE  /\ NewFact(s) \in Fact /\ DocOf(s) \in Docs /\ tx[s].seen = facts
           /\ Slot(s) \in Seq(Fact) /\ Len(Slot(s)) = Len(facts) + 1
           /\ \A i \in DOMAIN facts : Slot(s)[i] = facts[i]
           /\ Slot(s)[Len(facts) + 1] = NewFact(s)
           /\ \A i \in DOMAIN facts : ~(facts[i].doc = DocOf(s) /\ facts[i].rev = NextRev(DocOf(s)))
           /\ Appended(s) = Slot(s)
<1>. USE DEF FactsInv
<1>1. StageOK(tx[s]) /\ tx[s] \in Transaction
  BY DEF Stages, FactsTypeOK
<1>2. DocOf(s) \in Docs /\ tx[s].seen = facts /\ tx[s].val \in Values /\ tx[s].date \in Nat
  BY <1>1, OneDoc DEF StageOK, ParseStages, Transaction
<1>3. docs[DocOf(s)].rev \in Nat
  BY <1>2 DEF FactsTypeOK, Document
<1>4. NewFact(s) \in Fact
  BY <1>2, <1>3 DEF NewFact, NextRev, Fact
<1>5. /\ Slot(s) \in Seq(Fact) /\ Len(Slot(s)) = Len(facts) + 1
      /\ \A i \in DOMAIN facts : Slot(s)[i] = facts[i]
      /\ Slot(s)[Len(facts) + 1] = NewFact(s)
  BY <1>4, FactFields, AppendProperties DEF Slot
<1>6. \A i \in DOMAIN facts : ~(facts[i].doc = DocOf(s) /\ facts[i].rev = NextRev(DocOf(s)))
  BY <1>3, FactFields DEF Numbered, NextRev, Fact
<1>7. Appended(s) = Slot(s)
  <2>. DEFINE demoted == [i \in DOMAIN facts |->
                [facts[i] EXCEPT !.cur = @ /\ ~(facts[i].doc = DocOf(s) /\ facts[i].rev = NextRev(DocOf(s)))]]
  <2>1. ASSUME NEW i \in DOMAIN facts PROVE demoted[i] = facts[i]
    <3>1. demoted[i] = [facts[i] EXCEPT !.cur = @ /\ TRUE]
      BY <1>6
    <3>. QED
      BY <3>1, FactFields DEF Fact
  <2>2. demoted = facts
    BY <2>1, FactFields
  <2>3. Appended(s) = Append(demoted, NewFact(s))
    BY <1>2 DEF Appended, NewFact
  <2>. QED
    BY <2>2, <2>3 DEF Slot
<1>. QED
  BY <1>2, <1>4, <1>5, <1>6, <1>7

LEMMA OnlyThen == ASSUME NEW a \in BOOLEAN, NEW b \in BOOLEAN, b => a PROVE (a /\ b) = b
OBVIOUS

\* Nobody has committed a fact since s read them: what s commits is the slot it reconciled.
LEMMA PublishedFacts ==
    ASSUME FactsInv, NEW s \in Users, Publish(s)
    PROVE  /\ Targets(Slot(s)) \subseteq Current(Slot(s))
           /\ facts' \in Seq(Fact) /\ Len(facts') = Len(facts) + 1 /\ DOMAIN facts' = DOMAIN Slot(s)
           /\ \A i \in DOMAIN facts' :
                /\ facts'[i].doc = Slot(s)[i].doc /\ facts'[i].rev = Slot(s)[i].rev
                /\ facts'[i].date = Slot(s)[i].date /\ facts'[i].val = Slot(s)[i].val
           /\ Current(facts') = Targets(Slot(s)) /\ Latest(facts') = Latest(Slot(s))
           /\ Current(Reconciled(Slot(s))) = Targets(Slot(s))
<1>. DEFINE A == Slot(s)
            n == Len(facts)
            F == Reconciled(A)
<1>0. tx[s].at = "writing" /\ Appended(s) = A /\ tx[s].seen = facts /\ n \in Nat
  BY AppendedFacts, FactFields DEF Publish
<1>1. A \in Seq(Fact) /\ Len(A) = n + 1 /\ DOMAIN A = 1..n+1 /\ \A i \in 1..n : A[i] = facts[i]
  BY <1>0, AppendedFacts, FactFields
<1>2. \A i \in 1..n+1 : A[i] \in Fact
  BY <1>1, ElementOfSeq
<1>3. Targets(A) \subseteq 1..n+1
  BY <1>1, TargetsDiffer
<1>4. Targets(A) \subseteq Current(A)
  BY <1>0, <1>1, <1>3 DEF Publish, Refused, Current
<1>5. facts' = Committed(F, n)
  BY <1>0 DEF Publish
<1>. HIDE DEF A
<1>6. \A i \in 1..n+1 : F[i] = [A[i] EXCEPT !.cur = i \in Targets(A)]
  BY <1>1 DEF Reconciled
<1>7. DOMAIN F = 1..n+1
  BY <1>1 DEF Reconciled
<1>. HIDE DEF F
<1>8. ASSUME NEW i \in 1..n+1 PROVE facts'[i] = F[i]
  <2>1. CASE i = n + 1
    BY <1>0, <1>5, <2>1 DEF Committed
  <2>2. CASE i \in 1..n
    <3>1. facts'[i] = [facts[i] EXCEPT !.cur = @ /\ F[i].cur]
      BY <1>0, <1>5, <2>2 DEF Committed
    <3>2. F[i].cur = (i \in Targets(A)) /\ A[i].cur \in BOOLEAN
      BY <1>2, <1>6 DEF Fact
    <3>3. i \in Targets(A) => A[i].cur
      BY <1>4 DEF Current
    <3>4. (A[i].cur /\ F[i].cur) = (i \in Targets(A))
      <4>1. (i \in Targets(A)) \in BOOLEAN
        OBVIOUS
      <4>2. (A[i].cur /\ (i \in Targets(A))) = (i \in Targets(A))
        BY <3>2, <3>3, <4>1, OnlyThen, Zenon
      <4>. QED
        BY <3>2, <4>2, Zenon
    <3>5. facts'[i] = [A[i] EXCEPT !.cur = (A[i].cur /\ F[i].cur)]
      BY <1>1, <2>2, <3>1
    <3>. QED
      BY <1>6, <3>4, <3>5
  <2>. QED
    BY <1>0, <2>1, <2>2
<1>9. facts' \in Seq(Fact) /\ Len(facts') = n + 1 /\ DOMAIN facts' = 1..n+1
  <2>1. \A i \in 1..n+1 : F[i] \in Fact
    <3>1. \A i : (i \in Targets(A)) \in BOOLEAN
      OBVIOUS
    <3>2. \A a \in Fact, b \in BOOLEAN : [a EXCEPT !.cur = b] \in Fact
      BY DEF Fact
    <3>. SUFFICES ASSUME NEW i \in 1..n+1 PROVE F[i] \in Fact
      OBVIOUS
    <3>3. A[i] \in Fact /\ F[i] = [A[i] EXCEPT !.cur = i \in Targets(A)]
      BY <1>2, <1>6
    <3>4. [A[i] EXCEPT !.cur = i \in Targets(A)] \in Fact
      BY <3>1, <3>2, <3>3, Zenon
    <3>. QED
      BY <3>3, <3>4, Zenon
  <2>2. facts' \in [1..n+1 -> Fact]
    BY <1>0, <1>5, <1>8, <2>1 DEF Committed
  <2>. QED
    BY <1>0, <2>2, SeqOf
<1>10. ASSUME NEW i \in 1..n+1
       PROVE  /\ F[i].doc = A[i].doc /\ F[i].rev = A[i].rev
              /\ F[i].date = A[i].date /\ F[i].val = A[i].val
              /\ F[i].cur <=> i \in Targets(A)
  BY <1>2, <1>6 DEF Fact
<1>11. Current(facts') = Targets(A) /\ Current(F) = Targets(A)
  BY <1>3, <1>7, <1>8, <1>9, <1>10 DEF Current
<1>12. Latest(facts') = Latest(A)
  BY <1>1, <1>8, <1>9, <1>10 DEF Latest
<1>. QED
  BY <1>1, <1>4, <1>8, <1>9, <1>10, <1>11, <1>12 DEF A, F

\* The fact that is appended has its own report identity, so that every fact of the
\* latest date wins; and it is current, so that it is a target if it is of that date.
LEMMA SlotWinners ==
    ASSUME FactsInv, NEW s \in Users, tx[s].at = "writing"
    PROVE  /\ Winners(Slot(s)) = Latest(Slot(s))
           /\ \A i, j \in DOMAIN Slot(s) :
                 Slot(s)[i].doc = Slot(s)[j].doc /\ Slot(s)[i].rev = Slot(s)[j].rev => i = j
           /\ Len(facts) + 1 \in Latest(Slot(s)) => Len(facts) + 1 \in Targets(Slot(s))
<1>. DEFINE A == Slot(s)
            n == Len(facts)
<1>1. /\ DOMAIN A = 1..n+1 /\ n \in Nat /\ \A i \in 1..n : A[i] = facts[i]
      /\ A[n+1] = NewFact(s) /\ A \in Seq(Fact)
      /\ \A i \in 1..n : ~(facts[i].doc = DocOf(s) /\ facts[i].rev = NextRev(DocOf(s)))
  BY AppendedFacts, FactFields
<1>2. NewFact(s).doc = DocOf(s) /\ NewFact(s).rev = NextRev(DocOf(s)) /\ NewFact(s).cur = TRUE
  BY DEF NewFact
<1>. HIDE DEF A
<1>3. \A i, j \in DOMAIN A : A[i].doc = A[j].doc /\ A[i].rev = A[j].rev => i = j
  <2>. SUFFICES ASSUME NEW i \in DOMAIN A, NEW j \in DOMAIN A,
                       A[i].doc = A[j].doc /\ A[i].rev = A[j].rev
                PROVE  i = j
    OBVIOUS
  <2>1. CASE i \in 1..n /\ j \in 1..n
    BY <1>1, <2>1, FactFields DEF FactsInv, Numbered
  <2>2. CASE i = n+1 \/ j = n+1
    BY <1>1, <1>2, <2>2
  <2>. QED
    BY <1>1, <2>1, <2>2
<1>4. Winners(A) = Latest(A)
  <2>1. Latest(A) \subseteq 1..n+1
    BY <1>1 DEF Latest
  <2>. QED
    BY <1>1, <1>3, <2>1 DEF Winners
<1>5. ASSUME n + 1 \in Latest(A) PROVE n + 1 \in Targets(A)
  <2>. SUFFICES ASSUME NEW j \in Winners(A)
                PROVE  IF A[n+1].cur = A[j].cur THEN j <= n+1 ELSE A[n+1].cur
    BY <1>4, <1>5 DEF Targets
  <2>1. j \in 1..n+1
    BY <1>1 DEF Winners, Latest
  <2>. QED
    BY <1>1, <1>2, <2>1
<1>. QED
  BY <1>3, <1>4, <1>5 DEF A

\* A value that is current and of the latest date stays so.
LEMMA ValueStays ==
    ASSUME FactsInv, NEW s \in Users, tx[s].at = "writing",
           NEW i \in Current(facts), i \in Latest(Slot(s))
    PROVE  \E j \in Targets(Slot(s)) : Slot(s)[j].val = facts[i].val
<1>. DEFINE A == Slot(s)
            n == Len(facts)
<1>1. /\ DOMAIN A = 1..n+1 /\ n \in Nat /\ \A k \in 1..n : A[k] = facts[k]
      /\ A[n+1] = NewFact(s) /\ A \in Seq(Fact) /\ NewFact(s).cur = TRUE /\ i \in 1..n
  BY AppendedFacts, FactFields DEF NewFact
<1>2. Winners(A) = Latest(A) /\ (n+1 \in Latest(A) => n+1 \in Targets(A))
  BY SlotWinners
<1>3. Latest(A) \subseteq 1..n+1 /\ \A k \in 1..n+1 : A[k].cur \in BOOLEAN
  <2>1. \A k \in 1..n+1 : A[k] \in Fact
    BY <1>1, ElementOfSeq
  <2>. QED
    BY <1>1, <2>1 DEF Latest, Fact
<1>. HIDE DEF A
<1>4. CASE n+1 \in Latest(A) /\ A[n+1].val = facts[i].val
  BY <1>2, <1>4 DEF A
<1>5. CASE ~(n+1 \in Latest(A) /\ A[n+1].val = facts[i].val)
  <2>1. A[i].cur /\ A[i].val = facts[i].val /\ i \in Latest(A)
    BY <1>1 DEF Current, A
  <2>2. ASSUME NEW j \in Winners(A), A[j].val = A[i].val, A[j].cur PROVE j = i
    <3>1. j \in 1..n
      BY <1>1, <1>2, <1>3, <1>5, <2>1, <2>2
    <3>2. j \in Current(facts) /\ facts[j].val = facts[i].val
      BY <1>1, <2>2, <3>1, FactFields DEF Current
    <3>. QED
      BY <3>2 DEF FactsInv, CurrentIsLatest
  <2>3. \A j \in Winners(A) :
          A[j].val = A[i].val => IF A[i].cur = A[j].cur THEN j <= i ELSE A[i].cur
    <3>. SUFFICES ASSUME NEW j \in Winners(A), A[j].val = A[i].val
                  PROVE  IF A[i].cur = A[j].cur THEN j <= i ELSE A[i].cur
      OBVIOUS
    <3>1. j \in 1..n+1 /\ A[j].cur \in BOOLEAN /\ A[i].cur \in BOOLEAN
      BY <1>1, <1>2, <1>3
    <3>2. CASE A[j].cur
      <4>1. j = i
        BY <2>2, <3>2
      <4>. QED
        BY <1>1, <4>1
    <3>3. CASE ~A[j].cur
      BY <2>1, <3>1, <3>3
    <3>. QED
      BY <3>2, <3>3
  <2>4. i \in Targets(A)
    BY <1>2, <2>1, <2>3 DEF Targets
  <2>. QED
    BY <2>1, <2>4 DEF A
<1>. QED
  BY <1>4, <1>5

\* Either nothing is earlier than it was the latest, or only the new fact is latest.
LEMMA SlotLatest ==
    ASSUME FactsInv, NEW s \in Users, tx[s].at = "writing"
    PROVE  \/ Latest(Slot(s)) = {Len(facts) + 1}
           \/ Latest(Slot(s)) = Latest(facts)
           \/ Latest(Slot(s)) = Latest(facts) \cup {Len(facts) + 1}
<1>. DEFINE A == Slot(s)
            n == Len(facts)
            t == tx[s].date
<1>0. /\ DOMAIN A = 1..n+1 /\ n \in Nat /\ \A k \in 1..n : A[k] = facts[k]
      /\ A[n+1] = NewFact(s) /\ DOMAIN facts = 1..n /\ A \in Seq(Fact) /\ Len(A) = n+1
  BY AppendedFacts, FactFields
<1>1. NewFact(s).date = t
  BY DEF NewFact
<1>. HIDE DEF A, n, t
<1>2. \A k \in 1..n+1 : A[k].date \in Nat
  <2>1. \A k \in 1..n+1 : A[k] \in Fact
    BY <1>0, ElementOfSeq
  <2>. QED
    BY <2>1 DEF Fact
<1>3. t \in Nat /\ \A k \in 1..n : k \in 1..n+1 /\ facts[k].date = A[k].date
  BY <1>0, <1>1, <1>2
<1>4. Latest(A) = {k \in 1..n+1 : \A j \in 1..n+1 : A[j].date <= A[k].date}
  BY <1>0 DEF Latest
<1>5. Latest(facts) = {k \in 1..n : \A j \in 1..n : A[j].date <= A[k].date}
  <2>1. Latest(facts) = {k \in 1..n : \A j \in 1..n : facts[j].date <= facts[k].date}
    BY <1>0 DEF Latest
  <2>. QED
    BY <1>3, <2>1
<1>6. \A j \in 1..n+1 : j \in 1..n \/ (j = n+1 /\ A[j].date = t)
  BY <1>0, <1>1
<1>7. n+1 \in 1..n+1 /\ A[n+1].date = t /\ n+1 \notin 1..n
  BY <1>0, <1>1
<1>8. CASE \A k \in 1..n : A[k].date < t
  <2>1. ASSUME NEW k \in 1..n+1
        PROVE  (\A j \in 1..n+1 : A[j].date <= A[k].date) <=> k = n+1
    <3>1. k \in 1..n => ~(A[n+1].date <= A[k].date)
      BY <1>2, <1>3, <1>7, <1>8
    <3>2. \A j \in 1..n+1 : A[j].date <= A[n+1].date
      BY <1>2, <1>3, <1>6, <1>7, <1>8
    <3>. QED
      BY <1>6, <1>7, <3>1, <3>2
  <2>2. Latest(A) = {n+1}
    BY <1>4, <1>7, <2>1
  <2>. QED
    BY <2>2 DEF A, n
<1>9. CASE \E k \in 1..n : t < A[k].date
  <2>1. ASSUME NEW k \in 1..n+1
        PROVE  (\A j \in 1..n+1 : A[j].date <= A[k].date)
               <=> k \in 1..n /\ \A j \in 1..n : A[j].date <= A[k].date
    <3>1. PICK m \in 1..n : t < A[m].date
      BY <1>9
    <3>2. k = n+1 => ~(A[m].date <= A[k].date)
      BY <1>2, <1>3, <1>7, <3>1
    <3>3. k \in 1..n /\ A[m].date <= A[k].date => A[n+1].date <= A[k].date
      BY <1>2, <1>3, <1>7, <3>1
    <3>. QED
      BY <1>3, <1>6, <3>1, <3>2, <3>3
  <2>2. Latest(A) = Latest(facts)
    BY <1>3, <1>4, <1>5, <2>1
  <2>. QED
    BY <2>2 DEF A
<1>10. CASE (\A k \in 1..n : A[k].date <= t) /\ \E k \in 1..n : A[k].date = t
  <2>1. ASSUME NEW k \in 1..n+1
        PROVE  (\A j \in 1..n+1 : A[j].date <= A[k].date)
               <=> k = n+1 \/ (k \in 1..n /\ \A j \in 1..n : A[j].date <= A[k].date)
    <3>1. PICK m \in 1..n : A[m].date = t
      BY <1>10
    <3>2. \A j \in 1..n+1 : A[j].date <= A[n+1].date
      BY <1>2, <1>3, <1>6, <1>7, <1>10
    <3>3. k \in 1..n /\ A[m].date <= A[k].date => A[n+1].date <= A[k].date
      BY <1>7, <3>1
    <3>. QED
      BY <1>3, <1>6, <3>1, <3>2, <3>3
  <2>2. Latest(A) = Latest(facts) \cup {n+1}
    BY <1>3, <1>4, <1>5, <1>7, <2>1
  <2>. QED
    BY <2>2 DEF A, n
<1>11. \A k \in 1..n : A[k].date < t \/ A[k].date = t \/ t < A[k].date
  BY <1>2, <1>3
<1>12. \A k \in 1..n : A[k].date < t => A[k].date <= t
  BY <1>2, <1>3
<1>13. \A k \in 1..n : A[k].date = t => A[k].date <= t
  BY <1>2, <1>3
<1>. QED
  BY <1>8, <1>9, <1>10, <1>11, <1>12, <1>13

LEMMA ParsedDoc ==
    ASSUME NEW a \in Document, NEW r \in Nat, NEW t \in Nat
    PROVE  [a EXCEPT !.parse = "parsed", !.rev = r, !.date = t] \in Document
BY DEF Document

LEMMA PublishGrows ==
    ASSUME FactsInv, NEW s \in Users, Publish(s)
    PROVE  /\ DocsGrow /\ docs'[DocOf(s)].rev = NextRev(DocOf(s))
           /\ docs[DocOf(s)].rev \in Nat
<1>1. DocOf(s) \in Docs /\ tx[s].date \in Nat
  <2>1. tx[s] \in Transaction
    BY DEF FactsInv, FactsTypeOK
  <2>. QED
    BY <2>1, AppendedFacts DEF Publish, Transaction
<1>2. docs \in [Docs -> Document] /\ \A d \in Docs : docs[d] \in Document
  BY DEF FactsInv, FactsTypeOK
<1>3. docs' = [docs EXCEPT ![DocOf(s)] = [@ EXCEPT !.parse = "parsed", !.rev = NextRev(DocOf(s)),
                                                    !.date = tx[s].date]]
  BY DEF Publish
<1>4. docs[DocOf(s)].rev \in Nat /\ NextRev(DocOf(s)) \in Nat
      /\ docs[DocOf(s)].rev <= NextRev(DocOf(s))
  BY <1>1, <1>2 DEF Document, NextRev
<1>5. docs' \in [Docs -> Document]
  <2>1. [docs[DocOf(s)] EXCEPT !.parse = "parsed", !.rev = NextRev(DocOf(s)),
                               !.date = tx[s].date] \in Document
    BY <1>1, <1>2, <1>4, ParsedDoc
  <2>. QED
    BY <1>2, <1>3, <2>1
<1>6. docs'[DocOf(s)].rev = NextRev(DocOf(s)) /\ docs'[DocOf(s)].retired = docs[DocOf(s)].retired
  BY <1>1, <1>2, <1>3 DEF Document
<1>7. \A d \in Docs \ {DocOf(s)} : docs'[d] = docs[d]
  BY <1>1, <1>2, <1>3
<1>8. \A d \in Docs : docs[d].rev \in Nat
  BY <1>2 DEF Document
<1>. QED
  BY <1>4, <1>5, <1>6, <1>7, <1>8 DEF DocsGrow

LEMMA PublishShows ==
    ASSUME FactsInv, NEW s \in Users, Publish(s)
    PROVE  CurrentIsLatest' /\ DisagreementShown' /\ CalculatedRests'
<1>. USE DEF FactsInv
<1>. DEFINE A == Slot(s)
            n == Len(facts)
<1>0. tx[s].at = "writing" /\ DocsGrow
  BY PublishGrows DEF Publish
<1>1. /\ Current(facts') = Targets(A) /\ Latest(facts') = Latest(A)
      /\ Current(Reconciled(A)) = Targets(A) /\ DOMAIN facts' = DOMAIN A
      /\ \A i \in DOMAIN A : facts'[i].val = A[i].val /\ facts'[i].doc = A[i].doc
  BY PublishedFacts
<1>2. /\ A \in Seq(Fact) /\ DOMAIN A = 1..n+1 /\ n \in Nat /\ DOMAIN facts = 1..n
      /\ \A i \in 1..n : i \in 1..n+1 /\ A[i] = facts[i]
  BY <1>0, AppendedFacts, FactFields
<1>3. /\ Targets(A) \subseteq Latest(A) /\ Latest(A) \subseteq DOMAIN A
      /\ \A i, j \in Targets(A) : A[i].val = A[j].val => i = j
  BY <1>2, TargetsDiffer
<1>4. /\ Latest(A) = {n+1} \/ Latest(facts) \subseteq Latest(A)
      /\ Latest(A) \subseteq Latest(facts) \cup {n+1}
      /\ n+1 \in Latest(A) => n+1 \in Targets(A)
      /\ Latest(facts) \subseteq 1..n
  <2>1. Latest(facts) \subseteq 1..n
    BY <1>2 DEF Latest
  <2>. QED
    BY <1>0, <2>1, SlotLatest, SlotWinners
<1>5. Current(facts) \subseteq Latest(facts)
  BY DEF CurrentIsLatest
<1>6. ASSUME NEW i \in Current(facts), Latest(facts) \subseteq Latest(A)
      PROVE  \E j \in Targets(A) : A[j].val = facts[i].val
  BY <1>0, <1>5, <1>6, ValueStays
<1>. HIDE DEF A, n
<1>7. CurrentIsLatest'
  BY <1>1, <1>3 DEF CurrentIsLatest
<1>8. DisagreementShown'
  <2>. SUFFICES ASSUME \A i \in Latest(facts') : ~docs'[facts'[i].doc].retired
                PROVE  {facts'[i].val : i \in Current(facts')} = {facts'[i].val : i \in Latest(facts')}
    BY DEF DisagreementShown
  <2>. SUFFICES ASSUME NEW i \in Latest(A)
                PROVE  \E j \in Targets(A) : A[j].val = A[i].val
    BY <1>1, <1>3
  <2>1. CASE i = n+1
    BY <1>4, <2>1
  <2>2. CASE i # n+1
    <3>1. i \in Latest(facts) /\ Latest(facts) \subseteq Latest(A)
      BY <1>4, <2>2
    <3>2. \A k \in Latest(facts) : ~docs[facts[k].doc].retired
      <4>. SUFFICES ASSUME NEW k \in Latest(facts) PROVE ~docs[facts[k].doc].retired
        OBVIOUS
      <4>1. facts[k].doc \in Docs
        BY <1>2, <1>4, FactFields DEF Fact
      <4>2. facts'[k].doc = facts[k].doc
        BY <1>1, <1>2, <1>4
      <4>3. ~docs'[facts[k].doc].retired
        BY <1>1, <3>1, <4>2
      <4>. QED
        BY <1>0, <4>1, <4>3 DEF DocsGrow
    <3>3. PICK k \in Current(facts) : facts[k].val = facts[i].val
      BY <3>1, <3>2 DEF DisagreementShown
    <3>4. A[i].val = facts[i].val
      BY <1>2, <1>4, <3>1
    <3>. QED
      BY <1>6, <3>1, <3>3, <3>4
  <2>. QED
    BY <2>1, <2>2
<1>9. CalculatedRests'
  <2>1. calc' = Calculated(Reconciled(A), calc)
    BY <1>0, AppendedFacts DEF Publish, A
  <2>2. CASE Cardinality(Targets(A)) = 1
    <3>1. calc' = Targets(A)
      BY <1>1, <2>1, <2>2 DEF Calculated
    <3>. QED
      BY <1>1, <2>2, <3>1 DEF CalculatedRests
  <2>3. CASE Cardinality(Targets(A)) # 1
    <3>1. calc' = calc
      BY <1>1, <2>1, <2>3 DEF Calculated
    <3>2. Latest(facts) \subseteq Latest(A)
      <4>. SUFFICES ASSUME Latest(A) = {n+1} PROVE FALSE
        BY <1>4
      <4>1. Targets(A) = {n+1}
        BY <1>3, <1>4
      <4>. QED
        BY <2>3, <4>1, FS_Singleton
    <3>3. ASSUME NEW i \in calc PROVE \E j \in Targets(A) : facts'[j].val = facts'[i].val
      <4>1. i \in 1..n
        BY <1>2 DEF FactsTypeOK
      <4>2. PICK k \in Current(facts) : facts[k].val = facts[i].val
        BY DEF CalculatedRests
      <4>3. PICK j \in Targets(A) : A[j].val = facts[k].val
        BY <1>6, <3>2
      <4>4. facts'[j].val = A[j].val /\ facts'[i].val = facts[i].val
        BY <1>1, <1>2, <1>3, <4>1
      <4>. QED
        BY <4>2, <4>3, <4>4
    <3>4. Cardinality(calc') <= 1
      BY <3>1 DEF CalculatedRests
    <3>. QED
      BY <1>1, <2>3, <3>1, <3>3, <3>4 DEF CalculatedRests
  <2>. QED
    BY <2>2, <2>3
<1>. QED
  BY <1>7, <1>8, <1>9

LEMMA PublishTypes ==
    ASSUME FactsInv, NEW s \in Users, Publish(s)
    PROVE  FactsTypeOK' /\ Held' /\ Stages' /\ RoomLeft' /\ Numbered'
<1>. USE DEF FactsInv
<1>0. tx[s].at = "writing" /\ Ends(s) /\ DocsGrow
  BY PublishGrows DEF Publish
<1>1. /\ Held' /\ Stages' /\ tx' \in [Users -> Transaction]
      /\ (holder' \in Users => tx'[holder'].at \in UnderLock)
      /\ tx'[s] = Idle /\ \A u \in Users \ {s} : tx'[u] = tx[u]
  BY <1>0, OthersWait DEF UnderLock
<1>2. facts' \in Seq(Fact) /\ Len(facts') = Len(facts) + 1 /\ Len(facts) \in Nat
      /\ DOMAIN facts' = 1..Len(facts)+1
  BY <1>0, PublishedFacts, AppendedFacts, FactFields
<1>3. RoomLeft'
  <2>1. Parsing \subseteq Users /\ IsFiniteSet(Parsing) /\ Cardinality(Parsing) \in Nat
    BY FactsAssumption, FS_Subset, FS_CardinalityType DEF Parsing, FactsAssumption
  <2>2. s \in Parsing
    BY <1>0 DEF Parsing, Stages, StageOK, ParseStages
  <2>3. Parsing' = Parsing \ {s}
    BY <1>1, IdleOK DEF Parsing, ParseOps
  <2>4. Cardinality(Parsing \ {s}) = Cardinality(Parsing) - 1
    BY <2>1, <2>2, FS_RemoveElement
  <2>. QED
    BY <1>2, <2>1, <2>3, <2>4, FactsAssumption DEF RoomLeft, FactsAssumption
<1>4. Len(facts') <= MaxFacts
  <2>1. IsFiniteSet(Users)
    BY FactsAssumption DEF FactsAssumption
  <2>2. Parsing' \subseteq Users
    BY DEF Parsing
  <2>3. Cardinality(Parsing') \in Nat
    BY <2>1, <2>2, FS_Subset, FS_CardinalityType
  <2>. QED
    BY <1>2, <1>3, <2>3, FactsAssumption DEF RoomLeft, FactsAssumption
<1>5. calc' \subseteq DOMAIN facts'
  <2>1. Targets(Slot(s)) \subseteq DOMAIN facts' /\ DOMAIN facts \subseteq DOMAIN facts'
    BY <1>0, <1>2, PublishedFacts, AppendedFacts, TargetsDiffer, FactFields
  <2>2. calc' \in {Targets(Slot(s)), calc}
    BY <1>0, PublishedFacts, AppendedFacts DEF Publish, Calculated
  <2>. QED
    BY <2>1, <2>2 DEF FactsTypeOK
<1>6. FactsTypeOK'
  BY <1>0, <1>1, <1>2, <1>4, <1>5 DEF FactsTypeOK, DocsGrow, UnderLock
<1>7. Numbered'
  <2>1. /\ DOMAIN facts' = DOMAIN Slot(s)
        /\ \A i \in DOMAIN facts' : facts'[i].doc = Slot(s)[i].doc /\ facts'[i].rev = Slot(s)[i].rev
        /\ \A i \in 1..Len(facts) : Slot(s)[i] = facts[i]
        /\ Slot(s)[Len(facts)+1] = NewFact(s)
    BY <1>0, PublishedFacts, AppendedFacts, FactFields
  <2>2. NewFact(s).doc = DocOf(s) /\ NewFact(s).rev = NextRev(DocOf(s))
    BY DEF NewFact
  <2>3. \A i \in 1..Len(facts) : facts[i].doc \in Docs /\ facts[i].rev \in Nat
                                 /\ facts[i].rev <= docs[facts[i].doc].rev
    BY FactFields DEF Fact, Numbered
  <2>4. \A d \in Docs : docs[d].rev \in Nat /\ docs'[d].rev \in Nat /\ docs[d].rev <= docs'[d].rev
    BY <1>0 DEF DocsGrow, FactsTypeOK, Document
  <2>5. \A i \in 1..Len(facts) : facts[i].rev <= docs'[facts[i].doc].rev
    BY <2>3, <2>4
  <2>6. NextRev(DocOf(s)) <= docs'[DocOf(s)].rev
    BY <1>0, <2>4, AppendedFacts, PublishGrows
  <2>7. \A i \in DOMAIN facts' : facts'[i].rev <= docs'[facts'[i].doc].rev
    BY <1>2, <2>1, <2>2, <2>5, <2>6
  <2>8. \A i, j \in DOMAIN facts' :
          facts'[i].doc = facts'[j].doc /\ facts'[i].rev = facts'[j].rev => i = j
    BY <1>0, <2>1, SlotWinners
  <2>. QED
    BY <2>7, <2>8 DEF Numbered
<1>. QED
  BY <1>1, <1>3, <1>6, <1>7

-----------------------------------------------------------------------------
LEMMA StartKeeps ==
    ASSUME FactsInv, NEW s \in Users, Starts(s)
    PROVE  FactsInv'
<1>1. ASSUME NEW d \in Docs, Retire(s, d) PROVE FactsInv'
  <2>1. tx[s].at \notin UnderLock /\ {d} \in SUBSET Docs
    BY <1>1 DEF Retire, UnderLock
  <2>. QED
    BY <1>1, <2>1, LockRowsKeeps, NothingKeeps DEF Retire
<1>. QED
  BY <1>1, UploadKeeps, ReparseKeeps, DeduplicateKeeps DEF Starts

LEMMA ContinueKeeps ==
    ASSUME FactsInv, NEW s \in Users, Continues(s)
    PROVE  FactsInv'
<1>1. ASSUME RetireDuplicates(s) PROVE FactsInv'
  <2>1. tx[s].at \notin UnderLock /\ tx[s].on \in SUBSET Docs
    BY <1>1 DEF RetireDuplicates, UnderLock, FactsInv, FactsTypeOK, Transaction
  <2>. QED
    BY <1>1, <2>1, LockRowsKeeps, NothingKeeps DEF RetireDuplicates
<1>2. ASSUME RetireFails(s) PROVE FactsInv'
  BY <1>2, EndKeeps, SameDocs DEF RetireFails
<1>3. ASSUME Publish(s) PROVE FactsInv'
  BY <1>3, PublishTypes, PublishShows DEF FactsInv
<1>4. ASSUME CannotParse(s) \/ Refuse(s) \/ AbortDeadlocked(s) PROVE FactsInv'
  BY <1>4, FailKeeps DEF CannotParse, Refuse, AbortDeadlocked
<1>. QED
  BY <1>1, <1>2, <1>3, <1>4, ParseKeeps, TakeToWriteKeeps, TakeToRetireKeeps, RetireKeeps
     DEF Continues

LEMMA FactsStep == FactsInv /\ [FactsNext]_<<factVars, holder>> => FactsInv'
<1>. SUFFICES ASSUME FactsInv, [FactsNext]_<<factVars, holder>> PROVE FactsInv'
  OBVIOUS
<1>1. CASE UNCHANGED <<factVars, holder>>
  BY <1>1, ElsewhereKeeps DEF ElsewhereStep
<1>2. ASSUME NEW s \in Users, Crash(s) PROVE FactsInv'
  BY <1>2, EndKeeps, SameDocs DEF Crash
<1>. QED
  BY <1>1, <1>2, StartKeeps, ContinueKeeps DEF FactsNext

\* Whatever the sessions of the documents do alone, the inductive invariant holds: the
\* types, the lock, the unique report identities and the three properties of the slot.
THEOREM FactsInvariant == FactsSpec => []FactsInv
<1>. QED
  BY FactsInitially, FactsStep, PTL DEF FactsSpec

-----------------------------------------------------------------------------
(* The SEC lineage.                                                         *)

Locking == {"ingesting", "finalizing"}

\* A process in a transaction that stamps holds the lock of the stock.
Locked == \A c \in Clis : cli[c].at \in Locking => holder = c

\* Nothing is known, and nothing is asked, of the future.
Times ==
    /\ \A o \in Ops : op[o].avail <= clock
    /\ \A p \in pubs : p.cutoff <= clock
    /\ \A c \in Clis : cli[c].at \in {"asked", "selected"} => cli[c].cutoff <= clock

\* What is stamped is still pending, and the stamp is later than all that was available
\* and than all that was asked.
StampOK(s) ==
    /\ s.stamped \subseteq Pending
    /\ 0 < s.stamp /\ s.stamp <= clock
    /\ \A o \in Ops : op[o].avail < s.stamp
    /\ \A p \in pubs : p.cutoff < s.stamp

Stamped == \A c \in Clis : cli[c].at \in Locking /\ cli[c].stamped # {} => StampOK(cli[c])

\* Runs belong to committed operations, which rest on their own runs and on available ones.
Rests ==
    /\ \A r \in runs : op[r.op].done
    /\ \A o \in Ops : ~op[o].done => op[o].avail = 0 /\ op[o].rests = {}
    /\ \A o \in Ops : \A r \in op[o].rests : r.op = o \/ op[r.op].avail # 0

LineageInv == LineageTypeOK /\ Locked /\ Times /\ Stamped /\ Rests /\ WholeLineage

\* What another session of the stock may do.
OthersStep == UNCHANGED lineageVars /\ \A c \in Clis : holder = c <=> holder' = c

-----------------------------------------------------------------------------
LEMMA LineageInitially == LineageInit /\ holder = Nobody => LineageInv
<1>. SUFFICES ASSUME LineageInit, holder = Nobody PROVE LineageInv
  OBVIOUS
<1>. USE LineageAssumption DEF LineageAssumption
<1>1. Off \in Process
  BY DEF Off, Process
<1>2. \A c \in Clis : cli[c] = Off
  BY DEF LineageInit
<1>3. \A o \in Ops : op[o] = [done |-> FALSE, rests |-> {}, avail |-> 0]
  BY DEF LineageInit
<1>4. LineageTypeOK
  BY <1>1 DEF LineageInit, LineageTypeOK, Operation
<1>5. Locked /\ Stamped
  BY <1>2 DEF Locked, Stamped, Locking, Off
<1>6. Times
  BY <1>2, <1>3 DEF LineageInit, Times, Off
<1>7. Rests /\ WholeLineage
  BY <1>3 DEF LineageInit, Rests, WholeLineage
<1>. QED
  BY <1>4, <1>5, <1>6, <1>7 DEF LineageInv

LEMMA OthersKeep == LineageInv /\ OthersStep => LineageInv'
<1>. SUFFICES ASSUME LineageInv, OthersStep PROVE LineageInv'
  OBVIOUS
<1>. USE DEF OthersStep, lineageVars, LineageInv
<1>1. LineageTypeOK'
  BY DEF LineageTypeOK
<1>2. Locked'
  BY DEF Locked
<1>3. Times' /\ Rests' /\ WholeLineage'
  BY DEF Times, Rests, WholeLineage
<1>4. Stamped'
  BY DEF Stamped, StampOK, Pending
<1>. QED
  BY <1>1, <1>2, <1>3, <1>4

\* A step of one process that commits nothing.
QuietTo(c, x) ==
    /\ cli' = [cli EXCEPT ![c] = x] /\ UNCHANGED <<runs, op, pubs>>
    /\ clock' \in 0..MaxTime /\ clock <= clock'
    /\ x.at \in {"asked", "selected"} => x.cutoff <= clock'
    /\ x.at \in Locking <=> holder' = c
    /\ \A d \in Clis \ {c} : holder = d <=> holder' = d
    /\ x.at \in Locking /\ x.stamped # {} =>
          x.stamped \subseteq Pending /\ clock < x.stamp /\ x.stamp <= clock'

LEMMA QuietStep ==
    ASSUME LineageInv, NEW c \in Clis, NEW x \in Process, QuietTo(c, x)
    PROVE  LineageInv'
<1>. USE DEF LineageInv, QuietTo
<1>0. /\ clock \in Nat /\ clock' \in Nat
      /\ cli \in [Clis -> Process] /\ op \in [Ops -> Operation] /\ pubs \subseteq Publication
  BY LineageAssumption DEF LineageTypeOK, LineageAssumption
<1>1. cli' \in [Clis -> Process] /\ cli'[c] = x /\ \A d \in Clis \ {c} : cli'[d] = cli[d]
  BY <1>0
<1>2. /\ \A o \in Ops : op[o].avail \in Nat
      /\ \A p \in pubs : p.cutoff \in Nat
      /\ \A d \in Clis : cli[d].cutoff \in Nat /\ cli[d].stamp \in Nat /\ cli'[d].stamp \in Nat
  BY <1>0, <1>1 DEF Operation, Publication, Process
<1>3. LineageTypeOK'
  BY <1>1 DEF LineageTypeOK, Locking
<1>4. Locked'
  BY <1>1 DEF Locked
<1>5. Times'
  BY <1>0, <1>1, <1>2 DEF Times
<1>6. Stamped'
  <2>. SUFFICES ASSUME NEW d \in Clis, cli'[d].at \in Locking, cli'[d].stamped # {}
                PROVE  StampOK(cli[d])'
    BY DEF Stamped
  <2>1. CASE d = c
    <3>1. clock < cli'[d].stamp
      BY <1>1, <2>1
    <3>2. (\A o \in Ops : op[o].avail < cli'[d].stamp) /\ \A p \in pubs : p.cutoff < cli'[d].stamp
      BY <1>0, <1>2, <3>1 DEF Times
    <3>. QED
      BY <1>0, <1>1, <1>2, <2>1, <3>1, <3>2 DEF StampOK, Pending
  <2>2. CASE d # c
    BY <1>0, <1>1, <1>2, <2>2 DEF Stamped, StampOK, Pending
  <2>. QED
    BY <2>1, <2>2
<1>7. Rests' /\ WholeLineage'
  BY DEF Rests, WholeLineage
<1>. QED
  BY <1>3, <1>4, <1>5, <1>6, <1>7

\* A transaction of c that adds runs and the operations O, and makes what it has
\* stamped available.
CommitStep(c, O, R) ==
    /\ cli[c].at \in Locking
    /\ \A o \in O : ~op[o].done
    /\ \A r \in R : r \in Run /\ r.op \in O
    /\ runs' = runs \cup R
    /\ \A o \in Ops \ O : op'[o] = Finalized(c, o)
    /\ \A o \in O : /\ op'[o] \in Operation
                    /\ op'[o].done /\ op'[o].avail = 0
                    /\ \A r \in op'[o].rests :
                         r.op = o \/ (r.op \in Ops \ O /\ Reusable(c, r))
    /\ \E x \in Process : /\ cli' = [cli EXCEPT ![c] = x]
                          /\ x.at \in {"committed", "finalized"}
    /\ op' = [o \in Ops |-> op'[o]]
    /\ Releases(c)
    /\ UNCHANGED <<clock, pubs>>

\* What a commit does to the availability of the operations there were.
LEMMA Availability ==
    ASSUME LineageInv, NEW c \in Clis, NEW O \in SUBSET Ops, NEW R, CommitStep(c, O, R),
           NEW o \in Ops
    PROVE  /\ op[o].avail \in Nat /\ cli[c].stamp \in Nat
           /\ o \in O => op[o].avail = 0 /\ ~op[o].done /\ op'[o].avail = 0
           /\ o \notin O => op'[o].done = op[o].done /\ op'[o].rests = op[o].rests
           /\ o \in cli[c].stamped \ O =>
                 op[o].avail = 0 /\ op'[o].avail = cli[c].stamp /\ cli[c].stamp > 0
           /\ o \notin cli[c].stamped => op'[o].avail = op[o].avail
           /\ op'[o] \in Operation
<1>. USE DEF LineageInv
<1>1. op \in [Ops -> Operation] /\ cli[c] \in Process
  BY DEF LineageTypeOK
<1>2. op[o].avail \in Nat /\ cli[c].stamp \in Nat
  BY <1>1 DEF Operation, Process
<1>3. o \in O => op[o].avail = 0 /\ ~op[o].done /\ op'[o].avail = 0
  BY DEF CommitStep, Rests
<1>4. ASSUME o \notin O
      PROVE  op'[o].done = op[o].done /\ op'[o].rests = op[o].rests /\ op'[o] \in Operation
             /\ op'[o].avail = IF o \in cli[c].stamped THEN cli[c].stamp ELSE op[o].avail
  BY <1>1, <1>2, <1>4 DEF CommitStep, Finalized, Operation
<1>5. o \in cli[c].stamped => op[o].avail = 0 /\ cli[c].stamp > 0
  BY DEF Stamped, StampOK, Pending, CommitStep
<1>. QED
  BY <1>2, <1>3, <1>4, <1>5 DEF CommitStep

LEMMA CommitKeeps ==
    ASSUME LineageInv, NEW c \in Clis, NEW O \in SUBSET Ops, NEW R, CommitStep(c, O, R)
    PROVE  LineageInv'
<1>. USE DEF LineageInv
<1>0. /\ clock \in 0..MaxTime /\ clock \in Nat
      /\ cli \in [Clis -> Process] /\ op \in [Ops -> Operation] /\ pubs \subseteq Publication
  BY LineageAssumption DEF LineageTypeOK, LineageAssumption
<1>. PICK x \in Process : /\ cli' = [cli EXCEPT ![c] = x]
                          /\ x.at \in {"committed", "finalized"}
  BY DEF CommitStep
<1>1. cli' \in [Clis -> Process] /\ cli'[c] = x /\ \A d \in Clis \ {c} : cli'[d] = cli[d]
  BY <1>0
<1>2. holder = c /\ holder' = Nobody /\ \A d \in Clis \ {c} : cli[d].at \notin Locking
  BY LineageAssumption DEF CommitStep, Releases, Locked, LineageAssumption
<1>3. \A d \in Clis : cli'[d].at \notin Locking
  BY <1>1, <1>2 DEF Locking
<1>4. LineageTypeOK'
  <2>1. op' \in [Ops -> Operation]
    <3>1. \A o \in Ops : op'[o] \in Operation
      BY Availability
    <3>. QED
      BY <3>1 DEF CommitStep
  <2>2. runs' \subseteq Run
    BY DEF CommitStep, LineageTypeOK
  <2>. QED
    BY <1>0, <1>1, <1>2, <2>1, <2>2, LineageAssumption DEF LineageTypeOK, LineageAssumption, CommitStep
<1>5. Locked' /\ Stamped'
  BY <1>3 DEF Locked, Stamped
<1>6. Times'
  <2>1. \A o \in Ops : op'[o].avail <= clock
    <3>. SUFFICES ASSUME NEW o \in Ops PROVE op'[o].avail <= clock
      OBVIOUS
    <3>1. cli[c].stamped # {} => cli[c].stamp <= clock
      BY DEF CommitStep, Stamped, StampOK
    <3>2. op'[o].avail \in {0, cli[c].stamp, op[o].avail}
          /\ (op'[o].avail = cli[c].stamp => cli[c].stamped # {} \/ op'[o].avail \in {0, op[o].avail})
      BY Availability
    <3>. QED
      BY <1>0, <3>1, <3>2 DEF Times
  <2>2. \A d \in Clis : cli'[d].at \in {"asked", "selected"} => cli'[d] = cli[d]
    BY <1>1
  <2>. QED
    BY <2>1, <2>2 DEF Times, CommitStep
<1>7. Rests'
  <2>1. \A r \in runs' : op'[r.op].done
    <3>. SUFFICES ASSUME NEW r \in runs' PROVE op'[r.op].done
      OBVIOUS
    <3>1. CASE r \in R
      BY <3>1 DEF CommitStep
    <3>2. CASE r \in runs
      BY <3>2, Availability DEF Rests, LineageTypeOK, Run
    <3>. QED
      BY <3>1, <3>2 DEF CommitStep
  <2>2. \A o \in Ops : ~op'[o].done => op'[o].avail = 0 /\ op'[o].rests = {}
    <3>. SUFFICES ASSUME NEW o \in Ops, ~op'[o].done PROVE op'[o].avail = 0 /\ op'[o].rests = {}
      OBVIOUS
    <3>1. o \notin O
      BY DEF CommitStep
    <3>2. ~op[o].done
      BY <3>1, Availability
    <3>3. o \notin cli[c].stamped
      BY <3>2 DEF CommitStep, Stamped, StampOK, Pending
    <3>. QED
      BY <3>1, <3>2, <3>3, Availability DEF Rests
  <2>3. \A o \in Ops : \A r \in op'[o].rests : r.op = o \/ op'[r.op].avail # 0
    <3>. SUFFICES ASSUME NEW o \in Ops, NEW r \in op'[o].rests, r.op # o PROVE op'[r.op].avail # 0
      OBVIOUS
    <3>0. r.op \in Ops
      BY Availability DEF Operation, Run
    <3>1. CASE o \in O
      <4>1. r.op \in Ops \ O /\ Reusable(c, r)
        BY <3>1 DEF CommitStep
      <4>. QED
        BY <4>1, Availability DEF Reusable
    <3>2. CASE o \notin O
      <4>1. op[r.op].avail # 0
        BY <3>2, Availability DEF Rests
      <4>. QED
        BY <3>0, <4>1, Availability
    <3>. QED
      BY <3>1, <3>2
  <2>. QED
    BY <2>1, <2>2, <2>3 DEF Rests
<1>8. WholeLineage'
  <2>. SUFFICES ASSUME NEW o \in Ops, op'[o].avail # 0, NEW r \in op'[o].rests
                PROVE  op'[r.op].avail \in 1..op'[o].avail
    BY DEF WholeLineage
  <2>0. r.op \in Ops /\ o \notin O /\ r \in op[o].rests
    <3>1. o \notin O
      BY Availability
    <3>2. r \in op[o].rests
      BY <3>1, Availability
    <3>. QED
      BY <1>0, <3>1, <3>2 DEF Operation, Run
  <2>1. op'[r.op].avail \in Nat /\ op'[r.op].avail # 0 /\ op'[o].avail \in Nat
    <3>1. op'[r.op].avail # 0
      BY <1>7, <2>0 DEF Rests
    <3>. QED
      BY <2>0, <3>1, Availability DEF Operation
  <2>2. CASE r.op = o
    BY <2>1, <2>2
  <2>3. CASE r.op # o
    <3>1. op[r.op].avail # 0
      BY <2>0, <2>3 DEF Rests
    <3>2. op'[r.op].avail = op[r.op].avail
      BY <2>0, <3>1, Availability
    <3>3. CASE o \in cli[c].stamped
      <4>1. op[r.op].avail < cli[c].stamp /\ op'[o].avail = cli[c].stamp
        BY <2>0, <3>3, Availability DEF Stamped, StampOK, CommitStep
      <4>. QED
        BY <2>0, <2>1, <3>2, <4>1
    <3>4. CASE o \notin cli[c].stamped
      BY <2>0, <2>1, <3>2, <3>4, Availability DEF WholeLineage
    <3>. QED
      BY <3>3, <3>4
  <2>. QED
    BY <2>2, <2>3
<1>. QED
  BY <1>4, <1>5, <1>6, <1>7, <1>8

LEMMA PublishKeeps == ASSUME LineageInv, NEW c \in Clis, PublishSec(c) PROVE LineageInv'
<1>. USE DEF LineageInv
<1>0. /\ clock \in Nat
      /\ cli \in [Clis -> Process] /\ op \in [Ops -> Operation] /\ pubs \subseteq Publication
      /\ Off \in Process /\ runs \subseteq Run
  BY LineageAssumption DEF LineageTypeOK, LineageAssumption, Off, Process
<1>1. /\ cli' \in [Clis -> Process] /\ cli'[c].at = "off"
      /\ \A d \in Clis \ {c} : cli'[d] = cli[d]
  BY <1>0 DEF PublishSec, Off
<1>2. holder = Nobody /\ UNCHANGED <<clock, runs, op, holder>>
  BY DEF PublishSec, InTurn
<1>3. \A d \in Clis : cli'[d].at \notin Locking
  BY <1>1, <1>2, LineageAssumption DEF Locked, Locking, LineageAssumption
<1>4. \A p \in pubs' : p \in Publication /\ p.cutoff <= clock
  <2>1. Sources(AvailableAt(cli[c].cutoff)) \subseteq Run
    BY <1>0 DEF Sources, LatestRuns, Eligible, AvailableAt
  <2>2. cli[c].cutoff \in Nat /\ cli[c].cutoff <= clock
    BY <1>0 DEF Times, PublishSec, Process
  <2>. QED
    BY <1>0, <2>1, <2>2 DEF PublishSec, Publication, Times
<1>5. LineageTypeOK'
  BY <1>1, <1>2, <1>4, LineageAssumption DEF LineageTypeOK, LineageAssumption
<1>6. Locked' /\ Stamped'
  BY <1>3 DEF Locked, Stamped
<1>7. Times'
  BY <1>1, <1>2, <1>4 DEF Times
<1>8. Rests' /\ WholeLineage'
  BY <1>2 DEF Rests, WholeLineage
<1>. QED
  BY <1>5, <1>6, <1>7, <1>8

-----------------------------------------------------------------------------
(* The actions.                                                             *)

LEMMA OffOK == Off \in Process
BY DEF Off, Process

Quiet(c) == Start(c) \/ GoOn(c) \/ BeginIngest(c) \/ BeginFinalize(c) \/ Ask(c) \/ Select(c) \/ Abort(c)

LEMMA ClockOK == LineageInv => clock \in 0..MaxTime /\ clock \in Nat /\ MaxTime \in Nat
BY LineageAssumption DEF LineageInv, LineageTypeOK, LineageAssumption

\* A process that neither takes nor holds the lock.
LEMMA Unlocked ==
    ASSUME LineageInv, NEW c \in Clis, cli[c].at \notin Locking, UNCHANGED holder
    PROVE  holder' # c /\ \A d \in Clis \ {c} : holder = d <=> holder' = d
BY DEF LineageInv, LineageTypeOK, Locking

LEMMA Taking ==
    ASSUME LineageInv, NEW c \in Clis, Takes(c)
    PROVE  holder' = c /\ \A d \in Clis \ {c} : holder = d <=> holder' = d
BY LineageAssumption DEF Takes, LineageAssumption

LEMMA Started ==
    ASSUME NEW n \in Nat
    PROVE  /\ [Off EXCEPT !.at = "started", !.now = n] \in Process
           /\ [Off EXCEPT !.at = "started", !.now = n].at = "started"
           /\ [Off EXCEPT !.at = "started", !.now = n, !.recovers = TRUE] \in Process
           /\ [Off EXCEPT !.at = "started", !.now = n, !.recovers = TRUE].at = "started"
BY DEF Off, Process

LEMMA Asked ==
    ASSUME NEW t \in Nat
    PROVE  /\ [Off EXCEPT !.at = "asked", !.cutoff = t] \in Process
           /\ [Off EXCEPT !.at = "asked", !.cutoff = t].at = "asked"
           /\ [Off EXCEPT !.at = "asked", !.cutoff = t].cutoff = t
BY DEF Off, Process

LEMMA QuietKeeps == ASSUME LineageInv, NEW c \in Clis, Quiet(c) PROVE LineageInv'
<1>00. clock \in 0..MaxTime /\ clock \in Nat /\ MaxTime \in Nat
  BY ClockOK
<1>0. /\ cli[c] \in Process /\ \A d \in Clis : cli[d].cutoff \in Nat
      /\ pubs \subseteq Publication /\ op \in [Ops -> Operation] /\ runs \subseteq Run
  BY DEF LineageInv, LineageTypeOK, Process
<1>1. CASE Start(c)
  <2>. DEFINE x == [Off EXCEPT !.at = "started", !.now = clock + 1, !.recovers = TRUE]
  <2>1. clock + 1 \in Nat
    BY <1>00
  <2>2. x \in Process /\ x.at = "started"
    BY <2>1, Started
  <2>3. cli[c].at \notin Locking /\ UNCHANGED holder
    BY <1>1 DEF Start, Locking
  <2>4. clock' \in 0..MaxTime /\ clock <= clock' /\ UNCHANGED <<runs, op, pubs>>
        /\ cli' = [cli EXCEPT ![c] = x]
    BY <1>00, <1>1 DEF Start, Ticks
  <2>. HIDE DEF x
  <2>5. holder' # c /\ \A d \in Clis \ {c} : holder = d <=> holder' = d
    BY <2>3, Unlocked
  <2>6. QuietTo(c, x)
    BY <2>2, <2>4, <2>5 DEF QuietTo, Locking
  <2>. QED
    BY <2>2, <2>6, QuietStep
<1>2. CASE GoOn(c)
  <2>. DEFINE x == [Off EXCEPT !.at = "started", !.now = clock + 1]
  <2>1. clock + 1 \in Nat
    BY <1>00
  <2>2. x \in Process /\ x.at = "started"
    BY <2>1, Started
  <2>3. cli[c].at \notin Locking /\ UNCHANGED holder
    BY <1>2 DEF GoOn, Locking
  <2>4. clock' \in 0..MaxTime /\ clock <= clock' /\ UNCHANGED <<runs, op, pubs>>
        /\ cli' = [cli EXCEPT ![c] = x]
    BY <1>00, <1>2 DEF GoOn, Ticks
  <2>. HIDE DEF x
  <2>5. holder' # c /\ \A d \in Clis \ {c} : holder = d <=> holder' = d
    BY <2>3, Unlocked
  <2>6. QuietTo(c, x)
    BY <2>2, <2>4, <2>5 DEF QuietTo, Locking
  <2>. QED
    BY <2>2, <2>6, QuietStep
<1>3. CASE BeginIngest(c)
  <2>. DEFINE found == IF cli[c].recovers THEN Pending ELSE {}
              x == [Off EXCEPT !.at = "ingesting", !.now = cli[c].now,
                               !.stamped = found, !.stamp = Stamp(found)]
  <2>1. found \subseteq Pending /\ found \subseteq Ops /\ Stamp(found) \in Nat
        /\ (found # {} => Stamp(found) = clock + 1)
    BY <1>00 DEF Pending, Stamp
  <2>2. clock' \in 0..MaxTime /\ clock <= clock' /\ (found # {} => clock' = clock + 1)
    BY <1>00, <1>3 DEF BeginIngest, Ticks
  <2>3. Takes(c) /\ UNCHANGED <<runs, op, pubs>> /\ cli' = [cli EXCEPT ![c] = x]
    BY <1>3 DEF BeginIngest
  <2>. HIDE DEF found
  <2>4. /\ x \in Process /\ x.at = "ingesting" /\ x.stamped = found /\ x.stamp = Stamp(found)
    BY <1>0, <2>1 DEF Process, Off
  <2>. HIDE DEF x
  <2>5. holder' = c /\ \A d \in Clis \ {c} : holder = d <=> holder' = d
    BY <2>3, Taking
  <2>6. QuietTo(c, x)
    BY <2>1, <2>2, <2>3, <2>4, <2>5, <1>00 DEF QuietTo, Locking
  <2>. QED
    BY <2>4, <2>6, QuietStep
<1>4. CASE BeginFinalize(c)
  <2>. PICK o \in ToFinalize(c) :
         LET found == {o} \cap Pending
         IN  /\ found # {} => Ticks
             /\ found = {} => UNCHANGED clock
             /\ cli' = [cli EXCEPT ![c] = [Off EXCEPT !.at = "finalizing",
                                                      !.stamped = found, !.stamp = Stamp(found)]]
    BY <1>4 DEF BeginFinalize
  <2>. DEFINE found == {o} \cap Pending
              x == [Off EXCEPT !.at = "finalizing", !.stamped = found, !.stamp = Stamp(found)]
  <2>1. found \subseteq Pending /\ found \subseteq Ops /\ Stamp(found) \in Nat
        /\ (found # {} => Stamp(found) = clock + 1)
    BY <1>00 DEF Pending, Stamp
  <2>2. clock' \in 0..MaxTime /\ clock <= clock' /\ (found # {} => clock' = clock + 1)
    BY <1>00 DEF Ticks
  <2>3. Takes(c) /\ UNCHANGED <<runs, op, pubs>> /\ cli' = [cli EXCEPT ![c] = x]
    BY <1>4 DEF BeginFinalize
  <2>. HIDE DEF found
  <2>4. /\ x \in Process /\ x.at = "finalizing" /\ x.stamped = found /\ x.stamp = Stamp(found)
    BY <2>1 DEF Process, Off
  <2>. HIDE DEF x
  <2>5. holder' = c /\ \A d \in Clis \ {c} : holder = d <=> holder' = d
    BY <2>3, Taking
  <2>6. x.stamped # {} => x.stamped \subseteq Pending /\ clock < x.stamp /\ x.stamp <= clock'
    BY <2>1, <2>2, <2>4, <1>00
  <2>7. QuietTo(c, x)
    BY <2>2, <2>3, <2>4, <2>5, <2>6 DEF QuietTo, Locking
  <2>. QED
    BY <2>4, <2>7, QuietStep
<1>5. CASE Ask(c)
  <2>1. cli[c].at \notin Locking /\ UNCHANGED <<runs, op, pubs, holder>>
    BY <1>5 DEF Ask, Locking
  <2>2. holder' # c /\ \A d \in Clis \ {c} : holder = d <=> holder' = d
    BY <2>1, Unlocked
  <2>3. ASSUME NEW t \in Nat, t <= clock', clock' \in 0..MaxTime, clock <= clock',
               cli' = [cli EXCEPT ![c] = [Off EXCEPT !.at = "asked", !.cutoff = t]]
        PROVE  LineageInv'
    <3>. DEFINE x == [Off EXCEPT !.at = "asked", !.cutoff = t]
    <3>1. x \in Process /\ x.at = "asked" /\ x.cutoff = t
      BY Asked
    <3>2. cli' = [cli EXCEPT ![c] = x]
      BY <2>3
    <3>. HIDE DEF x
    <3>3. QuietTo(c, x)
      BY <2>1, <2>2, <2>3, <3>1, <3>2 DEF QuietTo, Locking
    <3>. QED
      BY <3>1, <3>3, QuietStep
  <2>4. CASE Ticks /\ cli' = [cli EXCEPT ![c] = [Off EXCEPT !.at = "asked", !.cutoff = clock + 1]]
    <3>1. clock + 1 \in Nat /\ clock + 1 <= clock' /\ clock' \in 0..MaxTime /\ clock <= clock'
      BY <1>00, <2>4 DEF Ticks
    <3>. QED
      BY <2>3, <2>4, <3>1
  <2>5. ASSUME NEW q \in pubs, UNCHANGED clock,
               cli' = [cli EXCEPT ![c] = [Off EXCEPT !.at = "asked", !.cutoff = q.cutoff]]
        PROVE  LineageInv'
    <3>1. q.cutoff \in Nat /\ q.cutoff <= clock' /\ clock' \in 0..MaxTime /\ clock <= clock'
      BY <1>00, <1>0, <2>5 DEF LineageInv, Times, Publication
    <3>. QED
      BY <2>3, <2>5, <3>1
  <2>. QED
    BY <1>5, <2>4, <2>5 DEF Ask
<1>6. CASE Select(c)
  <2>. DEFINE S == Sources(AvailableAt(cli[c].cutoff))
              x == [cli[c] EXCEPT !.at = "selected", !.sources = S]
  <2>1. S \subseteq Run
    BY <1>0 DEF Sources, LatestRuns, Eligible, AvailableAt
  <2>2. cli' = [cli EXCEPT ![c] = x] /\ UNCHANGED <<clock, runs, op, pubs, holder>> /\ cli[c].at = "asked"
    BY <1>6 DEF Select
  <2>. HIDE DEF S
  <2>3. x \in Process /\ x.at = "selected" /\ x.cutoff = cli[c].cutoff
    BY <1>0, <2>1 DEF Process
  <2>4. x.cutoff <= clock
    BY <2>2, <2>3 DEF LineageInv, Times
  <2>5. holder' # c /\ \A d \in Clis \ {c} : holder = d <=> holder' = d
    BY <2>2, Unlocked DEF Locking
  <2>. HIDE DEF x
  <2>6. UNCHANGED <<runs, op, pubs>> /\ cli' = [cli EXCEPT ![c] = x] /\ clock' = clock
    BY <2>2
  <2>7. clock' \in 0..MaxTime /\ clock <= clock' /\ x.cutoff <= clock'
    BY <2>4, <2>6, <1>00
  <2>8. QuietTo(c, x)
    BY <2>3, <2>5, <2>6, <2>7 DEF QuietTo, Locking
  <2>. QED
    BY <2>3, <2>8, QuietStep
<1>7. CASE Abort(c)
  <2>1. cli' = [cli EXCEPT ![c] = Off] /\ UNCHANGED <<clock, runs, op, pubs>> /\ Releases(c)
    BY <1>7 DEF Abort, Stops
  <2>2. holder' # c /\ \A d \in Clis \ {c} : holder = d <=> holder' = d
    BY <2>1, LineageAssumption DEF Releases, LineageAssumption
  <2>3. Off.at = "off"
    BY DEF Off
  <2>4. QuietTo(c, Off)
    BY <2>1, <2>2, <2>3, <1>00 DEF QuietTo, Locking
  <2>. QED
    BY <2>4, OffOK, QuietStep
<1>. QED
  BY <1>1, <1>2, <1>3, <1>4, <1>5, <1>6, <1>7 DEF Quiet

LEMMA IngestCommits ==
    ASSUME LineageInv, NEW c \in Clis, CommitIngest(c)
    PROVE  \E O \in SUBSET Ops : \E R : CommitStep(c, O, R)
<1>. USE DEF LineageInv
<1>0. /\ runs \subseteq Run /\ op \in [Ops -> Operation] /\ cli \in [Clis -> Process]
      /\ cli[c].now \in Nat
  BY DEF LineageTypeOK, Process
<1>1. PICK o \in Ops, got \in Fetched :
         /\ ~op[o].done
         /\ \A r \in Reused(got) : Reusable(c, r)
         /\ runs' = runs \cup NewRuns(c, o, got)
         /\ op' = [p \in Ops |->
                    IF p = o THEN [done |-> TRUE, avail |-> 0,
                                   rests |-> Reused(got) \cup NewRuns(c, o, got)]
                    ELSE Finalized(c, p)]
         /\ cli' = [cli EXCEPT ![c] = [Off EXCEPT !.at = "committed", !.mine = {o}]]
  BY DEF CommitIngest
<1>2. NewRuns(c, o, got) \subseteq Run /\ \A r \in NewRuns(c, o, got) : r.op = o
  <2>. PICK F \in SUBSET Filings : got \in [F -> Contents]
    BY DEF Fetched
  <2>. SUFFICES ASSUME NEW r \in NewRuns(c, o, got) PROVE r \in Run /\ r.op = o
    OBVIOUS
  <2>1. PICK f \in F : r = [filing |-> f, content |-> got[f], known |-> cli[c].now, op |-> o]
    BY DEF NewRuns
  <2>. QED
    BY <1>0, <2>1 DEF Run
<1>3. /\ Reused(got) \subseteq Run
      /\ \A r \in Reused(got) : r.op \in Ops \ {o} /\ Reusable(c, r)
  BY <1>0, <1>1 DEF Reused, Rests, Run
<1>4. op'[o] = [done |-> TRUE, avail |-> 0, rests |-> Reused(got) \cup NewRuns(c, o, got)]
  BY <1>1
<1>5. op'[o] \in Operation /\ op'[o].done /\ op'[o].avail = 0
      /\ \A r \in op'[o].rests : r.op = o \/ (r.op \in Ops \ {o} /\ Reusable(c, r))
  BY <1>2, <1>3, <1>4 DEF Operation
<1>6. \A p \in Ops \ {o} : op'[p] = Finalized(c, p)
  BY <1>1
<1>7. op' = [p \in Ops |-> op'[p]]
  BY <1>1
<1>8. [Off EXCEPT !.at = "committed", !.mine = {o}] \in Process
      /\ [Off EXCEPT !.at = "committed", !.mine = {o}].at = "committed"
  BY DEF Off, Process
<1>9. cli[c].at \in Locking /\ Releases(c) /\ UNCHANGED <<clock, pubs>>
  BY DEF CommitIngest, Locking
<1>10. CommitStep(c, {o}, NewRuns(c, o, got))
  BY <1>1, <1>2, <1>5, <1>6, <1>7, <1>8, <1>9 DEF CommitStep
<1>. QED
  BY <1>10

LEMMA FinalizeCommits ==
    ASSUME LineageInv, NEW c \in Clis, CommitFinalize(c)
    PROVE  \E O \in SUBSET Ops : \E R : CommitStep(c, O, R)
<1>1. [Off EXCEPT !.at = "finalized"] \in Process /\ [Off EXCEPT !.at = "finalized"].at = "finalized"
  BY DEF Off, Process
<1>2. op' = [o \in Ops |-> Finalized(c, o)] /\ \A o \in Ops : op'[o] = Finalized(c, o)
  BY DEF CommitFinalize
<1>3. op' = [o \in Ops |-> op'[o]]
  BY <1>2
<1>4. /\ cli[c].at \in Locking /\ Releases(c) /\ UNCHANGED <<clock, pubs>> /\ runs' = runs \cup {}
      /\ cli' = [cli EXCEPT ![c] = [Off EXCEPT !.at = "finalized"]]
  BY DEF CommitFinalize, Locking
<1>5. CommitStep(c, {}, {})
  BY <1>1, <1>2, <1>3, <1>4 DEF CommitStep
<1>. QED
  BY <1>5

\* Every step commits nothing, commits an operation, or publishes.
LEMMA StepKinds ==
    ASSUME LineageInv, LineageNext
    PROVE  \E c \in Clis : \/ Quiet(c)
                           \/ \E O \in SUBSET Ops : \E R : CommitStep(c, O, R)
                           \/ PublishSec(c)
BY IngestCommits, FinalizeCommits DEF LineageNext, Quiet

LEMMA LineageStep == LineageInv /\ [LineageNext]_<<lineageVars, holder>> => LineageInv'
<1>. SUFFICES ASSUME LineageInv, [LineageNext]_<<lineageVars, holder>> PROVE LineageInv'
  OBVIOUS
<1>1. CASE UNCHANGED <<lineageVars, holder>>
  BY <1>1, OthersKeep DEF OthersStep
<1>2. CASE LineageNext
  BY <1>2, StepKinds, QuietKeeps, CommitKeeps, PublishKeeps
<1>. QED
  BY <1>1, <1>2

\* Whatever the processes of the command line do alone, the inductive invariant holds: the
\* types, the lock, the stamps that lie ahead of all that is known, and WholeLineage.
THEOREM LineageInvariant == LineageSpec => []LineageInv
<1>. QED
  BY LineageInitially, LineageStep, PTL DEF LineageSpec

-----------------------------------------------------------------------------
(* The refinement of PointInTime: commits learn, publications answer.       *)

Learned == {<<r, op[r.op].avail>> : r \in {q \in runs : op[q.op].avail # 0}}
Answers == {[at |-> p.cutoff, says |-> p.sources] : p \in pubs}

LEMMA QuietStutters ==
    ASSUME NEW c \in Clis, Quiet(c)
    PROVE  Learned' = Learned /\ Answers' = Answers
<1>1. UNCHANGED <<runs, op, pubs>>
  BY DEF Quiet, Start, GoOn, BeginIngest, BeginFinalize, Ask, Select, Abort
<1>. QED
  BY <1>1 DEF Learned, Answers

\* The time stamped is later than every time that has been asked about.
LEMMA CommitLearns ==
    ASSUME LineageInv, NEW c \in Clis, NEW O \in SUBSET Ops, NEW R, CommitStep(c, O, R)
    PROVE  /\ Learned \subseteq Learned'
           /\ \A p \in Learned' \ Learned : \A a \in Answers : a.at < p[2]
           /\ Answers' = Answers
<1>. USE DEF LineageInv
<1>0. runs \subseteq Run /\ runs' \subseteq Run
  BY DEF CommitStep, LineageTypeOK
<1>1. ASSUME NEW p \in Learned PROVE p \in Learned'
  <2>1. PICK r \in runs : op[r.op].avail # 0 /\ p = <<r, op[r.op].avail>>
    BY DEF Learned
  <2>2. r.op \in Ops
    BY <1>0 DEF Run
  <2>3. op'[r.op].avail = op[r.op].avail
    BY <2>1, <2>2, Availability
  <2>. QED
    BY <2>1, <2>3 DEF Learned, CommitStep
<1>2. ASSUME NEW p \in Learned', p \notin Learned, NEW a \in Answers PROVE a.at < p[2]
  <2>1. PICK r \in runs' : op'[r.op].avail # 0 /\ p = <<r, op'[r.op].avail>>
    BY DEF Learned
  <2>2. r.op \in Ops
    BY <1>0 DEF Run
  <2>3. r.op \notin O
    BY <2>1, <2>2, Availability
  <2>4. r \in runs
    BY <2>3 DEF CommitStep
  <2>5. r.op \in cli[c].stamped
    <3>. SUFFICES ASSUME r.op \notin cli[c].stamped PROVE FALSE
      OBVIOUS
    <3>1. op'[r.op].avail = op[r.op].avail
      BY <2>2, Availability
    <3>. QED
      BY <1>2, <2>1, <2>4, <3>1 DEF Learned
  <2>6. op'[r.op].avail = cli[c].stamp
    BY <2>2, <2>3, <2>5, Availability
  <2>7. PICK q \in pubs : a.at = q.cutoff
    BY DEF Answers
  <2>8. q.cutoff < cli[c].stamp
    BY <2>5 DEF Stamped, StampOK, CommitStep
  <2>. QED
    BY <2>1, <2>6, <2>7, <2>8
<1>3. Answers' = Answers
  BY DEF Answers, CommitStep
<1>. QED
  BY <1>1, <1>2, <1>3

LEMMA KnownIsAvailable ==
    ASSUME LineageInv, NEW t \in Nat
    PROVE  {p[1] : p \in {q \in Learned : ~(t < q[2])}} = AvailableAt(t)
<1>1. ASSUME NEW r \in runs PROVE op[r.op].avail \in Nat
  BY DEF LineageInv, LineageTypeOK, Run, Operation
<1>2. ASSUME NEW r \in AvailableAt(t)
      PROVE  r \in {p[1] : p \in {q \in Learned : ~(t < q[2])}}
  <2>1. r \in runs /\ op[r.op].avail \in 1..t
    BY DEF AvailableAt
  <2>2. op[r.op].avail # 0 /\ ~(t < op[r.op].avail)
    BY <1>1, <2>1
  <2>3. <<r, op[r.op].avail>> \in Learned
    BY <2>1, <2>2 DEF Learned
  <2>. QED
    BY <2>2, <2>3
<1>3. ASSUME NEW r \in {p[1] : p \in {q \in Learned : ~(t < q[2])}}
      PROVE  r \in AvailableAt(t)
  <2>1. PICK q \in Learned : ~(t < q[2]) /\ r = q[1]
    BY <1>3
  <2>2. PICK s \in runs : op[s.op].avail # 0 /\ q = <<s, op[s.op].avail>>
    BY DEF Learned
  <2>3. r = s /\ ~(t < op[s.op].avail)
    BY <2>1, <2>2
  <2>4. op[s.op].avail \in 1..t
    BY <1>1, <2>2, <2>3
  <2>. QED
    BY <2>2, <2>3, <2>4 DEF AvailableAt
<1>. QED
  BY <1>2, <1>3

LEMMA PublishAnswers ==
    ASSUME LineageInv, NEW c \in Clis, PublishSec(c)
    PROVE  Past!Answer
<1>0. runs \subseteq Run /\ cli[c].cutoff \in Nat
  BY DEF LineageInv, LineageTypeOK, Process
<1>. DEFINE cutoff == cli[c].cutoff
<1>1. AvailableAt(cutoff) \in SUBSET Run
  BY <1>0 DEF AvailableAt
<1>2. pubs' = pubs \cup {[cutoff |-> cutoff, sources |-> Sources(AvailableAt(cutoff))]}
  BY DEF PublishSec
<1>3. Answers' = Answers \cup {[at |-> cutoff, says |-> Sources(AvailableAt(cutoff))]}
  <2>. DEFINE S == Sources(AvailableAt(cutoff))
              new == [cutoff |-> cutoff, sources |-> S]
  <2>1. new.cutoff = cutoff /\ new.sources = S /\ pubs' = pubs \cup {new}
    BY <1>2
  <2>2. Answers' = {[at |-> p.cutoff, says |-> p.sources] : p \in pubs'}
    BY DEF Answers
  <2>. HIDE DEF S, new, cutoff
  <2>3. {[at |-> p.cutoff, says |-> p.sources] : p \in pubs \cup {new}}
        = {[at |-> p.cutoff, says |-> p.sources] : p \in pubs}
          \cup {[at |-> new.cutoff, says |-> new.sources]}
    OBVIOUS
  <2>4. Answers' = Answers \cup {[at |-> cutoff, says |-> S]}
    BY <2>1, <2>2, <2>3 DEF Answers
  <2>. QED
    BY <2>4 DEF S
<1>4. Learned' = Learned
  BY DEF PublishSec, Learned
<1>5. ASSUME NEW a \in Answers', a \notin Answers
      PROVE  a.says = [Q \in SUBSET Run |-> Sources(Q)]
                        [{p[1] : p \in {q \in Learned : ~(a.at < q[2])}}]
  <2>1. a.at = cutoff /\ a.says = Sources(AvailableAt(cutoff))
    BY <1>3, <1>5
  <2>. QED
    BY <1>0, <1>1, <2>1, KnownIsAvailable
<1>. QED
  BY <1>3, <1>4, <1>5 DEF Past!Answer, Past!KnownAt, Learned, Answers

LEMMA InitialPast == LineageInit => Past!Init
BY DEF LineageInit, Past!Init

LEMMA PastStep ==
    LineageInv /\ [LineageNext]_<<lineageVars, holder>> => [Past!Next]_Past!vars
<1>. SUFFICES ASSUME LineageInv, [LineageNext]_<<lineageVars, holder>>
              PROVE  [Past!Next]_Past!vars
  OBVIOUS
<1>1. CASE UNCHANGED <<lineageVars, holder>>
  BY <1>1 DEF lineageVars, Past!vars
<1>2. ASSUME NEW c \in Clis, Quiet(c) PROVE [Past!Next]_Past!vars
  BY <1>2, QuietStutters DEF Past!vars, Learned, Answers
<1>3. ASSUME NEW c \in Clis, NEW O \in SUBSET Ops, NEW R, CommitStep(c, O, R)
      PROVE  [Past!Next]_Past!vars
  <2>1. Past!Learn
    BY <1>3, CommitLearns DEF Past!Learn, Learned, Answers
  <2>. QED
    BY <2>1 DEF Past!Next
<1>4. ASSUME NEW c \in Clis, PublishSec(c) PROVE [Past!Next]_Past!vars
  BY <1>4, PublishAnswers DEF Past!Next
<1>. QED
  BY <1>1, <1>2, <1>3, <1>4, StepKinds

\* Every step learns what is later than all that was asked, or answers from what is known
\* at the time in question: the SEC lineage implements PointInTime, so that a publication
\* about an earlier time is what it was (publish_sec_mapping_result).
THEOREM LineageIsPointInTime == LineageSpec => PastIsKept
<1>. QED
  BY LineageInvariant, InitialPast, PastStep, PTL DEF LineageSpec, PastIsKept, Past!Spec

LEMMA PastInitially == Past!Init => Past!Reproducible
BY DEF Past!Init, Past!Reproducible

LEMMA PastKept == Past!Reproducible /\ [Past!Next]_Past!vars => Past!Reproducible'
<1>. SUFFICES ASSUME Past!Reproducible, [Past!Next]_Past!vars PROVE Past!Reproducible'
  OBVIOUS
<1>1. CASE UNCHANGED Past!vars
  BY <1>1 DEF Past!vars, Past!Reproducible, Past!KnownAt
<1>2. CASE Past!Learn
  <2>. SUFFICES ASSUME NEW a \in Answers
                PROVE  Past!KnownAt(a.at)' = Past!KnownAt(a.at)
    BY <1>2 DEF Past!Learn, Past!Reproducible, Past!KnownAt, Answers
  <2>1. Learned \subseteq Learned' /\ \A p \in Learned' \ Learned : a.at < p[2]
    BY <1>2 DEF Past!Learn, Learned, Answers
  <2>2. {q \in Learned' : ~(a.at < q[2])} = {q \in Learned : ~(a.at < q[2])}
    BY <2>1
  <2>. QED
    BY <2>2 DEF Past!KnownAt, Learned
<1>3. CASE Past!Answer
  BY <1>3 DEF Past!Answer, Past!Reproducible, Past!KnownAt
<1>. QED
  BY <1>1, <1>2, <1>3 DEF Past!Next

\* Whoever asks again about the time of an earlier publication gets what it says.
THEOREM AskedAgain == LineageSpec => []Past!Reproducible
<1>. QED
  BY LineageIsPointInTime, PastInitially, PastKept, PTL DEF PastIsKept, Past!Spec

-----------------------------------------------------------------------------
(* Both on one lock.                                                        *)

\* A step of one session as the lock sees it.
LockStep(s) == UNCHANGED holder \/ Takes(s) \/ Releases(s)

LEMMA LockStepOthers ==
    ASSUME NEW s, NEW u, s # u, u # Nobody, LockStep(s)
    PROVE  holder = u <=> holder' = u
BY DEF LockStep, Takes, Releases

LEMMA FactsLock == FactsNext => \E s \in Users : LockStep(s)
<1>. SUFFICES ASSUME NEW s \in Users, Starts(s) \/ Continues(s) \/ Crash(s) PROVE LockStep(s)
  BY DEF FactsNext
<1>1. ASSUME Starts(s) PROVE LockStep(s)
  BY <1>1 DEF Starts, Upload, Reparse, Retire, Deduplicate, LockRows, NothingToDemote, Ends, LockStep
<1>2. ASSUME Continues(s) PROVE LockStep(s)
  BY <1>2 DEF Continues, Parse, CannotParse, TakeToWrite, Refuse, Publish, RetireDuplicates,
              TakeToRetire, RetireFails, FinishRetire, AbortDeadlocked, FailsParse, LockRows,
              NothingToDemote, Ends, LockStep
<1>3. ASSUME Crash(s) PROVE LockStep(s)
  BY <1>3 DEF Crash, Ends, LockStep
<1>. QED
  BY <1>1, <1>2, <1>3

LEMMA LineageLock == LineageNext => \E c \in Clis : LockStep(c)
BY DEF LineageNext, Start, GoOn, BeginIngest, CommitIngest, BeginFinalize, CommitFinalize,
       Ask, Select, PublishSec, Abort, Stops, LockStep

LEMMA StockStep ==
    FactsInv /\ LineageInv /\ [StockNext]_stockVars => FactsInv' /\ LineageInv'
<1>. SUFFICES ASSUME FactsInv, LineageInv, [StockNext]_stockVars PROVE FactsInv' /\ LineageInv'
  OBVIOUS
<1>1. CASE FactsNext /\ UNCHANGED lineageVars
  <2>1. PICK s \in Users : LockStep(s)
    BY <1>1, FactsLock
  <2>2. \A c \in Clis : holder = c <=> holder' = c
    BY <2>1, LockStepOthers, SessionsDiffer, LineageAssumption DEF LineageAssumption
  <2>. QED
    BY <1>1, <2>2, FactsStep, OthersKeep DEF OthersStep
<1>2. CASE LineageNext /\ UNCHANGED factVars
  <2>1. PICK c \in Clis : LockStep(c)
    BY <1>2, LineageLock
  <2>2. \A s \in Users : holder = s <=> holder' = s
    BY <2>1, LockStepOthers, SessionsDiffer, FactsAssumption DEF FactsAssumption
  <2>. QED
    BY <1>2, <2>2, LineageStep, ElsewhereKeeps DEF ElsewhereStep
<1>3. CASE UNCHANGED stockVars
  BY <1>3, OthersKeep, ElsewhereKeeps DEF stockVars, OthersStep, ElsewhereStep
<1>. QED
  BY <1>1, <1>2, <1>3 DEF StockNext

\* Both inductive invariants hold of documents and SEC filings together.
THEOREM StockInvariant == StockSpec => [](FactsInv /\ LineageInv)
<1>1. StockInit => FactsInv /\ LineageInv
  BY FactsInitially, LineageInitially DEF StockInit
<1>. QED
  BY <1>1, StockStep, PTL DEF StockSpec

\* With documents and SEC filings of a stock at work together, every variable keeps its
\* type, and the one lock is held by whoever is at a step under it.
THEOREM StockTypes == StockSpec => []StockTypeOK
<1>1. FactsInv /\ LineageInv => StockTypeOK
  BY DEF FactsInv, LineageInv, StockTypeOK
<1>. QED
  BY <1>1, StockInvariant, PTL

\* However parses and retirements overlap, no fact of an older report is current and no
\* two current ones agree (_reconcile_parsed_fact_current_slot).
THEOREM StockLatestIsCurrent == StockSpec => []CurrentIsLatest
<1>1. FactsInv => CurrentIsLatest
  BY DEF FactsInv
<1>. QED
  BY <1>1, StockInvariant, PTL

\* As long as no document of the latest date is retired, every value that a parse of one
\* of them has read is among the current ones.
THEOREM StockDisputesAreShown == StockSpec => []DisagreementShown
<1>1. FactsInv => DisagreementShown
  BY DEF FactsInv
<1>. QED
  BY <1>1, StockInvariant, PTL

\* What is calculated rests on a current value, and an undisputed value is calculated with
\* (_run_calculated_metrics, _refresh_calculated_facts).
THEOREM StockCalculationsRest == StockSpec => []CalculatedRests
<1>1. FactsInv => CalculatedRests
  BY DEF FactsInv
<1>. QED
  BY <1>1, StockInvariant, PTL

\* Whatever is stopped between two commits, an operation becomes available after all the
\* runs it rests on (the pending-lineage check of ingest_latest_financial_filings).
THEOREM StockLineageIsWhole == StockSpec => []WholeLineage
<1>1. LineageInv => WholeLineage
  BY DEF LineageInv
<1>. QED
  BY <1>1, StockInvariant, PTL

\* The SEC lineage implements PointInTime while sessions parse documents under the same
\* lock: a publication about a time is what it would be now (publish_sec_mapping_result).
THEOREM StockIsPointInTime == StockSpec => PastIsKept
<1>1. StockInit => Past!Init
  BY InitialPast DEF StockInit
<1>2. LineageInv /\ [StockNext]_stockVars => [Past!Next]_Past!vars
  <2>. SUFFICES ASSUME LineageInv, [StockNext]_stockVars PROVE [Past!Next]_Past!vars
    OBVIOUS
  <2>1. CASE LineageNext
    BY <2>1, PastStep
  <2>2. CASE UNCHANGED lineageVars
    BY <2>2 DEF lineageVars, Past!vars
  <2>. QED
    BY <2>1, <2>2 DEF StockNext, stockVars
<1>. QED
  BY <1>1, <1>2, StockInvariant, PTL DEF StockSpec, PastIsKept, Past!Spec
=============================================================================
