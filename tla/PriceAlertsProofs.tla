-------------------------- MODULE PriceAlertsProofs --------------------------
(***************************************************************************)
(* Proofs about Digests and PriceAlerts together, for any number of keys,  *)
(* producers, schedulers and days: the types; and, when no producer's      *)
(* transaction spans midnight and nothing is produced while an edit is     *)
(* being written, that the user is told once of what happened, and that    *)
(* the next digest reaches what is untold.                                 *)
(***************************************************************************)
EXTENDS PriceAlerts, WellFoundedInduction, TLAPS

(* What a step of PriceAlerts is to Digests, if it is not a stutter: an     *)
(* alert stored at once, or an edit of the threshold.                       *)
Alerted ==
    /\ SlowEdits \/ ~Editing
    /\ \E k \in Keys :
          /\ note[k].at = "none"
          /\ note' = [note EXCEPT ![k] =
                         [at |-> "stored", created |-> clock, id |-> nextId,
                          told |-> IF sub.frequency = "immediate" THEN 1 ELSE 0]]
    /\ clock' = clock + 1 /\ nextId' = nextId + 1
    /\ UNCHANGED <<midnights, morning, prod, sub, edit, digests>>

Retouched ==
    /\ ~Editing /\ (SlowEdits \/ \A p \in Producers : prod[p].at = "idle")
    /\ sub' = [sub EXCEPT !.updated = clock]
    /\ clock' = clock + 1
    /\ UNCHANGED <<midnights, morning, nextId, note, prod, edit, digests>>

Step == Next \/ Alerted \/ Retouched \/ UNCHANGED vars

LEMMA AlertSteps == ASSUME [AllNext]_allVars PROVE Step
<1>1. CASE DigestNext
  BY <1>1 DEF DigestNext, Step
<1>2. ASSUME NEW r \in Replicas, Cross(r) PROVE Alerted
  <2>1. NextKey \in Keys /\ note[NextKey].at = "none"
    BY <1>2 DEF Cross, NextKey
  <2>. QED
    BY <1>2, <2>1 DEF Cross, Alerted
<1>3. ASSUME NEW margin \in Margins, SetMargin(margin) PROVE Retouched
  BY <1>3 DEF SetMargin, Retouched
<1>4. CASE AlertNext
  <2>1. ASSUME NEW f \in Fetchers, EndRefresh(f) \/ \E t \in {now, DayEnd(now)} : StartRefresh(f, t)
        PROVE  UNCHANGED vars
    BY <2>1 DEF EndRefresh, StartRefresh
  <2>2. ASSUME NEW monitoring \in BOOLEAN,
               (\E value \in Values \cup {0} : SaveRevision(monitoring, value))
                 \/ SaveWithoutValue(monitoring)
        PROVE  UNCHANGED vars
    BY <2>2 DEF SaveRevision, SaveWithoutValue
  <2>3. ASSUME NEW r \in Replicas, BeginRun(r) \/ Evaluate(r) \/ CrashRun(r), ~Cross(r)
        PROVE  UNCHANGED vars
    BY <2>3 DEF BeginRun, Evaluate, CrashRun, NothingToSee, Initialize, Observe, RecordNotified
  <2>4. ASSUME Tick PROVE UNCHANGED vars
    BY <2>4 DEF Tick
  <2>. QED
    BY <1>2, <1>3, <1>4, <2>1, <2>2, <2>3, <2>4 DEF AlertNext, Evaluate, Step
<1>. QED
  BY <1>1, <1>4 DEF AllNext, allVars, Step

-----------------------------------------------------------------------------
\* Numbers.

LEMMA Greatest ==
    ASSUME NEW S \in SUBSET Nat, S # {}, NEW n \in Nat, \A x \in S : x <= n
    PROVE  \E x \in S : \A y \in S : y <= x
<1>. DEFINE Less == {ss \in Nat \X Nat : ss[1] < ss[2]}
            T == {n - x : x \in S}
<1>1. IsWellFoundedOn(Less, Nat)
  BY NatLessThanWellFounded DEF OpToRel
<1>2. /\ \A x \in S : x \in Nat /\ n - x \in Nat
      /\ T \subseteq Nat /\ T # {}
  <2>1. \A x \in S : x \in Nat /\ x <= n
    OBVIOUS
  <2>2. \A x \in S : n - x \in Nat
    BY <2>1
  <2>. QED
    BY <2>1, <2>2
<1>3. PICK t \in T : \A u \in T : <<u, t>> \notin Less
  <2>. HIDE DEF Less, T
  <2>. QED
    BY <1>1, <1>2, WFMin
<1>4. \A u \in T : t <= u
  <2>. TAKE u \in T
  <2>1. u \in Nat /\ t \in Nat /\ <<u, t>> \notin Less
    BY <1>2, <1>3
  <2>2. <<u, t>> \in Nat \X Nat /\ ~(u < t)
    BY <2>1
  <2>. QED
    BY <2>1, <2>2
<1>5. PICK x \in S : t = n - x
  OBVIOUS
<1>6. \A y \in S : n - x <= n - y
  BY <1>4, <1>5
<1>. QED
  BY <1>2, <1>6
\* How a week divides the days.
LEMMA Weeks ==
    ASSUME NEW n \in Nat, NEW w \in Nat \ {0}
    PROVE  /\ n % w \in 0..n /\ n - (n % w) \in 0..n
           /\ n % w # 0 => n - (n % w) = (n - 1) - ((n - 1) % w)
<1>. DEFINE q == n \div w   r == n % w
            p == (n - 1) \div w   s == (n - 1) % w
<1>1. q \in Int /\ r \in 0..(w - 1) /\ n = w * q + r
  OBVIOUS
<1>2. p \in Int /\ s \in 0..(w - 1) /\ n - 1 = w * p + s
  OBVIOUS
<1>. HIDE DEF q, r, p, s
<1>3. q >= 0
  <2>. SUFFICES ASSUME q <= -1 PROVE FALSE
    BY <1>1
  <2>1. w * q <= w * (-1)
    BY <1>1
  <2>. QED
    BY <1>1, <2>1
<1>4. w * q >= 0
  BY <1>1, <1>3
<1>5. r \in 0..n /\ n - r \in 0..n
  BY <1>1, <1>4
<1>6. ASSUME r # 0 PROVE p = q
  <2>1. r >= 1
    BY <1>1, <1>6
  <2>2. CASE q >= p + 1
    <3>1. w * q >= w * (p + 1)
      BY <2>2, <1>1, <1>2
    <3>2. w * (p + 1) = w * p + w
      BY <1>1, <1>2
    <3>. QED
      BY <3>1, <3>2, <1>1, <1>2, <2>1
  <2>3. CASE q <= p - 1
    <3>1. w * q <= w * (p - 1)
      BY <2>3, <1>1, <1>2
    <3>2. w * (p - 1) = w * p - w
      BY <1>1, <1>2
    <3>. QED
      BY <3>1, <3>2, <1>1, <1>2
  <2>. QED
    BY <2>2, <2>3, <1>1, <1>2
<1>7. ASSUME r # 0 PROVE n - r = (n - 1) - s
  BY <1>6, <1>7, <1>1, <1>2
<1>. QED
  BY <1>5, <1>7 DEF r, s
-----------------------------------------------------------------------------
(* Types. Time runs ahead of what it stamped; ids run ahead of the rows;     *)
(* what is written is one producer's; and what a scheduler has collected is *)
(* stored, and was created before its period ended.                         *)

Awake == {r \in Replicas : rep[r] # Asleep}

Clocked ==
    /\ ~morning => Day >= 1
    /\ \A d, e \in 1..Day : d <= e => midnights[d] <= midnights[e]
    /\ sub.updated < clock /\ edit.updated < clock
    /\ \A p \in Producers : prod[p].at # "idle" => prod[p].began < clock
    /\ \A k \in Keys : note[k].at # "none" => note[k].created < clock /\ note[k].id < nextId

Writers ==
    /\ \A p \in Producers : prod[p].at = "written" =>
          /\ prod[p].key \in Keys
          /\ note[prod[p].key].at = "written"
          /\ note[prod[p].key].created = prod[p].began
    /\ \A p, q \in Producers :
          prod[p].at = "written" /\ prod[q].at = "written" /\ prod[p].key = prod[q].key => p = q

Collected ==
    \A r \in Awake :
        /\ rep[r].frequency \in DigestFrequencies
        /\ rep[r].end \in 1..Day
        /\ rep[r].sources # {}
        /\ \A k \in rep[r].sources : /\ note[k].at = "stored" /\ note[k].id > 0
                                     /\ note[k].created < Midnight(rep[r].end)

Shape == TypeOK /\ Clocked /\ Writers /\ Collected

LEMMA Parameters == /\ Week \in Nat \ {0}
                    /\ Straddling \in BOOLEAN /\ SlowEdits \in BOOLEAN
BY DigestsAssumption DEF DigestsAssumption

\* The days and their midnights.
LEMMA Days ==
    ASSUME TypeOK
    PROVE  /\ Day \in Nat /\ clock \in Nat
           /\ \A d \in 1..Day : midnights[d] \in 1..clock
           /\ \A d \in 0..Day : Midnight(d) \in 0..clock
<1>1. Day \in Nat /\ clock \in Nat /\ \A d \in 1..Day : midnights[d] \in 1..clock
  BY DEF TypeOK, Day
<1>. QED
  BY <1>1 DEF Midnight

LEMMA Midnights ==
    ASSUME TypeOK, Clocked
    PROVE  \A d, e \in 0..Day : d <= e => Midnight(d) <= Midnight(e)
<1>1. \A d, e \in 1..Day : d <= e => midnights[d] <= midnights[e]
  BY DEF Clocked
<1>. QED
  BY <1>1, Days DEF Midnight

LEMMA PeriodEnds ==
    ASSUME TypeOK, Clocked, NEW f \in DigestFrequencies, NEW a \in {Before, Now}
    PROVE  /\ PeriodEnd(f, a) \in 0..Day
           /\ \A b \in {Before, Now} :
                 Eligible(f, a) /\ Eligible(f, b) => PeriodEnd(f, a) = PeriodEnd(f, b)
<1>1. Day \in Nat /\ morning \in BOOLEAN /\ (~morning => Day - 1 \in 0..Day) /\ Week \in Nat \ {0}
  BY Days, Parameters DEF TypeOK, Clocked
<1>2. Now.day = Day /\ Now.morning = morning
  BY DEF Now
<1>3. Before.day = (IF morning THEN Day ELSE Day - 1) /\ Before.morning = ~morning
  BY <1>1 DEF Before
<1>4. f = "daily" \/ f = "weekly"
  BY DEF DigestFrequencies
<1>5. \A b \in {Before, Now} : b.day \in 0..Day
  BY <1>1, <1>2, <1>3
<1>6. CASE f = "daily"
  <2>1. \A b \in {Before, Now} : PeriodEnd(f, b) = b.day
    BY <1>6 DEF PeriodEnd
  <2>2. \A b \in {Before, Now} : Eligible(f, b) => b.morning
    BY <2>1, <1>5 DEF Eligible
  <2>. QED
    BY <2>1, <2>2, <1>1, <1>2, <1>3, <1>5
<1>7. CASE f = "weekly"
  <2>1. \A b \in {Before, Now} : PeriodEnd(f, b) = b.day - (b.day % Week)
    BY <1>7 DEF PeriodEnd
  <2>2. \A b \in {Before, Now} : PeriodEnd(f, b) \in 0..Day
    <3>1. \A n \in 0..Day : n - (n % Week) \in 0..Day
      <4>. TAKE n \in 0..Day
      <4>1. n \in Nat /\ n - (n % Week) \in 0..n
        BY <1>1, Weeks
      <4>. QED
        BY <4>1, <1>1
    <3>. QED
      BY <2>1, <3>1, <1>5
  <2>3. CASE morning
    BY <2>1, <2>2, <2>3, <1>2, <1>3
  <2>4. CASE ~morning /\ Day % Week # 0
    <3>1. Day - (Day % Week) = (Day - 1) - ((Day - 1) % Week)
      BY <1>1, <2>4, Weeks
    <3>. QED
      BY <2>1, <2>2, <2>4, <3>1, <1>2, <1>3
  <2>5. CASE ~morning /\ Day % Week = 0
    <3>1. PeriodEnd(f, Now) = Day
      BY <2>1, <2>5, <1>1, <1>2
    <3>2. ~Eligible(f, Now)
      BY <3>1, <2>5, <1>1, <1>2 DEF Eligible
    <3>. QED
      BY <2>2, <3>2
  <2>. QED
    BY <2>3, <2>4, <2>5, <1>1
<1>. QED
  BY <1>4, <1>6, <1>7

\* The last id that a digest covers is that of one of its sources.
LEMMA Throughs ==
    ASSUME Shape, NEW r \in Awake
    PROVE  /\ Through(r) \in 1..(nextId - 1)
           /\ \E k \in rep[r].sources : note[k].id = Through(r)
           /\ \A k \in rep[r].sources : note[k].id <= Through(r)
<1>. DEFINE S == {note[k].id : k \in rep[r].sources}
<1>1. r \in Replicas /\ rep[r].sources \subseteq Keys /\ rep[r].sources # {} /\ nextId \in Nat
  BY DEF Shape, TypeOK, Collected, Awake, Replica
<1>2. \A k \in rep[r].sources : note[k].id \in Nat /\ note[k].id > 0 /\ note[k].id < nextId
  <2>. TAKE k \in rep[r].sources
  <2>1. note[k].at = "stored" /\ note[k].id > 0
    BY DEF Shape, Collected
  <2>2. note[k].id \in Nat /\ note[k].id < nextId
    BY <1>1, <2>1 DEF Shape, TypeOK, Note, Clocked
  <2>. QED
    BY <2>1, <2>2
<1>3. S \in SUBSET Nat /\ S # {} /\ \A i \in S : i <= nextId
  BY <1>1, <1>2
<1>4. \E i \in S : \A j \in S : j <= i
  <2>. HIDE DEF S
  <2>. QED
    BY <1>1, <1>3, Greatest
<1>5. \E i \in S : \A k \in rep[r].sources : note[k].id <= i
  BY <1>4
<1>6. Through(r) \in S /\ \A k \in rep[r].sources : note[k].id <= Through(r)
  BY <1>5 DEF Through
<1>. QED
  BY <1>1, <1>2, <1>6

\* An instant more does not disturb the types.
LEMMA LaterTypes ==
    ASSUME TypeOK, clock' = clock + 1, UNCHANGED <<midnights, morning>>
    PROVE  /\ clock' \in Nat \ {0} /\ morning' \in BOOLEAN
           /\ midnights' \in Seq(1..clock')
<1>1. clock \in Nat \ {0} /\ 1..clock \subseteq 1..clock'
  BY DEF TypeOK
<1>2. midnights \in Seq(1..clock) /\ morning \in BOOLEAN
  BY DEF TypeOK
<1>. QED
  BY <1>1, <1>2

LEMMA TimeTypes ==
    ASSUME TypeOK, UNCHANGED time
    PROVE  /\ clock' \in Nat \ {0} /\ morning' \in BOOLEAN
           /\ midnights' \in Seq(1..clock')
BY DEF TypeOK, time

\* Nor does an id more.
LEMMA NextTypes ==
    ASSUME TypeOK, nextId' = nextId \/ nextId' = nextId + 1,
           UNCHANGED <<midnights, latest, made>>
    PROVE  /\ nextId' \in Nat \ {0}
           /\ latest' \in [DigestFrequencies -> 0..(nextId' - 1)]
           /\ made' \subseteq [frequency : DigestFrequencies, day : 0..Len(midnights'),
                               through : 1..(nextId' - 1)]
<1>1. nextId \in Nat \ {0} /\ nextId' \in Nat \ {0}
  BY DEF TypeOK
<1>2. 0..(nextId - 1) \subseteq 0..(nextId' - 1) /\ 1..(nextId - 1) \subseteq 1..(nextId' - 1)
  <2>1. CASE nextId' = nextId
    BY <2>1
  <2>2. CASE nextId' = nextId + 1
    BY <1>1, <2>2
  <2>. QED
    BY <2>1, <2>2
<1>3. latest \in [DigestFrequencies -> 0..(nextId - 1)]
  BY DEF TypeOK
<1>4. made \subseteq [frequency : DigestFrequencies, day : 0..Len(midnights),
                      through : 1..(nextId - 1)]
  BY DEF TypeOK
<1>5. latest \in [DigestFrequencies -> 0..(nextId' - 1)]
  BY <1>2, <1>3
<1>6. made \subseteq [frequency : DigestFrequencies, day : 0..Len(midnights),
                      through : 1..(nextId' - 1)]
  BY <1>2, <1>4
<1>. QED
  BY <1>1, <1>5, <1>6

\* Every step keeps the types.
LEMMA TypesKept == ASSUME Shape, Step PROVE TypeOK'
<1>1. /\ note \in [Keys -> Note] /\ prod \in [Producers -> Tx]
      /\ sub \in Subscription /\ edit \in Subscription /\ rep \in [Replicas -> Replica]
      /\ clock \in Nat \ {0} /\ nextId \in Nat \ {0} /\ TypeOK
  BY DEF Shape, TypeOK
<1>2. ASSUME NEW p \in Producers, Begin(p) PROVE TypeOK'
  <2>1. UNCHANGED <<nextId, note, sub, edit, latest, made, rep, midnights, morning>>
        /\ clock' = clock + 1
    BY <1>2 DEF Begin, Instant, digests
  <2>2. prod' \in [Producers -> Tx]
    <3>1. [NoTx EXCEPT !.at = "begun", !.began = clock] \in Tx
      <4>1. NoTx \in Tx
        <5>. 0 \in 0..1 /\ NoKey \in Keys \cup {NoKey}
          OBVIOUS
        <5>. QED
          BY DEF NoTx, Tx
      <4>2. clock \in Nat
        BY <1>1
      <4>. QED
        BY <4>1, <4>2 DEF Tx
    <3>. QED
      BY <1>1, <1>2, <3>1 DEF Begin
  <2>. QED
    BY <1>1, <2>1, <2>2, LaterTypes, NextTypes DEF TypeOK
<1>3. ASSUME NEW p \in Producers, NEW k \in Keys, Write(p, k) PROVE TypeOK'
  <2>1. UNCHANGED <<time, sub, edit, latest, made, rep>> /\ nextId' = nextId + 1
        /\ UNCHANGED midnights
    BY <1>3 DEF Write, digests, time
  <2>2. prod[p] \in Tx
    BY <1>1
  <2>3. note' \in [Keys -> Note]
    BY <1>1, <1>3, <2>2 DEF Write, Tx, Note
  <2>4. prod' \in [Producers -> Tx]
    <3>1. [prod[p] EXCEPT !.at = "written", !.key = k,
                          !.queued = IF sub.frequency = "immediate" THEN 1 ELSE 0] \in Tx
      <4>. DEFINE q == IF sub.frequency = "immediate" THEN 1 ELSE 0
      <4>1. q \in 0..1 /\ k \in Keys \cup {NoKey}
        OBVIOUS
      <4>. HIDE DEF q
      <4>2. [prod[p] EXCEPT !.at = "written", !.key = k, !.queued = q] \in Tx
        BY <2>2, <4>1 DEF Tx
      <4>. QED
        BY <4>2 DEF q
    <3>. QED
      BY <1>1, <1>3, <3>1 DEF Write
  <2>. QED
    BY <1>1, <2>1, <2>3, <2>4, TimeTypes, NextTypes DEF TypeOK
<1>4. ASSUME NEW p \in Producers, Store(p) PROVE TypeOK'
  <2>1. UNCHANGED <<time, nextId, sub, edit, latest, made, rep>> /\ UNCHANGED midnights
    BY <1>4 DEF Store, digests, time
  <2>2. prod[p] \in Tx /\ prod[p].key \in Keys
    BY <1>1, <1>4 DEF Store, Shape, Writers
  <2>3. note' \in [Keys -> Note]
    <3>1. [note[prod[p].key] EXCEPT !.at = "stored", !.told = prod[p].queued] \in Note
      <4>1. note[prod[p].key] \in Note /\ prod[p].queued \in 0..1 /\ 0..1 \subseteq Nat
        BY <1>1, <2>2 DEF Tx
      <4>. QED
        BY <4>1 DEF Note
    <3>. QED
      BY <1>1, <1>4, <2>2, <3>1 DEF Store
  <2>4. prod' \in [Producers -> Tx]
    BY <1>1, <1>4 DEF Store, Tx, NoTx
  <2>. QED
    BY <1>1, <2>1, <2>3, <2>4, TimeTypes, NextTypes DEF TypeOK
<1>5. ASSUME NEW p \in Producers, RollBack(p) PROVE TypeOK'
  <2>1. UNCHANGED <<time, nextId, sub, edit, latest, made, rep>> /\ UNCHANGED midnights
    BY <1>5 DEF RollBack, digests, time
  <2>3. note' \in [Keys -> Note]
    BY <1>1, <1>5 DEF RollBack, Note, NoNote
  <2>4. prod' \in [Producers -> Tx]
    BY <1>1, <1>5 DEF RollBack, Tx, NoTx
  <2>. QED
    BY <1>1, <2>1, <2>3, <2>4, TimeTypes, NextTypes DEF TypeOK
<1>6. ASSUME NEW f \in Frequencies, BeginEdit(f) PROVE TypeOK'
  <2>1. UNCHANGED <<nextId, note, prod, sub, latest, made, rep, midnights, morning>>
        /\ clock' = clock + 1
    BY <1>6 DEF BeginEdit, Instant, digests
  <2>2. edit' \in Subscription
    BY <1>1, <1>6 DEF BeginEdit, Subscription
  <2>. QED
    BY <1>1, <2>1, <2>2, LaterTypes, NextTypes DEF TypeOK
<1>7. ASSUME CommitEdit PROVE TypeOK'
  <2>1. UNCHANGED <<time, nextId, note, prod, latest, made, rep>> /\ UNCHANGED midnights
    BY <1>7 DEF CommitEdit, digests, time
  <2>2. sub' \in Subscription /\ edit' \in Subscription
    BY <1>1, <1>7 DEF CommitEdit, Subscription, NoEdit, Frequencies
  <2>. QED
    BY <1>1, <2>1, <2>2, TimeTypes, NextTypes DEF TypeOK
<1>8. ASSUME NEW r \in Replicas, NEW a \in {Before, Now}, Collect(r, a) PROVE TypeOK'
  <2>1. UNCHANGED <<time, nextId, note, prod, sub, edit, latest, made>> /\ UNCHANGED midnights
    BY <1>8 DEF Collect, time
  <2>2. PeriodEnd(sub.frequency, a) \in Nat /\ sub.frequency \in DigestFrequencies
    BY <1>1, <1>8, PeriodEnds, Days DEF Collect, Shape
  <2>3. Sources(PeriodEnd(sub.frequency, a)) \subseteq Keys
    BY DEF Sources
  <2>4. rep' \in [Replicas -> Replica]
    BY <1>1, <1>8, <2>2, <2>3 DEF Collect, Replica
  <2>. QED
    BY <1>1, <2>1, <2>4, TimeTypes, NextTypes DEF TypeOK
<1>9. ASSUME NEW r \in Replicas, Digest(r) PROVE TypeOK'
  <2>1. UNCHANGED <<time, nextId, prod, sub, edit>> /\ UNCHANGED midnights /\ r \in Awake
    BY <1>9 DEF Digest, time, Awake
  <2>2. rep' \in [Replicas -> Replica]
    BY <1>1, <1>9 DEF Digest, Replica, Asleep
  <2>3. /\ note' \in [Keys -> Note]
        /\ latest' \in [DigestFrequencies -> 0..(nextId' - 1)]
        /\ made' \subseteq [frequency : DigestFrequencies, day : 0..Len(midnights'),
                            through : 1..(nextId' - 1)]
    <3>1. CASE UNCHANGED <<made, latest, note>>
      BY <1>1, <2>1, <3>1, NextTypes
    <3>2. CASE ~UNCHANGED <<made, latest, note>>
      <4>1. /\ Through(r) \in 1..(nextId - 1)
            /\ rep[r].frequency \in DigestFrequencies /\ rep[r].end \in 0..Len(midnights)
        BY <2>1, Throughs, Days DEF Shape, Collected, Day
      <4>2. /\ made' = made \cup {[frequency |-> rep[r].frequency, day |-> rep[r].end,
                                   through |-> Through(r)]}
            /\ latest' = [latest EXCEPT ![rep[r].frequency] = Through(r)]
            /\ note' = [k \in Keys |-> IF k \in rep[r].sources
                                       THEN [note[k] EXCEPT !.told = @ + 1] ELSE note[k]]
        BY <1>9, <3>2 DEF Digest
      <4>3. note' \in [Keys -> Note]
        BY <1>1, <4>2 DEF Note
      <4>4. latest' \in [DigestFrequencies -> 0..(nextId - 1)]
        BY <1>1, <4>1, <4>2 DEF TypeOK
      <4>5. made' \subseteq [frequency : DigestFrequencies, day : 0..Len(midnights),
                             through : 1..(nextId - 1)]
        BY <1>1, <4>1, <4>2 DEF TypeOK
      <4>. QED
        BY <2>1, <4>3, <4>4, <4>5
    <3>. QED
      BY <3>1, <3>2
  <2>. QED
    BY <1>1, <2>1, <2>2, <2>3, TimeTypes DEF TypeOK
<1>10. ASSUME MidnightStrikes PROVE TypeOK'
  <2>1. UNCHANGED <<clock, nextId, note, prod, sub, edit, latest, made, rep>>
        /\ midnights' = Append(midnights, clock) /\ morning' = FALSE
    BY <1>10 DEF MidnightStrikes, digests
  <2>2. midnights \in Seq(1..clock) /\ clock \in 1..clock
    BY <1>1 DEF TypeOK
  <2>3. midnights' \in Seq(1..clock') /\ 0..Len(midnights) \subseteq 0..Len(midnights')
    BY <2>1, <2>2
  <2>4. made \subseteq [frequency : DigestFrequencies, day : 0..Len(midnights'),
                        through : 1..(nextId' - 1)]
    BY <1>1, <2>1, <2>3 DEF TypeOK
  <2>. QED
    BY <1>1, <2>1, <2>3, <2>4 DEF TypeOK
<1>11. ASSUME EightOClock PROVE TypeOK'
  BY <1>1, <1>11 DEF EightOClock, digests, TypeOK
<1>12. ASSUME Alerted PROVE TypeOK'
  <2>1. UNCHANGED <<prod, sub, edit, latest, made, rep, midnights, morning>>
        /\ clock' = clock + 1 /\ nextId' = nextId + 1
    BY <1>12 DEF Alerted, digests
  <2>2. note' \in [Keys -> Note]
    BY <1>1, <1>12 DEF Alerted, Note
  <2>. QED
    BY <1>1, <2>1, <2>2, LaterTypes, NextTypes DEF TypeOK
<1>13. ASSUME Retouched PROVE TypeOK'
  <2>1. UNCHANGED <<nextId, note, prod, edit, latest, made, rep, midnights, morning>>
        /\ clock' = clock + 1
    BY <1>13 DEF Retouched, digests
  <2>2. sub' \in Subscription
    BY <1>1, <1>13 DEF Retouched, Subscription
  <2>. QED
    BY <1>1, <2>1, <2>2, LaterTypes, NextTypes DEF TypeOK
<1>14. ASSUME UNCHANGED vars PROVE TypeOK'
  BY <1>1, <1>14 DEF vars, TypeOK
<1>. QED
  BY <1>2, <1>3, <1>4, <1>5, <1>6, <1>7, <1>8, <1>9, <1>10, <1>11, <1>12, <1>13, <1>14
  DEF Step, Next, Produce, Schedule

DigestOf(r) == [frequency |-> rep[r].frequency, day |-> rep[r].end, through |-> Through(r)]

\* What a step may do to a notification: it is written, or stored at once;
Written(k) ==
    \E p \in Producers :
        /\ Write(p, k) /\ note[k].at = "none"
        /\ note'[k].at = "written" /\ note'[k].created = prod[p].began
        /\ note'[k].id = nextId /\ note'[k].told = 0
Rung(k) ==
    /\ Alerted /\ note[k].at = "none"
    /\ note'[k].at = "stored" /\ note'[k].created = clock
    /\ note'[k].id = nextId
    /\ note'[k].told = IF sub.frequency = "immediate" THEN 1 ELSE 0
\* what is written is stored or erased;
Stored(k) ==
    \E p \in Producers :
        /\ Store(p) /\ prod[p].key = k /\ note[k].at = "written"
        /\ note'[k].at = "stored" /\ note'[k].created = note[k].created
        /\ note'[k].id = note[k].id /\ note'[k].told = prod[p].queued
Erased(k) ==
    \E p \in Producers :
        RollBack(p) /\ prod[p].key = k /\ note[k].at = "written" /\ note'[k] = NoNote
\* and what is stored is told by a digest.
Digested(k) ==
    \E r \in Awake :
        /\ Digest(r) /\ DigestOf(r) \notin made
        /\ k \in rep[r].sources /\ note[k].at = "stored"
        /\ note'[k].at = "stored" /\ note'[k].created = note[k].created
        /\ note'[k].id = note[k].id /\ note'[k].told = note[k].told + 1

LEMMA NoteSteps ==
    ASSUME Shape, Step, NEW k \in Keys
    PROVE  note'[k] = note[k] \/ Written(k) \/ Rung(k) \/ Stored(k) \/ Erased(k) \/ Digested(k)
<1>1. note \in [Keys -> Note]
  BY DEF Shape, TypeOK
<1>2. ASSUME NEW p \in Producers, NEW l \in Keys, Write(p, l)
      PROVE  note'[k] = note[k] \/ Written(k)
  <2>1. note' = [note EXCEPT ![l] = [at |-> "written", created |-> prod[p].began,
                                     id |-> nextId, told |-> 0]]
    BY <1>2 DEF Write
  <2>2. CASE k = l
    <3>1. note[k].at = "none"
      BY <1>2, <2>2 DEF Write
    <3>2. note'[k] = [at |-> "written", created |-> prod[p].began, id |-> nextId, told |-> 0]
      BY <1>1, <2>1, <2>2
    <3>. QED
      BY <1>2, <2>2, <3>1, <3>2 DEF Written
  <2>. QED
    BY <1>1, <2>1, <2>2
<1>3. ASSUME Alerted PROVE note'[k] = note[k] \/ Rung(k)
  <2>1. PICK l \in Keys : /\ note[l].at = "none"
                          /\ note' = [note EXCEPT ![l] =
                                [at |-> "stored", created |-> clock, id |-> nextId,
                                 told |-> IF sub.frequency = "immediate" THEN 1 ELSE 0]]
    BY <1>3 DEF Alerted
  <2>2. CASE k = l
    <3>1. note'[k] = [at |-> "stored", created |-> clock, id |-> nextId,
                      told |-> IF sub.frequency = "immediate" THEN 1 ELSE 0]
      BY <1>1, <2>1, <2>2
    <3>. QED
      BY <1>3, <2>1, <2>2, <3>1 DEF Rung
  <2>. QED
    BY <1>1, <2>1, <2>2
<1>4. ASSUME NEW p \in Producers, Store(p) PROVE note'[k] = note[k] \/ Stored(k)
  <2>1. /\ note' = [note EXCEPT ![prod[p].key] = [@ EXCEPT !.at = "stored",
                                                           !.told = prod[p].queued]]
        /\ note[prod[p].key].at = "written" /\ prod[p].key \in Keys
    BY <1>4 DEF Store, Shape, Writers
  <2>2. CASE k = prod[p].key
    <3>1. note'[k] = [note[k] EXCEPT !.at = "stored", !.told = prod[p].queued] /\ note[k] \in Note
      BY <1>1, <2>1, <2>2
    <3>. QED
      BY <1>4, <2>1, <2>2, <3>1 DEF Stored, Note
  <2>. QED
    BY <1>1, <2>1, <2>2
<1>5. ASSUME NEW p \in Producers, RollBack(p) PROVE note'[k] = note[k] \/ Erased(k)
  <2>1. CASE prod[p].at = "written"
    <3>1. /\ note' = [note EXCEPT ![prod[p].key] = NoNote]
          /\ note[prod[p].key].at = "written" /\ prod[p].key \in Keys
      BY <1>5, <2>1 DEF RollBack, Shape, Writers
    <3>. QED
      BY <1>1, <1>5, <3>1 DEF Erased
  <2>. QED
    BY <1>5, <2>1 DEF RollBack
<1>6. ASSUME NEW r \in Replicas, Digest(r) PROVE note'[k] = note[k] \/ Digested(k)
  <2>1. CASE k \in rep[r].sources /\ DigestOf(r) \notin made
    <3>1. r \in Awake /\ note[k].at = "stored"
      BY <1>6, <2>1 DEF Digest, Awake, Shape, Collected
    <3>2. note'[k] = [note[k] EXCEPT !.told = @ + 1] /\ note[k] \in Note
      BY <1>1, <1>6, <2>1 DEF Digest, DigestOf
    <3>3. /\ note'[k].at = "stored" /\ note'[k].created = note[k].created
          /\ note'[k].id = note[k].id /\ note'[k].told = note[k].told + 1
      BY <3>1, <3>2 DEF Note
    <3>. QED
      BY <1>6, <2>1, <3>1, <3>3 DEF Digested
  <2>. QED
    BY <1>6, <2>1 DEF Digest, DigestOf
<1>7. ASSUME NEW r \in Replicas, NEW a \in {Before, Now}, Collect(r, a) PROVE note' = note
  BY <1>7 DEF Collect
<1>8. ASSUME NEW p \in Producers, Begin(p) PROVE note' = note
  BY <1>8 DEF Begin
<1>9. ASSUME NEW f \in Frequencies, BeginEdit(f) PROVE note' = note
  BY <1>9 DEF BeginEdit
<1>10. ASSUME CommitEdit \/ MidnightStrikes \/ EightOClock \/ Retouched PROVE note' = note
  BY <1>10 DEF CommitEdit, MidnightStrikes, EightOClock, Retouched
<1>. QED
  BY <1>2, <1>3, <1>4, <1>5, <1>6, <1>7, <1>8, <1>9, <1>10
  DEF Step, Next, Produce, Schedule, vars

\* What is stored stays as it is, but for how often it is told.
LEMMA StoredStay ==
    ASSUME Shape, Step, NEW k \in Keys, note[k].at = "stored"
    PROVE  /\ note'[k].at = "stored" /\ note'[k].created = note[k].created
           /\ note'[k].id = note[k].id
           /\ note'[k].told = note[k].told \/ (Digested(k) /\ note'[k].told = note[k].told + 1)
<1>1. ~Written(k) /\ ~Rung(k) /\ ~Stored(k) /\ ~Erased(k)
  BY DEF Written, Rung, Stored, Erased
<1>2. CASE Digested(k)
  BY <1>2 DEF Digested
<1>. QED
  BY <1>1, <1>2, NoteSteps

\* Instants and ids only grow, and past midnights stay.
LEMMA TimeSteps ==
    ASSUME Shape, Step
    PROVE  /\ clock' \in Nat /\ clock' >= clock
           /\ nextId' \in Nat /\ nextId' >= nextId
           /\ \/ midnights' = midnights
              \/ MidnightStrikes /\ midnights' = Append(midnights, clock) /\ clock' = clock
           /\ Day' \in Nat /\ Day' >= Day
           /\ \A d \in 0..Day : Midnight(d)' = Midnight(d)
<1>1. clock \in Nat /\ nextId \in Nat /\ midnights \in Seq(1..clock) /\ Day \in Nat
  BY Days DEF Shape, TypeOK
<1>2. /\ clock' = clock \/ clock' = clock + 1
      /\ nextId' = nextId \/ nextId' = nextId + 1
      /\ \/ midnights' = midnights
         \/ MidnightStrikes /\ midnights' = Append(midnights, clock) /\ clock' = clock
  BY DEF Step, Next, Produce, Schedule, Begin, Write, Store, RollBack, BeginEdit, CommitEdit,
         Collect, Digest, MidnightStrikes, EightOClock, Alerted, Retouched, Instant, vars, time,
         digests
<1>3. clock' \in Nat /\ clock' >= clock /\ nextId' \in Nat /\ nextId' >= nextId
  BY <1>1, <1>2
<1>4. Day' \in Nat /\ Day' >= Day /\ \A d \in 1..Day : midnights'[d] = midnights[d]
  BY <1>1, <1>2 DEF Day
<1>5. \A d \in 0..Day : Midnight(d)' = Midnight(d)
  BY <1>1, <1>4 DEF Midnight
<1>. QED
  BY <1>2, <1>3, <1>4, <1>5

\* What a step does to the subscription and its edit,
LEMMA SubscriptionSteps ==
    ASSUME Shape, Step
    PROVE  /\ \/ sub' = sub
              \/ CommitEdit /\ sub' = edit
              \/ /\ Retouched /\ sub'.frequency = sub.frequency /\ sub'.updated = clock
                 /\ clock' = clock + 1
           /\ \/ edit' = edit
              \/ CommitEdit /\ edit' = NoEdit
              \/ /\ \E f \in Frequencies : BeginEdit(f)
                 /\ edit'.updated = clock /\ clock' = clock + 1
<1>1. sub \in [frequency : Frequencies, updated : Nat]
  BY DEF Shape, TypeOK, Subscription
<1>2. ASSUME Retouched
      PROVE  /\ sub'.frequency = sub.frequency /\ sub'.updated = clock /\ clock' = clock + 1
             /\ edit' = edit
  BY <1>1, <1>2 DEF Retouched
<1>3. ASSUME NEW f \in Frequencies, BeginEdit(f)
      PROVE  edit'.updated = clock /\ clock' = clock + 1 /\ sub' = sub
  BY <1>3 DEF BeginEdit, Instant
<1>4. ASSUME CommitEdit PROVE sub' = edit /\ edit' = NoEdit
  BY <1>4 DEF CommitEdit
<1>5. ASSUME ~CommitEdit, ~Retouched, ~\E f \in Frequencies : BeginEdit(f)
      PROVE  sub' = sub /\ edit' = edit
  BY <1>5 DEF Step, Next, Produce, Schedule, Begin, Write, Store, RollBack,
         Collect, Digest, MidnightStrikes, EightOClock, Alerted, vars
<1>. QED
  BY <1>2, <1>3, <1>4, <1>5

\* to a producer,
LEMMA ProducerSteps ==
    ASSUME Shape, Step, NEW p \in Producers
    PROVE  \/ prod'[p] = prod[p]
           \/ /\ Begin(p) /\ prod[p].at = "idle" /\ clock' = clock + 1
              /\ prod'[p].at = "begun" /\ prod'[p].began = clock
           \/ /\ prod[p].at = "begun" /\ \E k \in Keys : Write(p, k) /\ prod'[p].key = k
              /\ prod'[p].at = "written" /\ prod'[p].began = prod[p].began
              /\ prod'[p].queued = IF sub.frequency = "immediate" THEN 1 ELSE 0
           \/ (Store(p) \/ RollBack(p)) /\ prod'[p] = NoTx
<1>1. prod \in [Producers -> Tx]
  BY DEF Shape, TypeOK
<1>2. ASSUME NEW q \in Producers, Begin(q)
      PROVE  prod'[p] = prod[p]
             \/ /\ Begin(p) /\ prod[p].at = "idle" /\ clock' = clock + 1
                /\ prod'[p].at = "begun" /\ prod'[p].began = clock
  BY <1>1, <1>2 DEF Begin, NoTx, Instant
<1>3. ASSUME NEW q \in Producers, NEW k \in Keys, Write(q, k)
      PROVE  prod'[p] = prod[p]
             \/ /\ prod[p].at = "begun" /\ Write(p, k) /\ prod'[p].key = k
                /\ prod'[p].at = "written" /\ prod'[p].began = prod[p].began
                /\ prod'[p].queued = IF sub.frequency = "immediate" THEN 1 ELSE 0
  <2>1. prod[q] \in Tx
    BY <1>1
  <2>. QED
    BY <1>1, <1>3, <2>1 DEF Write, Tx
<1>4. ASSUME NEW q \in Producers, Store(q) \/ RollBack(q)
      PROVE  prod'[p] = prod[p] \/ ((Store(p) \/ RollBack(p)) /\ prod'[p] = NoTx)
  <2>1. prod' = [prod EXCEPT ![q] = NoTx]
    BY <1>4 DEF Store, RollBack
  <2>2. CASE p = q
    BY <1>1, <1>4, <2>1, <2>2
  <2>3. CASE p # q
    BY <1>1, <2>1, <2>3
  <2>. QED
    BY <2>2, <2>3
<1>5. ASSUME NEW r \in Replicas, Schedule(r) PROVE prod' = prod
  BY <1>5 DEF Schedule, Collect, Digest
<1>6. ASSUME NEW f \in Frequencies, BeginEdit(f) PROVE prod' = prod
  BY <1>6 DEF BeginEdit
<1>7. ASSUME CommitEdit \/ MidnightStrikes \/ EightOClock \/ Retouched \/ Alerted
      PROVE  prod' = prod
  BY <1>7 DEF CommitEdit, MidnightStrikes, EightOClock, Retouched, Alerted
<1>. QED
  BY <1>2, <1>3, <1>4, <1>5, <1>6, <1>7 DEF Step, Next, Produce, vars

\* and to a scheduler.
LEMMA SchedulerSteps ==
    ASSUME Shape, Step, NEW r \in Replicas
    PROVE  \/ rep'[r] = rep[r]
           \/ \E a \in {Before, Now} :
                 /\ Collect(r, a) /\ Eligible(sub.frequency, a)
                 /\ sub.frequency \in DigestFrequencies
                 /\ Sources(PeriodEnd(sub.frequency, a)) # {}
                 /\ rep'[r] = [end |-> PeriodEnd(sub.frequency, a), frequency |-> sub.frequency,
                               sources |-> Sources(PeriodEnd(sub.frequency, a))]
                 /\ UNCHANGED <<clock, midnights, morning, nextId, note, prod, sub, edit,
                                latest, made>>
           \/ Digest(r) /\ rep'[r] = Asleep
<1>1. rep \in [Replicas -> Replica]
  BY DEF Shape, TypeOK
<1>2. ASSUME NEW q \in Replicas, NEW a \in {Before, Now}, Collect(q, a), rep'[r] # rep[r]
      PROVE  /\ Collect(r, a) /\ Eligible(sub.frequency, a)
             /\ sub.frequency \in DigestFrequencies
             /\ Sources(PeriodEnd(sub.frequency, a)) # {}
             /\ rep'[r] = [end |-> PeriodEnd(sub.frequency, a), frequency |-> sub.frequency,
                           sources |-> Sources(PeriodEnd(sub.frequency, a))]
             /\ UNCHANGED <<clock, midnights, morning, nextId, note, prod, sub, edit,
                            latest, made>>
  <2>1. q = r
    BY <1>1, <1>2 DEF Collect
  <2>. QED
    BY <1>1, <1>2, <2>1 DEF Collect, time
<1>3. ASSUME NEW q \in Replicas, Digest(q), rep'[r] # rep[r] PROVE Digest(r) /\ rep'[r] = Asleep
  BY <1>1, <1>3 DEF Digest
<1>4. ASSUME NEW p \in Producers, Produce(p) PROVE rep' = rep
  BY <1>4 DEF Produce, Begin, Write, Store, RollBack, digests
<1>5. ASSUME NEW f \in Frequencies, BeginEdit(f) PROVE rep' = rep
  BY <1>5 DEF BeginEdit, digests
<1>6. ASSUME CommitEdit \/ MidnightStrikes \/ EightOClock \/ Retouched \/ Alerted
      PROVE  rep' = rep
  BY <1>6 DEF CommitEdit, MidnightStrikes, EightOClock, Retouched, Alerted, digests
<1>. QED
  BY <1>2, <1>3, <1>4, <1>5, <1>6 DEF Step, Next, Schedule, vars

LEMMA ClockedKept == ASSUME Shape, Step PROVE Clocked'
<1>1. /\ TypeOK /\ Clocked /\ clock \in Nat /\ nextId \in Nat /\ Day \in Nat
      /\ midnights \in Seq(1..clock)
  BY Days DEF Shape, TypeOK
<1>2. ~morning' => Day' >= 1
  <2>1. CASE MidnightStrikes
    BY <1>1, <2>1 DEF MidnightStrikes, Day
  <2>2. CASE ~MidnightStrikes
    <3>1. midnights' = midnights /\ (morning' = morning \/ morning' = TRUE)
      BY <2>2 DEF Step, Next, Produce, Schedule, Begin, Write, Store, RollBack, BeginEdit,
         CommitEdit, Collect, Digest, EightOClock, Alerted, Retouched, Instant, vars, time
    <3>. QED
      BY <1>1, <3>1 DEF Clocked, Day
  <2>. QED
    BY <2>1, <2>2
<1>3. \A d, e \in 1..Day' : d <= e => midnights'[d] <= midnights'[e]
  <2>1. \A d, e \in 1..Day : d <= e => midnights[d] <= midnights[e]
    BY <1>1 DEF Clocked
  <2>2. CASE midnights' = midnights
    BY <2>1, <2>2 DEF Day
  <2>3. CASE midnights' = Append(midnights, clock)
    <3>1. Day' = Day + 1 /\ midnights'[Day + 1] = clock
      BY <1>1, <2>3 DEF Day
    <3>2. \A d \in 1..Day : midnights'[d] = midnights[d] /\ midnights[d] \in 1..clock
      BY <1>1, <2>3 DEF Day
    <3>. QED
      BY <1>1, <2>1, <3>1, <3>2
  <2>. QED
    BY <2>2, <2>3, TimeSteps
<1>4. sub'.updated < clock' /\ edit'.updated < clock'
  <2>1. /\ sub.updated \in Nat /\ edit.updated \in Nat
        /\ sub.updated < clock /\ edit.updated < clock /\ clock > 0
    BY <1>1 DEF TypeOK, Subscription, Clocked
  <2>2. NoEdit.updated = 0
    BY DEF NoEdit
  <2>. QED
    BY <1>1, <2>1, <2>2, SubscriptionSteps, TimeSteps
<1>5. ASSUME NEW p \in Producers, prod'[p].at # "idle" PROVE prod'[p].began < clock'
  <2>1. prod[p].began \in Nat /\ (prod[p].at # "idle" => prod[p].began < clock)
    BY <1>1 DEF TypeOK, Tx, Clocked
  <2>2. NoTx.at = "idle"
    BY DEF NoTx
  <2>. QED
    BY <1>1, <1>5, <2>1, <2>2, ProducerSteps, TimeSteps
<1>6. ASSUME NEW k \in Keys, note'[k].at # "none"
      PROVE  note'[k].created < clock' /\ note'[k].id < nextId'
  <2>1. /\ note[k].created \in Nat /\ note[k].id \in Nat
        /\ note[k].at # "none" => note[k].created < clock /\ note[k].id < nextId
    BY <1>1 DEF TypeOK, Note, Clocked
  <2>2. CASE Written(k)
    <3>1. PICK p \in Producers : /\ Write(p, k) /\ note'[k].created = prod[p].began
                                 /\ note'[k].id = nextId
      BY <2>2 DEF Written
    <3>2. prod[p].began < clock /\ prod[p].began \in Nat /\ nextId' = nextId + 1
      BY <1>1, <3>1 DEF Write, Clocked, TypeOK, Tx
    <3>. QED
      BY <1>1, <3>1, <3>2, TimeSteps
  <2>3. CASE Rung(k)
    BY <1>1, <2>3 DEF Rung, Alerted
  <2>4. CASE Stored(k)
    BY <1>1, <2>1, <2>4, TimeSteps DEF Stored
  <2>5. CASE Erased(k)
    BY <1>6, <2>5 DEF Erased, NoNote
  <2>6. CASE Digested(k)
    BY <1>1, <2>1, <2>6, TimeSteps DEF Digested
  <2>. QED
    BY <1>1, <1>6, <2>1, <2>2, <2>3, <2>4, <2>5, <2>6, NoteSteps, TimeSteps
<1>. QED
  BY <1>2, <1>3, <1>4, <1>5, <1>6 DEF Clocked

\* What one producer has written no other step touches.
LEMMA WritersKept == ASSUME Shape, Step PROVE Writers'
<1>1. note \in [Keys -> Note] /\ prod \in [Producers -> Tx] /\ Writers
  BY DEF Shape, TypeOK
<1>2. NoTx.at = "idle" /\ NoNote.at = "none"
  BY DEF NoTx, NoNote
<1>3. ASSUME NEW p \in Producers, prod'[p].at = "written"
      PROVE  /\ prod'[p].key \in Keys
             /\ note'[prod'[p].key].at = "written"
             /\ note'[prod'[p].key].created = prod'[p].began
  <2>1. CASE prod'[p] = prod[p]
    <3>. DEFINE k == prod[p].key
    <3>1. k \in Keys /\ note[k].at = "written" /\ note[k].created = prod[p].began
      BY <1>1, <1>3, <2>1 DEF Writers
    <3>2. ~Written(k) /\ ~Rung(k) /\ ~Digested(k)
      BY <3>1 DEF Written, Rung, Digested
    <3>3. ASSUME NEW q \in Producers, Store(q) \/ RollBack(q), prod[q].at = "written",
                 prod[q].key = k
          PROVE  FALSE
      <4>1. q = p
        BY <1>1, <1>3, <2>1, <3>3 DEF Writers
      <4>2. prod'[q].at = "idle"
        BY <1>1, <1>2, <3>3 DEF Store, RollBack
      <4>. QED
        BY <1>3, <4>1, <4>2
    <3>4. ~Stored(k)
      BY <3>3 DEF Stored, Store
    <3>5. ~Erased(k)
      <4>. SUFFICES ASSUME Erased(k) PROVE FALSE
        OBVIOUS
      <4>1. PICK q \in Producers : RollBack(q) /\ prod[q].key = k /\ note'[k] = NoNote
        BY DEF Erased
      <4>2. prod[q].at # "written"
        BY <3>3, <4>1
      <4>3. note'[k] = note[k]
        BY <4>1, <4>2 DEF RollBack
      <4>. QED
        BY <1>2, <3>1, <4>1, <4>3
    <3>6. note'[k] = note[k]
      BY <3>1, <3>2, <3>4, <3>5, NoteSteps
    <3>. QED
      BY <2>1, <3>1, <3>6
  <2>2. CASE prod'[p] # prod[p]
    <3>1. PICK k \in Keys : Write(p, k) /\ prod'[p].key = k /\ prod'[p].began = prod[p].began
      BY <1>2, <1>3, <2>2, ProducerSteps
    <3>2. note'[k] = [at |-> "written", created |-> prod[p].began, id |-> nextId, told |-> 0]
      BY <1>1, <3>1 DEF Write
    <3>. QED
      BY <3>1, <3>2
  <2>. QED
    BY <2>1, <2>2
<1>4. ASSUME NEW p \in Producers, NEW q \in Producers,
             prod'[p].at = "written", prod'[q].at = "written", prod'[p].key = prod'[q].key
      PROVE  p = q
  <2>1. ASSUME NEW s \in Producers, NEW t \in Producers, NEW k \in Keys, Write(s, k),
               s # t, prod'[t].at = "written", prod'[t].key = k
        PROVE  FALSE
    BY <1>1, <2>1 DEF Write, LockedKeys
  <2>2. CASE prod'[p] = prod[p] /\ prod'[q] = prod[q]
    BY <1>1, <1>4, <2>2 DEF Writers
  <2>3. CASE prod'[p] # prod[p]
    <3>1. PICK k \in Keys : Write(p, k) /\ prod'[p].key = k
      BY <1>2, <1>4, <2>3, ProducerSteps
    <3>. QED
      BY <1>4, <2>1, <3>1
  <2>4. CASE prod'[q] # prod[q]
    <3>1. PICK k \in Keys : Write(q, k) /\ prod'[q].key = k
      BY <1>2, <1>4, <2>4, ProducerSteps
    <3>. QED
      BY <1>4, <2>1, <3>1
  <2>. QED
    BY <2>2, <2>3, <2>4
<1>. QED
  BY <1>3, <1>4 DEF Writers

LEMMA CollectedKept == ASSUME Shape, Step PROVE Collected'
<1>1. /\ TypeOK /\ Clocked /\ Collected /\ Day \in Nat /\ Asleep \in Replica
      /\ note \in [Keys -> Note] /\ rep \in [Replicas -> Replica]
  BY Days DEF Shape, TypeOK, Asleep, Replica
<1>. SUFFICES ASSUME NEW r \in Replicas, rep'[r] # Asleep
              PROVE  /\ rep'[r].frequency \in DigestFrequencies
                     /\ rep'[r].end \in 1..Day'
                     /\ rep'[r].sources # {}
                     /\ \A k \in rep'[r].sources :
                           /\ note'[k].at = "stored" /\ note'[k].id > 0
                           /\ note'[k].created < Midnight(rep[r].end)'
  BY DEF Collected, Awake
<1>2. CASE rep'[r] = rep[r]
  <2>1. r \in Awake
    BY <1>2 DEF Awake
  <2>2. /\ rep[r].frequency \in DigestFrequencies /\ rep[r].end \in 1..Day
        /\ rep[r].sources # {} /\ rep[r].sources \subseteq Keys
        /\ \A k \in rep[r].sources : /\ note[k].at = "stored" /\ note[k].id > 0
                                     /\ note[k].created < Midnight(rep[r].end)
    BY <1>1, <2>1 DEF Collected, Awake, Replica
  <2>3. rep[r].end \in 1..Day' /\ Midnight(rep[r].end)' = Midnight(rep[r].end)
    <3>1. Day' \in Nat /\ Day' >= Day /\ \A d \in 0..Day : Midnight(d)' = Midnight(d)
      BY TimeSteps
    <3>2. rep[r].end \in 0..Day /\ rep[r].end \in 1..Day'
      BY <1>1, <2>2, <3>1
    <3>3. \A d \in 0..Day : d = rep'[r].end => Midnight(rep[r].end)' = Midnight(d)
      BY <3>1 DEF Midnight
    <3>. QED
      BY <1>2, <3>2, <3>3
  <2>. QED
    BY <1>2, <2>2, <2>3, StoredStay
<1>3. CASE rep'[r] # rep[r]
  <2>1. PICK a \in {Before, Now} :
                 /\ Collect(r, a) /\ Eligible(sub.frequency, a)
                 /\ sub.frequency \in DigestFrequencies
                 /\ Sources(PeriodEnd(sub.frequency, a)) # {}
                 /\ rep'[r] = [end |-> PeriodEnd(sub.frequency, a), frequency |-> sub.frequency,
                               sources |-> Sources(PeriodEnd(sub.frequency, a))]
                 /\ UNCHANGED <<clock, midnights, morning, nextId, note, prod, sub, edit,
                                latest, made>>
    BY <1>3, SchedulerSteps
  <2>. DEFINE e == PeriodEnd(sub.frequency, a)
  <2>2. e \in 0..Day
    BY <1>1, <2>1, PeriodEnds
  <2>3. \A k \in Sources(e) : /\ k \in Keys /\ note[k].at = "stored"
                              /\ note[k].id > latest[sub.frequency]
                              /\ note[k].created < Midnight(e)
    BY DEF Sources
  <2>4. latest[sub.frequency] \in Nat /\ \A k \in Keys : note[k].id \in Nat /\ note[k].created \in Nat
    BY <1>1, <2>1 DEF TypeOK, Note
  <2>5. e # 0
    BY <2>1, <2>3, <2>4 DEF Midnight
  <2>6. Midnight(rep[r].end)' = Midnight(e) /\ Day' = Day /\ note' = note
    BY <2>1 DEF Midnight, Day
  <2>. HIDE DEF e
  <2>7. \A k \in Sources(e) : note[k].id > 0
    BY <2>3, <2>4
  <2>8. rep'[r].end = e /\ rep'[r].sources = Sources(e) /\ rep'[r].frequency = sub.frequency
    BY <2>1 DEF e
  <2>. QED
    BY <1>1, <2>1, <2>2, <2>3, <2>5, <2>6, <2>7, <2>8
<1>. QED
  BY <1>2, <1>3

LEMMA ShapeKept == ASSUME Shape, Step PROVE Shape'
BY TypesKept, ClockedKept, WritersKept, CollectedKept DEF Shape

LEMMA ShapeInit == ASSUME Init PROVE Shape
<1>1. TypeOK
  <2>1. sub \in Subscription /\ edit \in Subscription
    BY DEF Init, Subscription, NoEdit, Frequencies
  <2>2. note \in [Keys -> Note] /\ rep \in [Replicas -> Replica]
    BY DEF Init, Note, NoNote, Replica, Asleep
  <2>3. prod \in [Producers -> Tx]
    <3>1. NoTx \in Tx
      <4>. 0 \in 0..1 /\ NoKey \in Keys \cup {NoKey}
        OBVIOUS
      <4>. QED
        BY DEF NoTx, Tx
    <3>. QED
      BY <3>1 DEF Init
  <2>. QED
    BY <2>1, <2>2, <2>3 DEF Init, TypeOK
<1>2. Clocked
  BY DEF Init, Clocked, Day, NoTx, NoNote, NoEdit
<1>3. Writers /\ Collected
  BY DEF Init, Writers, Collected, Awake, NoTx
<1>. QED
  BY <1>1, <1>2, <1>3 DEF Shape

\* What is kept of digests has the right types, whatever overlaps, spans midnight or is
\* edited meanwhile: above all, a digest that is made covers an id that was given out, and a
\* period whose midnight has passed.
THEOREM AlertTypes == AllSpec => []TypeOK
<1>1. Shape /\ [AllNext]_allVars => Shape'
  BY AlertSteps, ShapeKept
<1>2. Shape => TypeOK
  BY DEF Shape
<1>. QED
  BY <1>1, <1>2, ShapeInit, PTL DEF AllSpec

-----------------------------------------------------------------------------
(* When no transaction that inserts a notification spans midnight, and none *)
(* overlaps an edit, the order of ids and that of instants agree across     *)
(* midnights and edits.                                                     *)
Serial ==
    /\ Editing => /\ \A p \in Producers : prod[p].at = "idle"
                  /\ Midnight(Day) <= edit.updated
                  /\ \A k \in Keys : note[k].at # "none" => note[k].created < edit.updated
    /\ \A p \in Producers : prod[p].at # "idle" =>
          sub.updated <= prod[p].began /\ Midnight(Day) <= prod[p].began
    /\ \A p \in Producers : prod[p].at = "written" =>
          prod[p].queued = IF sub.frequency = "immediate" THEN 1 ELSE 0

\* Ids do not go back over a midnight,
Ordered ==
    \A k, l \in Keys : \A d \in 1..Day :
        /\ note[k].at # "none" /\ note[l].at # "none"
        /\ note[k].created < midnights[d] /\ midnights[d] <= note[l].created
        => note[k].id < note[l].id

\* no digest covers what happened since the last one,
AheadOfDigests ==
    \A k \in Keys : \A f \in DigestFrequencies :
        note[k].at # "none" /\ note[k].created >= Midnight(Day) => note[k].id > latest[f]

\* what was told since the subscription was edited was told by digests,
ToldBefore ==
    \A k \in Keys :
        /\ note[k].at = "stored" /\ note[k].told > 0
        /\ sub.frequency \in DigestFrequencies /\ note[k].created >= sub.updated
        => note[k].id <= latest[sub.frequency]

\* and the latest digest of a frequency covers what its earlier digests did.
MadeBefore == \A d \in made : d.through <= latest[d.frequency]

(* Schedulers that are awake together have collected the same period and    *)
(* the same sources, in vain if the digest of them has been made. Unless    *)
(* the subscription was edited since midnight, its frequency is theirs, and *)
(* there is nothing else to collect.                                        *)
OneWindow == \A r, s \in Awake : rep[r] = rep[s]

Windows ==
    \A r \in Awake :
        /\ \E a \in {Before, Now} : /\ Eligible(rep[r].frequency, a)
                                    /\ rep[r].end = PeriodEnd(rep[r].frequency, a)
        /\ sub.updated < Midnight(Day) => sub.frequency = rep[r].frequency
        /\ DigestOf(r) \notin made =>
              \A k \in rep[r].sources : note[k].told = 0 /\ note[k].id > latest[rep[r].frequency]
        /\ sub.updated < Midnight(rep[r].end) =>
              Sources(rep[r].end) = IF DigestOf(r) \in made THEN {} ELSE rep[r].sources

Telling == ToldOnce /\ WithinReach /\ ToldBefore
Reach == Serial /\ Ordered /\ AheadOfDigests /\ MadeBefore /\ OneWindow /\ Windows /\ Telling

LEMMA Tonight ==
    ASSUME Shape, Step
    PROVE  \/ midnights' = midnights /\ Day' = Day /\ Midnight(Day)' = Midnight(Day)
           \/ /\ MidnightStrikes /\ midnights' = Append(midnights, clock)
              /\ Day' = Day + 1 /\ Midnight(Day)' = clock /\ Awake = {} /\ ~Editing
              /\ UNCHANGED <<clock, nextId, note, prod, sub, edit, latest, made, rep>>
<1>1. Day \in Nat /\ midnights \in Seq(1..clock) /\ clock \in Nat
  BY Days DEF Shape, TypeOK
<1>2. CASE midnights' = midnights
  BY <1>2 DEF Midnight, Day
<1>3. CASE MidnightStrikes /\ midnights' = Append(midnights, clock)
  <2>1. Day' = Day + 1 /\ midnights'[Day + 1] = clock /\ Day + 1 # 0
    BY <1>1, <1>3 DEF Day
  <2>2. Midnight(Day)' = clock
    BY <2>1 DEF Midnight
  <2>3. Awake = {} /\ ~Editing
    BY <1>3 DEF MidnightStrikes, AllAsleep, Awake
  <2>4. UNCHANGED <<clock, nextId, note, prod, sub, edit, latest, made, rep>>
    BY <1>3 DEF MidnightStrikes, digests
  <2>. QED
    BY <1>3, <2>1, <2>2, <2>3, <2>4
<1>. QED
  BY <1>2, <1>3, TimeSteps

\* A step makes one digest at most.
LEMMA DigestSteps ==
    ASSUME Shape, Step
    PROVE  \/ latest' = latest /\ made' = made
           \/ \E r \in Awake :
                 /\ Digest(r) /\ DigestOf(r) \notin made
                 /\ made' = made \cup {DigestOf(r)}
                 /\ latest' = [latest EXCEPT ![rep[r].frequency] = Through(r)]
                 /\ rep' = [rep EXCEPT ![r] = Asleep]
                 /\ UNCHANGED <<clock, midnights, morning, nextId, prod, sub, edit>>
<1>1. ASSUME NEW r \in Replicas, Digest(r)
      PROVE  \/ latest' = latest /\ made' = made
             \/ /\ r \in Awake /\ DigestOf(r) \notin made
                /\ made' = made \cup {DigestOf(r)}
                /\ latest' = [latest EXCEPT ![rep[r].frequency] = Through(r)]
                /\ rep' = [rep EXCEPT ![r] = Asleep]
                /\ UNCHANGED <<clock, midnights, morning, nextId, prod, sub, edit>>
  BY <1>1 DEF Digest, DigestOf, Awake, time
<1>2. ASSUME ~\E r \in Replicas : Digest(r) PROVE latest' = latest /\ made' = made
  BY <1>2 DEF Step, Next, Produce, Schedule, Begin, Write, Store, RollBack, BeginEdit,
     CommitEdit, Collect, MidnightStrikes, EightOClock, Alerted, Retouched, digests, vars
<1>. QED
  BY <1>1, <1>2

\* A digest covers more than the latest of its frequency.
LEMMA Further ==
    ASSUME Shape, Windows, Step, NEW f \in DigestFrequencies
    PROVE  /\ latest[f] \in Nat /\ latest'[f] \in Nat /\ latest'[f] >= latest[f]
           /\ \A r \in Awake : DigestOf(r) \notin made => Through(r) > latest[rep[r].frequency]
<1>1. latest \in [DigestFrequencies -> Nat]
  BY DEF Shape, TypeOK
<1>2. ASSUME NEW r \in Awake, DigestOf(r) \notin made
      PROVE  Through(r) \in Nat /\ Through(r) > latest[rep[r].frequency]
  <2>1. PICK k \in rep[r].sources : note[k].id = Through(r)
    BY Throughs
  <2>2. Through(r) \in Nat
    BY Throughs
  <2>. QED
    BY <1>2, <2>1, <2>2 DEF Windows
<1>3. CASE latest' = latest
  BY <1>1, <1>2, <1>3
<1>4. CASE latest' # latest
  <2>1. PICK r \in Awake : /\ DigestOf(r) \notin made
                           /\ latest' = [latest EXCEPT ![rep[r].frequency] = Through(r)]
    BY <1>4, DigestSteps
  <2>. QED
    BY <1>1, <1>2, <2>1
<1>. QED
  BY <1>3, <1>4

LEMMA SerialKept ==
    ASSUME ~Straddling, ~SlowEdits, Shape, Serial, Step PROVE Serial'
<1>1. /\ TypeOK /\ Clocked /\ Writers /\ clock \in Nat
      /\ Midnight(Day) \in Nat /\ Midnight(Day) <= clock
      /\ sub.updated \in Nat /\ edit.updated \in Nat /\ sub.updated < clock
      /\ edit \in Subscription /\ sub \in Subscription
  <2>1. TypeOK /\ Clocked /\ Writers /\ Day \in 0..Day
    BY Days DEF Shape
  <2>2. Midnight(Day) \in 0..clock /\ clock \in Nat
    BY <2>1, Days
  <2>. QED
    BY <2>1, <2>2 DEF TypeOK, Subscription, Clocked
<1>2. NoTx.at = "idle" /\ NoNote.at = "none"
  BY DEF NoTx, NoNote
<1>3. ASSUME NEW p \in Producers, prod[p].at # "idle"
      PROVE  /\ ~MidnightStrikes /\ ~Retouched /\ ~Editing
             /\ \A f \in Frequencies : ~BeginEdit(f)
  BY <1>3 DEF MidnightStrikes, Retouched, BeginEdit, Serial
<1>4. ~Editing => ~CommitEdit
  BY DEF CommitEdit
<1>5. ASSUME NEW p \in Producers, prod'[p].at # "idle"
      PROVE  /\ sub' = sub /\ edit' = edit /\ ~Editing
             /\ sub'.updated <= prod'[p].began /\ Midnight(Day)' <= prod'[p].began
             /\ prod'[p].at = "written" =>
                   prod'[p].queued = IF sub'.frequency = "immediate" THEN 1 ELSE 0
  <2>1. prod[p].at # "idle" => sub.updated <= prod[p].began /\ Midnight(Day) <= prod[p].began
    BY DEF Serial
  <2>2. prod[p].at = "written" => prod[p].queued = IF sub.frequency = "immediate" THEN 1 ELSE 0
    BY DEF Serial
  <2>3. CASE prod[p].at # "idle"
    <3>1. sub' = sub /\ edit' = edit /\ Midnight(Day)' = Midnight(Day) /\ ~Editing
      BY <1>3, <1>4, <2>3, SubscriptionSteps, Tonight
    <3>2. CASE prod'[p] = prod[p]
      BY <2>1, <2>2, <2>3, <3>1, <3>2
    <3>3. CASE prod'[p] # prod[p]
      <4>1. /\ prod'[p].began = prod[p].began
            /\ prod'[p].queued = IF sub.frequency = "immediate" THEN 1 ELSE 0
        BY <1>2, <1>5, <2>3, <3>3, ProducerSteps
      <4>. QED
        BY <2>1, <2>3, <3>1, <4>1
    <3>. QED
      BY <3>2, <3>3
  <2>4. CASE prod[p].at = "idle"
    <3>1. Begin(p) /\ prod'[p].at = "begun" /\ prod'[p].began = clock
      BY <1>2, <1>5, <2>4, ProducerSteps
    <3>2. sub' = sub /\ edit' = edit /\ midnights' = midnights /\ ~Editing
      BY <3>1 DEF Begin, Instant
    <3>3. Midnight(Day)' = Midnight(Day)
      BY <3>2 DEF Midnight, Day
    <3>. QED
      BY <1>1, <3>1, <3>2, <3>3
  <2>. QED
    BY <2>3, <2>4
<1>6. ASSUME Editing'
      PROVE  /\ \A p \in Producers : prod'[p].at = "idle"
             /\ Midnight(Day)' <= edit'.updated
             /\ \A k \in Keys : note'[k].at # "none" => note'[k].created < edit'.updated
  <2>1. \A p \in Producers : prod'[p].at = "idle"
    BY <1>5, <1>6 DEF Editing
  <2>2. CASE edit' = edit
    <3>1. Editing /\ Midnight(Day)' = Midnight(Day)
      BY <1>6, <2>2, Tonight DEF Editing
    <3>2. \A k \in Keys : ~Written(k) /\ ~Rung(k) /\ ~Stored(k)
      BY <3>1 DEF Serial, Written, Write, Rung, Alerted, Stored, Store
    <3>3. \A k \in Keys : note'[k].at # "none" =>
             note[k].at # "none" /\ note'[k].created = note[k].created
      <4>. TAKE k \in Keys
      <4>1. Erased(k) => note'[k].at = "none"
        BY <1>2 DEF Erased
      <4>2. Digested(k) => note[k].at # "none" /\ note'[k].created = note[k].created
        BY DEF Digested
      <4>. QED
        BY <3>2, <4>1, <4>2, NoteSteps
    <3>. QED
      BY <2>1, <2>2, <3>1, <3>3 DEF Serial
  <2>3. CASE edit' # edit
    <3>1. PICK f \in Frequencies : BeginEdit(f) /\ edit'.updated = clock
      BY <1>6, <2>3, SubscriptionSteps DEF Editing
    <3>2. note' = note /\ midnights' = midnights
      BY <3>1 DEF BeginEdit, Instant
    <3>3. Midnight(Day)' = Midnight(Day)
      BY <3>2 DEF Midnight, Day
    <3>4. \A k \in Keys : note[k].at # "none" => note[k].created < clock
      BY <1>1 DEF Clocked
    <3>. QED
      BY <1>1, <2>1, <3>1, <3>2, <3>3, <3>4
  <2>. QED
    BY <2>2, <2>3
<1>. QED
  BY <1>5, <1>6 DEF Serial

LEMMA OrderedKept ==
    ASSUME Shape, Serial, Ordered, Step PROVE Ordered'
<1>1. /\ TypeOK /\ Clocked /\ clock \in Nat /\ nextId \in Nat /\ Day \in Nat
      /\ note \in [Keys -> Note] /\ prod \in [Producers -> Tx]
      /\ Midnight(Day) <= clock
  <2>1. TypeOK /\ Clocked /\ Day \in 0..Day
    BY Days DEF Shape
  <2>2. Midnight(Day) \in 0..clock /\ clock \in Nat
    BY <2>1, Days
  <2>. QED
    BY <2>1, <2>2, Days DEF TypeOK
<1>. SUFFICES ASSUME NEW k \in Keys, NEW l \in Keys, NEW d \in 1..Day',
                     note'[k].at # "none", note'[l].at # "none",
                     note'[k].created < midnights'[d], midnights'[d] <= note'[l].created
              PROVE  note'[k].id < note'[l].id
  BY DEF Ordered
<1>2. ASSUME MidnightStrikes, d = Day + 1 PROVE FALSE
  <2>1. midnights'[d] = clock /\ note' = note
    BY <1>1, <1>2 DEF MidnightStrikes, Day, TypeOK
  <2>2. note[l].created < clock /\ note[l].created \in Nat
    BY <1>1, <2>1 DEF Clocked, Note
  <2>. QED
    BY <1>1, <2>1, <2>2
<1>3. /\ d \in 1..Day /\ midnights'[d] = midnights[d] /\ midnights[d] \in Nat
      /\ midnights[d] <= Midnight(Day) /\ Midnight(Day) \in Nat
  <2>1. d \in 1..Day /\ midnights'[d] = midnights[d]
    <3>1. CASE midnights' = midnights /\ Day' = Day
      BY <3>1
    <3>2. CASE MidnightStrikes /\ midnights' = Append(midnights, clock) /\ Day' = Day + 1
      <4>1. d \in 1..Day
        BY <1>1, <1>2, <3>2
      <4>2. midnights \in Seq(1..clock) /\ Len(midnights) = Day
        BY <1>1 DEF TypeOK, Day
      <4>. QED
        BY <1>1, <3>2, <4>1, <4>2
    <3>. QED
      BY <3>1, <3>2, Tonight
  <2>2. midnights[d] \in 1..clock /\ Midnight(d) = midnights[d] /\ Midnight(Day) \in 0..clock
    BY <1>1, <2>1, Days DEF Midnight
  <2>3. Midnight(d) <= Midnight(Day)
    BY <1>1, <2>1, Midnights
  <2>. QED
    BY <1>1, <2>1, <2>2, <2>3
\* A notification that is new was created since midnight, and its id is the last.
<1>4. ASSUME NEW m \in Keys, Written(m) \/ Rung(m)
      PROVE  note'[m].created >= Midnight(Day) /\ note'[m].id = nextId
  <2>1. CASE Rung(m)
    BY <1>1, <2>1 DEF Rung
  <2>2. CASE Written(m)
    <3>1. PICK p \in Producers : Write(p, m) /\ note'[m].created = prod[p].began
                                 /\ note'[m].id = nextId
      BY <2>2 DEF Written
    <3>2. prod[p].at = "begun"
      BY <3>1 DEF Write
    <3>3. Midnight(Day) <= prod[p].began /\ prod[p].began \in Nat
      BY <1>1, <3>2 DEF Serial, Tx
    <3>. QED
      BY <1>3, <3>1, <3>3
  <2>. QED
    BY <1>4, <2>1, <2>2
<1>5. ASSUME NEW m \in Keys, ~Written(m), ~Rung(m), note'[m].at # "none"
      PROVE  /\ note[m].at # "none" /\ note'[m].created = note[m].created
             /\ note'[m].id = note[m].id
  <2>1. Erased(m) => note'[m].at = "none"
    BY DEF Erased, NoNote
  <2>. QED
    BY <1>5, <2>1, NoteSteps DEF Stored, Digested
<1>6. note'[k].created \in Nat /\ note'[l].created \in Nat
  BY TypesKept DEF TypeOK, Note
<1>7. ~Written(k) /\ ~Rung(k)
  BY <1>3, <1>4, <1>6
<1>8. note[k].at # "none" /\ note'[k].created = note[k].created /\ note'[k].id = note[k].id
  BY <1>5, <1>7
<1>9. CASE Written(l) \/ Rung(l)
  BY <1>1, <1>4, <1>8, <1>9 DEF Clocked
<1>10. CASE ~Written(l) /\ ~Rung(l)
  BY <1>3, <1>5, <1>8, <1>10 DEF Ordered
<1>. QED
  BY <1>9, <1>10

LEMMA AheadKept ==
    ASSUME Shape, Serial, Ordered, AheadOfDigests, Windows, Step PROVE AheadOfDigests'
<1>1. /\ TypeOK /\ Clocked /\ clock \in Nat /\ nextId \in Nat /\ Day \in Nat
      /\ note \in [Keys -> Note] /\ latest \in [DigestFrequencies -> 0..(nextId - 1)]
  BY Days DEF Shape, TypeOK
<1>. SUFFICES ASSUME NEW k \in Keys, NEW f \in DigestFrequencies,
                     note'[k].at # "none", note'[k].created >= Midnight(Day)'
              PROVE  note'[k].id > latest'[f]
  BY DEF AheadOfDigests
<1>2. ASSUME MidnightStrikes PROVE FALSE
  <2>1. Midnight(Day)' = clock /\ note' = note
    BY <1>2, Tonight DEF MidnightStrikes, Day, TypeOK, Midnight
  <2>2. note[k].created < clock /\ note[k].created \in Nat
    BY <1>1, <2>1 DEF Clocked, Note
  <2>. QED
    BY <1>1, <2>1, <2>2
<1>3. Midnight(Day)' = Midnight(Day) /\ Day' = Day
  BY <1>2, Tonight
<1>4. CASE Written(k) \/ Rung(k)
  <2>1. note'[k].id = nextId
    BY <1>4 DEF Written, Rung
  <2>2. latest' = latest
    BY <1>4 DEF Written, Write, Rung, Alerted, digests
  <2>. QED
    BY <1>1, <2>1, <2>2
<1>5. CASE ~Written(k) /\ ~Rung(k)
  <2>1. Erased(k) => note'[k].at = "none"
    BY DEF Erased, NoNote
  <2>2. note[k].at # "none" /\ note'[k].created = note[k].created /\ note'[k].id = note[k].id
    BY <1>5, <2>1, NoteSteps DEF Stored, Digested
  <2>3. note[k].id > latest[f]
    BY <1>3, <2>2 DEF AheadOfDigests
  <2>4. CASE latest' = latest
    BY <2>2, <2>3, <2>4
  <2>5. CASE latest' # latest
    <3>1. PICK r \in Awake : latest' = [latest EXCEPT ![rep[r].frequency] = Through(r)]
      BY <2>5, DigestSteps
    <3>2. PICK l \in rep[r].sources : note[l].id = Through(r)
      BY Throughs
    <3>3. l \in Keys /\ note[l].at = "stored" /\ note[l].created < Midnight(rep[r].end)
          /\ rep[r].end \in 1..Day
      BY DEF Shape, Collected, TypeOK, Replica, Awake
    <3>4. /\ Midnight(rep[r].end) <= Midnight(Day) /\ Midnight(Day) = midnights[Day]
          /\ Midnight(rep[r].end) \in Nat /\ Midnight(Day) \in Nat /\ Day \in 1..Day
      <4>1. rep[r].end \in 0..Day /\ Day \in 0..Day /\ rep[r].end <= Day /\ Day # 0
            /\ Day \in 1..Day
        BY <1>1, <3>3
      <4>. QED
        BY <1>1, <4>1, Midnights, Days DEF Midnight
    <3>5. note[l].id < note[k].id
      <4>1. note[l].created \in Nat /\ note[k].created \in Nat
        BY <1>1, <3>3 DEF Note
      <4>2. note[l].created < midnights[Day] /\ midnights[Day] <= note[k].created
        BY <1>3, <2>2, <3>3, <3>4, <4>1
      <4>. QED
        BY <2>2, <3>3, <3>4, <4>2 DEF Ordered
    <3>. QED
      BY <1>1, <2>2, <2>3, <3>1, <3>2, <3>5
  <2>. QED
    BY <2>4, <2>5
<1>. QED
  BY <1>4, <1>5

LEMMA MadeKept ==
    ASSUME Shape, Windows, MadeBefore, Step PROVE MadeBefore'
<1>1. /\ latest \in [DigestFrequencies -> Nat]
      /\ \A d \in made : d.frequency \in DigestFrequencies /\ d.through \in Nat
  BY DEF Shape, TypeOK
<1>2. ASSUME NEW d \in made PROVE d.through <= latest'[d.frequency]
  BY <1>1, Further DEF MadeBefore
<1>3. ASSUME NEW d \in made', d \notin made PROVE d.through <= latest'[d.frequency]
  <2>1. PICK r \in Awake : /\ made' = made \cup {DigestOf(r)}
                           /\ latest' = [latest EXCEPT ![rep[r].frequency] = Through(r)]
    BY <1>3, DigestSteps
  <2>2. d.frequency = rep[r].frequency /\ d.through = Through(r)
    BY <1>3, <2>1 DEF DigestOf
  <2>3. rep[r].frequency \in DigestFrequencies /\ Through(r) \in Nat
    BY Throughs DEF Shape, Collected
  <2>. QED
    BY <1>1, <2>1, <2>2, <2>3
<1>. QED
  BY <1>2, <1>3 DEF MadeBefore

\* After an edit, everything was created before it, and it began since midnight.
LEMMA EditSteps ==
    ASSUME Shape, Serial, Step, sub' # sub
    PROVE  /\ \A k \in Keys : note[k].at # "none" => note[k].created < sub'.updated
           /\ Midnight(Day)' <= sub'.updated /\ Day' = Day
           /\ UNCHANGED <<midnights, morning, nextId, note, prod, latest, made, rep>>
<1>1. /\ TypeOK /\ Clocked /\ Day \in 0..Day
  BY Days DEF Shape
<1>2. Midnight(Day) <= clock
  <2>1. Midnight(Day) \in 0..clock /\ clock \in Nat
    BY <1>1, Days
  <2>. QED
    BY <2>1
<1>3. CASE CommitEdit /\ sub' = edit
  <2>1. UNCHANGED <<midnights, morning, nextId, note, prod, latest, made, rep>> /\ Editing
    BY <1>3 DEF CommitEdit, digests, time
  <2>2. Midnight(Day)' = Midnight(Day) /\ Day' = Day
    BY <2>1 DEF Midnight, Day
  <2>. QED
    BY <1>3, <2>1, <2>2 DEF Serial
<1>4. CASE Retouched /\ sub'.updated = clock
  <2>1. UNCHANGED <<midnights, morning, nextId, note, prod, latest, made, rep>>
    BY <1>4 DEF Retouched, digests
  <2>2. Midnight(Day)' = Midnight(Day) /\ Day' = Day
    BY <2>1 DEF Midnight, Day
  <2>. QED
    BY <1>1, <1>2, <1>4, <2>1, <2>2 DEF Clocked
<1>. QED
  BY <1>3, <1>4, SubscriptionSteps

LEMMA ThroughKept ==
    ASSUME NEW r \in Replicas, rep'[r] = rep[r],
           \A k \in rep[r].sources : note'[k].id = note[k].id
    PROVE  Through(r)' = Through(r)
<1>. DEFINE S == {note[k].id : k \in rep[r].sources}
            T == {note'[k].id : k \in rep[r].sources}
<1>1. S = T
  OBVIOUS
<1>2. \A i : (\A k \in rep[r].sources : note'[k].id <= i) <=> \A k \in rep[r].sources : note[k].id <= i
  OBVIOUS
<1>3. Through(r) = CHOOSE i \in S : \A k \in rep[r].sources : note[k].id <= i
  BY DEF Through
<1>4. Through(r)' = CHOOSE i \in T : \A k \in rep[r].sources : note'[k].id <= i
  BY DEF Through
<1>5. (CHOOSE i \in T : \A k \in rep[r].sources : note'[k].id <= i)
        = CHOOSE i \in S : \A k \in rep[r].sources : note[k].id <= i
  <2>. HIDE DEF S, T
  <2>. QED
    BY <1>1, <1>2
<1>. QED
  BY <1>3, <1>4, <1>5

\* A scheduler that is awake sees neither midnight nor eight o'clock.
LEMMA AwakeSteps ==
    ASSUME Shape, Step, NEW r \in Awake
    PROVE  /\ UNCHANGED <<midnights, morning>> /\ Day' = Day
           /\ Midnight(Day)' = Midnight(Day)
           /\ rep'[r] = rep[r] =>
                 /\ DigestOf(r)' = DigestOf(r)
                 /\ Midnight(rep[r].end)' = Midnight(rep[r].end)
<1>1. ~MidnightStrikes /\ ~EightOClock
  BY DEF MidnightStrikes, EightOClock, AllAsleep, Awake
<1>2. UNCHANGED <<midnights, morning>>
  BY <1>1 DEF Step, Next, Produce, Schedule, Begin, Write, Store, RollBack, BeginEdit,
     CommitEdit, Collect, Digest, Alerted, Retouched, Instant, vars, time
<1>3. Day' = Day /\ Midnight(Day)' = Midnight(Day)
  BY <1>2 DEF Day, Midnight
<1>4. ASSUME rep'[r] = rep[r]
      PROVE  DigestOf(r)' = DigestOf(r) /\ Midnight(rep[r].end)' = Midnight(rep[r].end)
  <2>1. \A k \in rep[r].sources : k \in Keys /\ note[k].at = "stored"
    BY DEF Shape, Collected, TypeOK, Awake, Replica
  <2>2. Through(r)' = Through(r)
    BY <1>4, <2>1, StoredStay, ThroughKept DEF Awake
  <2>. QED
    BY <1>2, <1>4, <2>2 DEF DigestOf, Midnight
<1>. QED
  BY <1>2, <1>3, <1>4

\* What a scheduler that is awake has collected happened before today.
LEMMA SourcesPast ==
    ASSUME Shape, NEW r \in Awake
    PROVE  /\ rep[r].end \in 1..Day /\ rep[r].frequency \in DigestFrequencies
           /\ Midnight(rep[r].end) \in Nat /\ Midnight(Day) \in Nat
           /\ Midnight(rep[r].end) <= Midnight(Day)
           /\ Midnight(rep[r].end) = midnights[rep[r].end]
           /\ \A k \in rep[r].sources :
                 /\ k \in Keys /\ note[k].at = "stored"
                 /\ note[k].created \in Nat /\ note[k].id \in Nat
                 /\ note[k].created < Midnight(rep[r].end)
<1>1. TypeOK /\ Clocked /\ Day \in Nat /\ note \in [Keys -> Note] /\ rep[r] \in Replica
  BY Days DEF Shape, TypeOK, Awake
<1>2. rep[r].end \in 1..Day /\ rep[r].frequency \in DigestFrequencies
  BY DEF Shape, Collected
<1>3. rep[r].end \in 0..Day /\ Day \in 0..Day /\ rep[r].end <= Day /\ rep[r].end # 0
  BY <1>1, <1>2
<1>4. /\ Midnight(rep[r].end) \in Nat /\ Midnight(Day) \in Nat
      /\ Midnight(rep[r].end) <= Midnight(Day) /\ Midnight(rep[r].end) = midnights[rep[r].end]
  BY <1>1, <1>3, Midnights, Days DEF Midnight
<1>5. \A k \in rep[r].sources :
         /\ k \in Keys /\ note[k].at = "stored"
         /\ note[k].created \in Nat /\ note[k].id \in Nat
         /\ note[k].created < Midnight(rep[r].end)
  BY <1>1 DEF Shape, Collected, Replica, Note
<1>. QED
  BY <1>2, <1>4, <1>5

LEMMA ToldOnceKept ==
    ASSUME Shape, Windows, ToldOnce, Step PROVE ToldOnce'
<1>. SUFFICES ASSUME NEW k \in Keys PROVE note'[k].told <= 1
  BY DEF ToldOnce
<1>1. note[k].told <= 1
  BY DEF ToldOnce
<1>2. ASSUME Stored(k) PROVE note'[k].told <= 1
  <2>1. PICK p \in Producers : note'[k].told = prod[p].queued
    BY <1>2 DEF Stored
  <2>2. prod[p].queued \in 0..1
    BY DEF Shape, TypeOK, Tx
  <2>. QED
    BY <2>1, <2>2
<1>3. ASSUME Digested(k) PROVE note'[k].told <= 1
  BY <1>3 DEF Digested, Windows
<1>4. ASSUME Written(k) \/ Rung(k) \/ Erased(k) PROVE note'[k].told <= 1
  BY <1>4 DEF Written, Rung, Erased, NoNote
<1>. QED
  BY <1>1, <1>2, <1>3, <1>4, NoteSteps

LEMMA ToldBeforeKept ==
    ASSUME Shape, Serial, Windows, ToldBefore, Step PROVE ToldBefore'
<1>. SUFFICES ASSUME NEW k \in Keys, note'[k].at = "stored", note'[k].told > 0,
                     sub'.frequency \in DigestFrequencies, note'[k].created >= sub'.updated
              PROVE  note'[k].id <= latest'[sub'.frequency]
  BY DEF ToldBefore
<1>1. /\ latest \in [DigestFrequencies -> Nat] /\ sub.updated \in Nat
      /\ note[k] \in Note /\ note'[k] \in Note /\ sub'.updated \in Nat
  BY TypesKept DEF Shape, TypeOK, Subscription
<1>2. sub' = sub
  <2>. SUFFICES ASSUME sub' # sub PROVE FALSE
    OBVIOUS
  <2>1. note' = note /\ note[k].created < sub'.updated
    BY EditSteps
  <2>. QED
    BY <1>1, <2>1 DEF Note
<1>3. latest'[sub.frequency] >= latest[sub.frequency] /\ latest'[sub.frequency] \in Nat
  BY <1>2, Further
<1>4. CASE note'[k] = note[k]
  <2>1. note[k].id <= latest[sub.frequency]
    BY <1>2, <1>4 DEF ToldBefore
  <2>. QED
    BY <1>1, <1>2, <1>3, <1>4, <2>1 DEF Note
<1>5. ~Written(k) /\ ~Rung(k) /\ ~Erased(k)
  BY <1>2 DEF Written, Rung, Erased, NoNote, DigestFrequencies
<1>6. ~Stored(k)
  <2>. SUFFICES ASSUME Stored(k) PROVE FALSE
    OBVIOUS
  <2>1. PICK p \in Producers : Store(p) /\ note'[k].told = prod[p].queued
    BY DEF Stored
  <2>2. prod[p].queued = 0
    BY <1>2, <2>1 DEF Serial, Store, DigestFrequencies
  <2>. QED
    BY <2>1, <2>2
<1>7. CASE Digested(k)
  <2>1. PICK r \in Awake : /\ Digest(r) /\ DigestOf(r) \notin made /\ k \in rep[r].sources
                           /\ note'[k].created = note[k].created /\ note'[k].id = note[k].id
    BY <1>7 DEF Digested
  <2>2. sub.frequency = rep[r].frequency
    <3>1. sub.updated < Midnight(Day)
      BY <1>1, <1>2, <2>1, SourcesPast
    <3>. QED
      BY <3>1 DEF Windows
  <2>3. latest'[sub.frequency] = Through(r)
    <3>1. latest' = [latest EXCEPT ![rep[r].frequency] = Through(r)]
      BY <2>1 DEF Digest, DigestOf
    <3>. QED
      BY <1>1, <1>2, <2>2, <3>1
  <2>. QED
    BY <1>2, <2>1, <2>3, Throughs
<1>. QED
  BY <1>4, <1>5, <1>6, <1>7, NoteSteps

LEMMA WithinReachKept ==
    ASSUME Shape, Serial, Ordered, AheadOfDigests, Windows, WithinReach, Step
    PROVE  WithinReach'
<1>. SUFFICES ASSUME NEW k \in Keys, Untold(k)' PROVE note'[k].id > latest'[sub'.frequency]
  BY DEF WithinReach
<1>1. /\ note'[k].at = "stored" /\ note'[k].told = 0
      /\ sub'.frequency \in DigestFrequencies /\ note'[k].created >= sub'.updated
  BY DEF Untold
<1>2. /\ latest \in [DigestFrequencies -> 0..(nextId - 1)] /\ nextId \in Nat /\ sub.updated \in Nat
      /\ note[k] \in Note /\ note'[k] \in Note /\ sub'.updated \in Nat
      /\ note \in [Keys -> Note] /\ prod \in [Producers -> Tx]
      /\ \A d \in 1..Day : midnights[d] \in Nat
  <2>1. TypeOK /\ TypeOK'
    BY TypesKept DEF Shape
  <2>2. \A d \in 1..Day : midnights[d] \in Nat
    BY <2>1, Days
  <2>. QED
    BY <2>1, <2>2 DEF TypeOK, Subscription
<1>3. sub' = sub
  <2>. SUFFICES ASSUME sub' # sub PROVE FALSE
    OBVIOUS
  <2>1. note' = note /\ note[k].created < sub'.updated
    BY <1>1, EditSteps
  <2>. QED
    BY <1>1, <1>2, <2>1 DEF Note
<1>. DEFINE f == sub.frequency
<1>4. CASE note'[k] = note[k]
  <2>1. note[k].id > latest[f] /\ note[k].id \in Nat /\ note[k].created \in Nat
    BY <1>1, <1>2, <1>3, <1>4 DEF WithinReach, Untold, Note
  <2>2. CASE latest' = latest
    BY <1>3, <1>4, <2>1, <2>2
  <2>3. CASE latest' # latest
    <3>1. PICK r \in Awake : /\ Digest(r) /\ DigestOf(r) \notin made
                             /\ latest' = [latest EXCEPT ![rep[r].frequency] = Through(r)]
      BY <2>3, DigestSteps
    <3>2. CASE f # rep[r].frequency
      BY <1>1, <1>2, <1>3, <1>4, <2>1, <3>1, <3>2
    <3>3. CASE f = rep[r].frequency
      <4>1. latest'[f] = Through(r)
        BY <1>1, <1>2, <1>3, <3>1, <3>3
      <4>2. k \notin rep[r].sources
        <5>. SUFFICES ASSUME k \in rep[r].sources PROVE FALSE
          OBVIOUS
        <5>1. note'[k] = [note[k] EXCEPT !.told = @ + 1]
          BY <3>1 DEF Digest, DigestOf
        <5>. QED
          BY <1>1, <1>2, <1>4, <5>1 DEF Note
      <4>3. note[k].created >= Midnight(rep[r].end)
        <5>. SUFFICES ASSUME note[k].created < Midnight(rep[r].end) PROVE FALSE
          BY <2>1, SourcesPast
        <5>1. k \in Sources(rep[r].end)
          BY <1>1, <1>3, <1>4, <2>1 DEF Sources
        <5>2. sub.updated < Midnight(rep[r].end)
          BY <1>1, <1>2, <1>3, <1>4, <2>1, SourcesPast
        <5>. QED
          BY <3>1, <4>2, <5>1, <5>2 DEF Windows
      <4>4. PICK l \in rep[r].sources : note[l].id = Through(r)
        BY Throughs
      <4>5. note[l].id < note[k].id
        BY <1>1, <1>4, <4>3, SourcesPast DEF Ordered
      <4>. QED
        BY <1>3, <1>4, <4>1, <4>4, <4>5, <2>1, SourcesPast
    <3>. QED
      BY <3>2, <3>3
  <2>. QED
    BY <2>2, <2>3
<1>5. ~Written(k) /\ ~Erased(k)
  BY <1>1 DEF Written, Erased, NoNote
<1>6. CASE Rung(k)
  BY <1>1, <1>2, <1>3, <1>6 DEF Rung, Alerted, digests
<1>7. CASE Stored(k)
  <2>1. PICK p \in Producers : /\ Store(p) /\ prod[p].key = k /\ note[k].at = "written"
                               /\ note'[k].id = note[k].id
    BY <1>7 DEF Stored
  <2>2. prod[p].at = "written" /\ latest' = latest
    BY <2>1 DEF Store, digests
  <2>3. note[k].created = prod[p].began /\ Midnight(Day) <= prod[p].began
    BY <2>1, <2>2 DEF Shape, Writers, Serial
  <2>4. note[k].created >= Midnight(Day)
    <3>1. Day \in 0..Day
      BY Days DEF Shape
    <3>2. Midnight(Day) \in Nat /\ prod[p].began \in Nat
      BY <1>2, <3>1, Days DEF Shape, Tx
    <3>. QED
      BY <2>3, <3>2
  <2>. QED
    BY <1>1, <1>3, <2>1, <2>2, <2>4 DEF AheadOfDigests
<1>8. ~Digested(k)
  BY <1>1, <1>2 DEF Digested, Note
<1>. QED
  BY <1>4, <1>5, <1>6, <1>7, <1>8, NoteSteps

\* Whoever collects while another is awake collects the same.
LEMMA OneWindowKept ==
    ASSUME Shape, OneWindow, Windows, Step PROVE OneWindow'
<1>1. /\ rep \in [Replicas -> Replica] /\ note \in [Keys -> Note] /\ sub \in Subscription
      /\ TypeOK /\ Clocked
  BY DEF Shape, TypeOK
<1>2. ASSUME NEW r \in Replicas, NEW s \in Replicas, rep'[r] # Asleep, rep'[s] # Asleep,
             rep'[r] # rep[r], rep'[s] = rep[s]
      PROVE  rep'[r] = rep'[s]
  <2>1. PICK a \in {Before, Now} :
           /\ Eligible(sub.frequency, a)
           /\ sub.frequency \in DigestFrequencies
           /\ Sources(PeriodEnd(sub.frequency, a)) # {}
           /\ rep'[r] = [end |-> PeriodEnd(sub.frequency, a), frequency |-> sub.frequency,
                         sources |-> Sources(PeriodEnd(sub.frequency, a))]
    BY <1>2, SchedulerSteps
  <2>. DEFINE e == PeriodEnd(sub.frequency, a)
  <2>2. s \in Awake
    BY <1>2 DEF Awake
  <2>3. sub.updated < Midnight(e) /\ e \in 0..Day
    <3>1. e \in 0..Day
      BY <1>1, <2>1, PeriodEnds
    <3>2. PICK k \in Sources(e) : TRUE
      BY <2>1
    <3>3. /\ note[k].created >= sub.updated /\ note[k].created < Midnight(e)
          /\ note[k].created \in Nat
      BY <1>1, <3>2 DEF Sources, Note
    <3>4. Midnight(e) \in Nat /\ sub.updated \in Nat
      BY <1>1, <3>1, Days DEF Subscription
    <3>. QED
      BY <3>1, <3>3, <3>4
  <2>4. sub.updated < Midnight(Day)
    <3>1. Day \in 0..Day /\ e <= Day
      BY <1>1, <2>3, Days
    <3>2. Midnight(e) <= Midnight(Day)
      BY <1>1, <2>3, <3>1, Midnights
    <3>3. Midnight(e) \in Nat /\ Midnight(Day) \in Nat /\ sub.updated \in Nat
      BY <1>1, <2>3, <3>1, Days DEF Subscription
    <3>. QED
      BY <2>3, <3>2, <3>3
  <2>5. sub.frequency = rep[s].frequency
    BY <2>2, <2>4 DEF Windows
  <2>6. rep[s].end = e
    <3>1. PICK b \in {Before, Now} : /\ Eligible(sub.frequency, b)
                                     /\ rep[s].end = PeriodEnd(sub.frequency, b)
      BY <2>2, <2>5 DEF Windows
    <3>. QED
      BY <1>1, <2>1, <3>1, PeriodEnds
  <2>7. Sources(e) = rep[s].sources
    BY <2>1, <2>2, <2>3, <2>6 DEF Windows
  <2>8. rep[s] = [end |-> e, frequency |-> sub.frequency, sources |-> Sources(e)]
    <3>. HIDE DEF e
    <3>1. rep[s] \in Replica
      BY <1>1
    <3>. QED
      BY <2>5, <2>6, <2>7, <3>1 DEF Replica
  <2>. QED
    BY <1>2, <2>1, <2>8
<1>3. ASSUME NEW r \in Replicas, NEW s \in Replicas, rep'[r] # Asleep, rep'[s] # Asleep,
             rep'[r] # rep[r], rep'[s] # rep[s]
      PROVE  r = s
  <2>1. PICK a \in {Before, Now} : Collect(r, a)
    BY <1>3, SchedulerSteps
  <2>. QED
    BY <1>1, <1>3, <2>1 DEF Collect
<1>. SUFFICES ASSUME NEW r \in Replicas, NEW s \in Replicas, rep'[r] # Asleep, rep'[s] # Asleep
              PROVE  rep'[r] = rep'[s]
  BY DEF OneWindow, Awake
<1>4. CASE rep'[r] = rep[r] /\ rep'[s] = rep[s]
  BY <1>4 DEF OneWindow, Awake
<1>. QED
  BY <1>2, <1>3, <1>4

LEMMA ThroughsNext ==
    Shape' => (\A r \in Awake : /\ Through(r) \in 1..(nextId - 1)
                                /\ \E k \in rep[r].sources : note[k].id = Through(r)
                                /\ \A k \in rep[r].sources : note[k].id <= Through(r))'
<1>1. Shape => (\A r \in Awake : /\ Through(r) \in 1..(nextId - 1)
                                 /\ \E k \in rep[r].sources : note[k].id = Through(r)
                                 /\ \A k \in rep[r].sources : note[k].id <= Through(r))
  BY Throughs
<1>. QED
  BY <1>1, PTL

\* What is collected stays all there is to collect, until a digest is made of it.
LEMMA WindowsKept ==
    ASSUME Shape, Serial, MadeBefore, OneWindow, Windows, ToldBefore, Step PROVE Windows'
<1>1. /\ rep \in [Replicas -> Replica] /\ note \in [Keys -> Note] /\ sub \in Subscription
      /\ prod \in [Producers -> Tx] /\ latest \in [DigestFrequencies -> Nat]
      /\ TypeOK /\ Clocked /\ Shape' /\ note' \in [Keys -> Note] /\ sub' \in Subscription
  BY ShapeKept DEF Shape, TypeOK
<1>. SUFFICES ASSUME NEW r \in Replicas, rep'[r] # Asleep
     PROVE
        /\ \E a \in {Before', Now'} : /\ Eligible(rep[r].frequency, a)'
                                      /\ rep'[r].end = PeriodEnd(rep'[r].frequency, a)
        /\ sub'.updated < Midnight(Day)' => sub'.frequency = rep'[r].frequency
        /\ DigestOf(r)' \notin made' =>
              \A k \in rep'[r].sources :
                 note'[k].told = 0 /\ note'[k].id > latest'[rep'[r].frequency]
        /\ sub'.updated < Midnight(rep[r].end)' =>
              Sources(rep[r].end)' = IF DigestOf(r)' \in made' THEN {} ELSE rep'[r].sources
  BY DEF Windows, Awake
<1>2. CASE rep'[r] # rep[r]
  <2>1. PICK a \in {Before, Now} :
           /\ Eligible(sub.frequency, a)
           /\ sub.frequency \in DigestFrequencies
           /\ Sources(PeriodEnd(sub.frequency, a)) # {}
           /\ rep'[r] = [end |-> PeriodEnd(sub.frequency, a), frequency |-> sub.frequency,
                         sources |-> Sources(PeriodEnd(sub.frequency, a))]
           /\ UNCHANGED <<clock, midnights, morning, nextId, note, prod, sub, edit, latest, made>>
    BY <1>2, SchedulerSteps
  <2>. DEFINE e == PeriodEnd(sub.frequency, a)   f == sub.frequency
  <2>2. rep'[r].end = e /\ rep'[r].frequency = f /\ rep'[r].sources = Sources(e)
    BY <2>1
  <2>3. Before' = Before /\ Now' = Now
    BY <2>1 DEF Before, Now, Day
  <2>4. \A k \in Sources(e) : /\ k \in Keys /\ note[k].at = "stored" /\ note[k].id > latest[f]
                              /\ note[k].created >= sub.updated /\ note[k].id \in Nat
                              /\ note[k].told \in Nat
    BY <1>1 DEF Sources, Note
  <2>5. \A k \in Sources(e) : note[k].told = 0
    BY <1>1, <2>1, <2>4 DEF ToldBefore
  <2>6. DigestOf(r)' \notin made'
    <3>1. /\ \E k \in rep'[r].sources : note'[k].id = Through(r)'
      BY <1>1, ThroughsNext DEF Awake
    <3>2. Through(r)' > latest[f] /\ Through(r)' \in Nat /\ latest[f] \in Nat
      BY <1>1, <2>1, <2>2, <2>4, <3>1
    <3>3. DigestOf(r)' = [frequency |-> f, day |-> e, through |-> Through(r)']
      BY <2>2 DEF DigestOf
    <3>4. \A d \in made : d.through \in Nat /\ d.through <= latest[d.frequency]
      BY <1>1 DEF MadeBefore, TypeOK
    <3>. QED
      BY <2>1, <3>2, <3>3, <3>4
  <2>7. Sources(rep[r].end)' = Sources(e)
    BY <2>1, <2>2 DEF Sources, Midnight
  <2>8. Eligible(rep[r].frequency, a)'
    BY <2>1, <2>2 DEF Eligible, PeriodEnd
  <2>. QED
    BY <2>1, <2>2, <2>3, <2>4, <2>5, <2>6, <2>7, <2>8
<1>3. CASE rep'[r] = rep[r]
  <2>. DEFINE e == rep[r].end   f == rep[r].frequency
  <2>1. r \in Awake
    BY <1>3 DEF Awake
  <2>2. /\ UNCHANGED <<midnights, morning>> /\ Day' = Day /\ Midnight(Day)' = Midnight(Day)
        /\ DigestOf(r)' = DigestOf(r) /\ Midnight(rep[r].end)' = Midnight(e)
    BY <1>3, <2>1, AwakeSteps
  <2>3. /\ \A k \in rep[r].sources :
              /\ k \in Keys /\ note[k].at = "stored"
              /\ note[k].created \in Nat /\ note[k].id \in Nat
              /\ note[k].created < Midnight(e)
        /\ Midnight(e) \in Nat /\ Midnight(Day) \in Nat /\ Midnight(e) <= Midnight(Day)
        /\ f \in DigestFrequencies
    BY <2>1, SourcesPast
  \* Either no digest is made, or it is the one that this scheduler is about to make.
  <2>4. \/ latest' = latest /\ made' = made /\ \A k \in Keys : ~Digested(k)
        \/ /\ DigestOf(r) \notin made /\ DigestOf(r) \in made'
           /\ latest' = [latest EXCEPT ![f] = Through(r)]
           /\ UNCHANGED sub
           /\ \A k \in Keys : /\ note'[k].at = note[k].at /\ note'[k].id = note[k].id
                              /\ note'[k].created = note[k].created
    <3>1. ASSUME NEW s \in Awake, Digest(s), DigestOf(s) \notin made
          PROVE  /\ DigestOf(r) \notin made /\ DigestOf(r) \in made'
                 /\ latest' = [latest EXCEPT ![f] = Through(r)]
                 /\ UNCHANGED sub
                 /\ \A k \in Keys : /\ note'[k].at = note[k].at /\ note'[k].id = note[k].id
                                    /\ note'[k].created = note[k].created
      <4>1. rep[s] = rep[r]
        BY <2>1 DEF OneWindow
      <4>2. Through(s) = Through(r)
        BY <4>1 DEF Through
      <4>3. DigestOf(s) = DigestOf(r)
        BY <4>1, <4>2 DEF DigestOf
      <4>4. /\ made' = made \cup {DigestOf(s)}
            /\ latest' = [latest EXCEPT ![rep[s].frequency] = Through(s)]
            /\ note' = [k \in Keys |-> IF k \in rep[s].sources
                                       THEN [note[k] EXCEPT !.told = @ + 1] ELSE note[k]]
            /\ UNCHANGED sub
        BY <3>1 DEF Digest, DigestOf
      <4>5. \A k \in Keys : /\ note'[k].at = note[k].at /\ note'[k].id = note[k].id
                            /\ note'[k].created = note[k].created
        BY <1>1, <4>4 DEF Note
      <4>. QED
        BY <3>1, <4>1, <4>2, <4>3, <4>4, <4>5
    <3>2. CASE \E s \in Awake : Digest(s) /\ DigestOf(s) \notin made
      BY <3>1, <3>2
    <3>3. CASE ~\E s \in Awake : Digest(s) /\ DigestOf(s) \notin made
      BY <3>3, DigestSteps DEF Digested
    <3>. QED
      BY <3>2, <3>3
  <2>5. \E a \in {Before', Now'} : /\ Eligible(rep[r].frequency, a)'
                                   /\ rep'[r].end = PeriodEnd(rep'[r].frequency, a)
    <3>1. PICK a \in {Before, Now} : Eligible(f, a) /\ rep[r].end = PeriodEnd(f, a)
      BY <2>1 DEF Windows
    <3>2. Before' = Before /\ Now' = Now
      BY <2>2 DEF Before, Now, Day
    <3>3. Eligible(rep[r].frequency, a)'
      BY <1>3, <3>1 DEF Eligible, PeriodEnd
    <3>. QED
      BY <1>3, <3>1, <3>2, <3>3
  <2>6. sub'.updated < Midnight(Day)' => sub' = sub /\ sub.frequency = f
    <3>1. CASE sub' # sub
      BY <1>1, <2>2, <2>3, <3>1, EditSteps DEF Subscription
    <3>2. CASE sub' = sub
      BY <2>1, <2>2, <3>2 DEF Windows
    <3>. QED
      BY <3>1, <3>2
  <2>7. ASSUME DigestOf(r)' \notin made', NEW k \in rep[r].sources
        PROVE  note'[k].told = 0 /\ note'[k].id > latest'[f]
    <3>1. latest' = latest /\ made' = made /\ ~Digested(k)
      BY <2>2, <2>3, <2>4, <2>7
    <3>2. note[k].told = 0 /\ note[k].id > latest[f]
      BY <2>1, <2>2, <2>7, <3>1 DEF Windows
    <3>. QED
      BY <2>3, <3>1, <3>2, StoredStay
  <2>8. ASSUME sub'.updated < Midnight(rep[r].end)'
        PROVE  Sources(rep[r].end)' = IF DigestOf(r)' \in made' THEN {} ELSE rep[r].sources
    <3>1. sub' = sub /\ sub.frequency = f /\ sub.updated < Midnight(e)
      BY <1>1, <2>2, <2>3, <2>6, <2>8 DEF Subscription
    <3>2. Sources(e) = IF DigestOf(r) \in made THEN {} ELSE rep[r].sources
      BY <2>1, <3>1 DEF Windows
    <3>3. Sources(rep[r].end)' = {k \in Keys : /\ note'[k].at = "stored"
                                               /\ note'[k].id > latest'[f]
                                               /\ note'[k].created >= sub.updated
                                               /\ note'[k].created < Midnight(e)}
      BY <1>3, <2>2, <3>1 DEF Sources
    <3>4. Sources(e) = {k \in Keys : /\ note[k].at = "stored"
                                     /\ note[k].id > latest[f]
                                     /\ note[k].created >= sub.updated
                                     /\ note[k].created < Midnight(e)}
      BY <3>1 DEF Sources
    <3>5. CASE latest' = latest /\ made' = made /\ \A k \in Keys : ~Digested(k)
      <4>1. ASSUME NEW k \in Keys, note'[k] # note[k]
            PROVE  note[k].at # "stored"
                   /\ (note'[k].at = "stored" => ~(note'[k].created < Midnight(e)))
        <5>1. note[k].at # "stored"
          BY <3>5, <4>1, NoteSteps DEF Written, Rung, Stored, Erased
        <5>2. ASSUME Rung(k) PROVE ~(note'[k].created < Midnight(e))
          <6>1. note'[k].created = clock /\ Midnight(Day) \in 0..clock /\ clock \in Nat
            BY <1>1, <5>2, Days DEF Rung
          <6>. QED
            BY <2>3, <6>1
        <5>3. ASSUME Stored(k) PROVE ~(note'[k].created < Midnight(e))
          <6>1. PICK p \in Producers : /\ Store(p) /\ prod[p].key = k
                                       /\ note'[k].created = note[k].created
            BY <5>3 DEF Stored
          <6>2. prod[p].at = "written" /\ prod[p].began \in Nat
            BY <1>1, <6>1 DEF Store, Tx
          <6>3. note[k].created = prod[p].began /\ Midnight(Day) <= prod[p].began
            BY <6>1, <6>2 DEF Shape, Writers, Serial
          <6>. QED
            BY <2>3, <6>1, <6>2, <6>3
        <5>4. note'[k].at = "stored" => Rung(k) \/ Stored(k)
          BY <3>5, <4>1, NoteSteps DEF Written, Erased, NoNote
        <5>. QED
          BY <5>1, <5>2, <5>3, <5>4
      <4>2. Sources(rep[r].end)' = Sources(e)
        BY <3>3, <3>4, <3>5, <4>1
      <4>. QED
        BY <2>2, <3>2, <3>5, <4>2
    <3>6. CASE /\ DigestOf(r) \notin made /\ DigestOf(r) \in made'
               /\ latest' = [latest EXCEPT ![f] = Through(r)]
               /\ \A k \in Keys : /\ note'[k].at = note[k].at /\ note'[k].id = note[k].id
                                  /\ note'[k].created = note[k].created
      <4>1. latest'[f] = Through(r) /\ Through(r) \in Nat /\ Through(r) > latest[f]
            /\ latest[f] \in Nat
        BY <1>1, <2>1, <2>3, <3>6, Throughs, Further
      <4>2. ASSUME NEW k \in Sources(rep[r].end)' PROVE FALSE
        <5>1. /\ k \in Keys /\ note[k].at = "stored" /\ note[k].id > Through(r)
              /\ note[k].created >= sub.updated /\ note[k].created < Midnight(e)
              /\ note[k].id \in Nat
          BY <1>1, <3>3, <3>6, <4>1, <4>2 DEF Note
        <5>2. k \in Sources(e)
          BY <3>4, <4>1, <5>1
        <5>3. note[k].id <= Through(r)
          BY <2>1, <3>2, <3>6, <5>2, Throughs
        <5>. QED
          BY <4>1, <5>1, <5>3
      <4>. QED
        BY <2>2, <3>6, <4>2
    <3>. QED
      BY <2>4, <3>5, <3>6
  <2>. QED
    BY <1>3, <2>2, <2>5, <2>6, <2>7, <2>8
<1>. QED
  BY <1>2, <1>3

LEMMA ReachKept ==
    ASSUME ~Straddling, ~SlowEdits, Shape, Reach, Step PROVE Reach'
BY SerialKept, OrderedKept, AheadKept, MadeKept, OneWindowKept, WindowsKept,
   ToldOnceKept, WithinReachKept, ToldBeforeKept DEF Reach, Telling

LEMMA ReachInit == ASSUME Init PROVE Reach
<1>1. Awake = {} /\ ~Editing /\ Day = 0
  BY DEF Init, Awake, Editing, Day
<1>2. NoTx.at = "idle" /\ NoNote.at = "none" /\ NoNote.told = 0
  BY DEF NoTx, NoNote
<1>3. Serial /\ OneWindow /\ Windows /\ MadeBefore
  BY <1>1, <1>2 DEF Init, Serial, OneWindow, Windows, MadeBefore
<1>4. Ordered /\ AheadOfDigests
  BY <1>1, <1>2 DEF Init, Ordered, AheadOfDigests
<1>5. ToldOnce /\ WithinReach /\ ToldBefore
  BY <1>2 DEF Init, ToldOnce, WithinReach, ToldBefore, Untold
<1>. QED
  BY <1>3, <1>4, <1>5 DEF Reach, Telling

LEMMA TellingKept ==
    ASSUME ~Straddling, ~SlowEdits PROVE AllSpec => []Telling
<1>1. Init => Shape /\ Reach
  BY ShapeInit, ReachInit
<1>2. Shape /\ Reach /\ [AllNext]_allVars => (Shape /\ Reach)'
  BY AlertSteps, ShapeKept, ReachKept
<1>3. Reach => Telling
  BY DEF Reach
<1>. QED
  BY <1>1, <1>2, <1>3, PTL DEF AllSpec

\* While no producer's transaction spans midnight, and none overlaps an edit, nobody is told
\* twice of the same, whichever schedulers race over which digests and whatever the user
\* edits.
THEOREM NobodyToldTwice == ASSUME ~Straddling, ~SlowEdits PROVE AllSpec => []ToldOnce
  BY TellingKept, PTL DEF Telling

\* Nor is anything lost: what is untold is within reach of a digest still to be made.
THEOREM NothingOutOfReach == ASSUME ~Straddling, ~SlowEdits PROVE AllSpec => []WithinReach
  BY TellingKept, PTL DEF Telling
-----------------------------------------------------------------------------
(* Crossings. The side a crossing is on, while the value is the one it was  *)
(* found with, is that of some row; so that whoever crosses finds a row on  *)
(* the other side. At the boundary itself a row is above, unless there is   *)
(* no hysteresis: then it is on either side.                                *)

AlertShape ==
    /\ now \in Nat /\ rows \in Seq([session : Nat, close : Nat, stamp : Nat])
    /\ fetch \in [Fetchers -> [at : {"idle", "asked"}, stamp : Nat]]
    /\ desk \in Desk
    /\ crossing \in [row : Nat, fact : Nat, head : Nat, margin : Nat,
                     side : Sides \cup {"none"}, notified : Int]
    /\ ev \in [Replicas -> [at : {"off", "begun", "told"}, asof : Nat, head : Nat, margin : Nat]]
    /\ alert \in [Keys -> [side : Sides \cup {"none"}, margin : Nat, row : Nat, fact : Nat,
                           value : Nat]]

Placed(i, boundary, side) ==
    IF side = "above" THEN rows[i].close >= boundary
    ELSE rows[i].close < boundary \/ (Hysteresis = 0 /\ rows[i].close = boundary)

Sided ==
    /\ crossing.fact <= desk.fact
    /\ crossing.side = "none" => crossing = NoCrossing
    /\ \A r \in Replicas : ev[r].at = "told" => crossing.side \in Sides
    /\ crossing.side \in Sides /\ crossing.fact = desk.fact =>
          \E i \in DOMAIN rows : Placed(i, desk.value - crossing.margin, crossing.side)

\* What an alert says was crossed, some row is on the other side of.
OtherSide ==
    \A k \in Keys : alert[k] # NoAlert =>
        /\ alert[k].side \in Sides
        /\ \E i \in DOMAIN rows : \E side \in Sides \ {alert[k].side} :
              Placed(i, alert[k].value - alert[k].margin, side)

Alerts == AlertShape /\ Sided /\ OtherSide

LEMMA AlertParameters ==
    /\ Closes \subseteq Nat /\ Values \subseteq Nat /\ Margins \subseteq Nat /\ 0 \notin Values
    /\ Hysteresis \in Nat /\ Cooldown \in Nat /\ SessionLength \in Nat \ {0}
BY AlertsAssumption DEF AlertsAssumption

LEMMA Stamps ==
    ASSUME NEW t \in Nat PROVE Session(t) \in Nat /\ DayEnd(t) \in Nat
<1>1. SessionLength \in Nat \ {0}
  BY AlertParameters
<1>2. t \div SessionLength \in Nat
  <2>. DEFINE q == t \div SessionLength   r == t % SessionLength
  <2>1. q \in Int /\ r \in 0..(SessionLength - 1) /\ t = SessionLength * q + r
    BY <1>1
  <2>. HIDE DEF q, r
  <2>2. q >= 0
    <3>. SUFFICES ASSUME q <= -1 PROVE FALSE
      BY <2>1
    <3>1. SessionLength * q <= SessionLength * (-1)
      BY <1>1, <2>1
    <3>. QED
      BY <1>1, <2>1, <3>1
  <2>3. q \in Nat
    BY <2>1, <2>2
  <2>. QED
    BY <2>3 DEF q
<1>3. Session(t) \in Nat
  BY <1>2 DEF Session
<1>4. (Session(t) + 1) * SessionLength \in Nat
  BY <1>1, <1>3
<1>. QED
  BY <1>3, <1>4 DEF DayEnd

LEMMA Elements ==
    ASSUME NEW S, NEW s \in Seq(S)
    PROVE  Len(s) \in Nat /\ DOMAIN s = 1..Len(s) /\ \A i \in DOMAIN s : s[i] \in S
OBVIOUS

LEMMA Appended ==
    ASSUME NEW S, NEW s \in Seq(S), NEW e \in S, NEW i \in DOMAIN s
    PROVE  i \in DOMAIN Append(s, e) /\ Append(s, e)[i] = s[i]
<1>1. Len(s) \in Nat /\ i \in 1..Len(s)
  BY Elements
<1>2. DOMAIN Append(s, e) = 1..(Len(s) + 1)
  OBVIOUS
<1>. QED
  BY <1>1, <1>2

LEMMA Rows ==
    ASSUME AlertShape
    PROVE  /\ Len(rows) \in Nat /\ DOMAIN rows = 1..Len(rows)
           /\ \A i \in DOMAIN rows : i \in Nat /\ rows[i].close \in Nat /\ rows[i].stamp \in Nat
<1>. DEFINE Row == [session : Nat, close : Nat, stamp : Nat]
<1>1. rows \in Seq(Row)
  BY DEF AlertShape
<1>2. Len(rows) \in Nat /\ DOMAIN rows = 1..Len(rows) /\ \A i \in DOMAIN rows : rows[i] \in Row
  <2>. HIDE DEF Row
  <2>. QED
    BY <1>1, Elements
<1>3. \A i \in DOMAIN rows : i \in Nat
  BY <1>2
<1>4. \A i \in DOMAIN rows : rows[i].close \in Nat /\ rows[i].stamp \in Nat
  BY <1>2
<1>. QED
  BY <1>2, <1>3, <1>4

LEMMA Desks ==
    ASSUME AlertShape PROVE desk.value \in Nat /\ desk.head \in Nat /\ desk.fact \in Nat
<1>1. desk \in [monitoring : BOOLEAN, head : Nat, fact : Nat, value : Values \cup {0},
                margin : Margins]
  BY DEF AlertShape, Desk
<1>2. Values \cup {0} \subseteq Nat
  BY AlertParameters
<1>3. desk.value \in Values \cup {0} /\ desk.head \in Nat /\ desk.fact \in Nat
  BY <1>1
<1>. QED
  BY <1>2, <1>3

LEMMA DeskFields ==
    ASSUME NEW d \in Desk, NEW m \in BOOLEAN, NEW h \in Nat, NEW f \in Nat,
           NEW v \in Values \cup {0}
    PROVE  /\ [d EXCEPT !.monitoring = m, !.head = h, !.fact = f, !.value = v] \in Desk
           /\ [d EXCEPT !.monitoring = m, !.head = h] \in Desk
           /\ [d EXCEPT !.monitoring = m, !.head = h].fact = d.fact
           /\ [d EXCEPT !.monitoring = m, !.head = h].value = d.value
BY DEF Desk

\* The row that counts, if one does, is one of the rows.
LEMMA CurrentRows ==
    ASSUME AlertShape, NEW t \in Nat, CurrentRow(t) # NoRow
    PROVE  CurrentRow(t) \in DOMAIN rows
<1>. DEFINE known == {i \in DOMAIN rows : rows[i].stamp <= t /\ rows[i].session = Session(t)}
            S == {rows[i].stamp : i \in known}
<1>1. /\ DOMAIN rows = 1..Len(rows) /\ Len(rows) \in Nat
      /\ \A i \in DOMAIN rows : rows[i].stamp \in Nat
  BY Rows
<1>2. known # {}
  BY DEF CurrentRow
<1>3. S \in SUBSET Nat /\ S # {} /\ \A x \in S : x <= t
  BY <1>1, <1>2
<1>4. \E x \in S : \A y \in S : y <= x
  <2>. HIDE DEF S
  <2>. QED
    BY <1>3, Greatest
<1>5. PICK m \in known : \A j \in known : rows[j].stamp <= rows[m].stamp
  BY <1>4
<1>. DEFINE T == {i \in known : rows[i].stamp = rows[m].stamp}
<1>6. T \in SUBSET Nat /\ T # {} /\ \A x \in T : x <= Len(rows)
  BY <1>1, <1>5
<1>7. PICK i \in T : \A j \in T : j <= i
  <2>. HIDE DEF T
  <2>. QED
    BY <1>1, <1>6, Greatest
<1>8. \A j \in known : rows[j].stamp < rows[i].stamp \/ (rows[j].stamp = rows[i].stamp /\ j <= i)
  <2>. TAKE j \in known
  <2>1. rows[j].stamp <= rows[m].stamp /\ rows[i].stamp = rows[m].stamp
        /\ rows[j].stamp \in Nat /\ rows[m].stamp \in Nat
    BY <1>1, <1>5, <1>7
  <2>2. CASE rows[j].stamp = rows[m].stamp
    BY <1>7, <2>1, <2>2
  <2>. QED
    BY <2>1, <2>2
<1>9. i \in known
  BY <1>7
<1>10. CurrentRow(t) = CHOOSE x \in known : \A j \in known :
          rows[j].stamp < rows[x].stamp \/ (rows[j].stamp = rows[x].stamp /\ j <= x)
  BY <1>2 DEF CurrentRow
<1>11. CurrentRow(t) \in known
  <2>. HIDE DEF known
  <2>. QED
    BY <1>8, <1>9, <1>10
<1>. QED
  BY <1>11

\* What an evaluation finds on the other side is a crossing.
LEMMA NewSides ==
    ASSUME AlertShape, NEW r \in Replicas, Observes(r)
    PROVE  LET e == ev[r]
               i == CurrentRow(e.asof) IN
           /\ e \in [at : {"off", "begun", "told"}, asof : Nat, head : Nat, margin : Nat]
           /\ e.at = "begun" /\ i \in DOMAIN rows /\ i \in Nat
           /\ crossing # NoCrossing /\ crossing.fact = desk.fact
           /\ crossing.head = e.head /\ crossing.margin = e.margin
           /\ crossing' = [crossing EXCEPT !.row = i, !.fact = desk.fact, !.head = e.head,
                                           !.margin = e.margin, !.side = NewSide(e)]
           /\ NewSide(e) \in Sides \cup {crossing.side}
           /\ NewSide(e) # crossing.side =>
                 /\ crossing.side \in Sides /\ NewSide(e) \in Sides
                 /\ Placed(i, desk.value - crossing.margin, NewSide(e))
<1>. DEFINE e == ev[r]   i == CurrentRow(e.asof)
<1>1. e \in [at : {"off", "begun", "told"}, asof : Nat, head : Nat, margin : Nat]
  BY DEF AlertShape
<1>2. /\ e.at = "begun" /\ i # NoRow
      /\ crossing # NoCrossing /\ crossing.fact = desk.fact
      /\ crossing.head = e.head /\ crossing.margin = e.margin
      /\ crossing' = [crossing EXCEPT !.row = i, !.fact = desk.fact, !.head = e.head,
                                      !.margin = e.margin, !.side = NewSide(e)]
  BY DEF Observes, Sees, SameBoundary, Found
<1>3. i \in DOMAIN rows /\ i \in Nat /\ rows[i].close \in Nat
  BY <1>1, <1>2, CurrentRows, Rows
<1>4. desk.value \in Nat /\ e.margin \in Nat /\ Hysteresis \in Nat
  BY <1>1, AlertParameters, Desks
<1>. DEFINE c == rows[i].close   b == desk.value - e.margin
<1>5. NewSide(e) = CASE crossing.side = "above" /\ c <= b - Hysteresis -> "below"
                     [] crossing.side = "below" /\ c >= b + Hysteresis -> "above"
                     [] OTHER -> crossing.side
  BY DEF NewSide, Boundary
<1>6. b \in Int /\ c \in Nat
  BY <1>3, <1>4
<1>. HIDE DEF c, b
<1>7. CASE crossing.side = "above" /\ c <= b - Hysteresis
  <2>1. NewSide(e) = "below"
    BY <1>5, <1>7
  <2>2. c < b \/ (Hysteresis = 0 /\ c = b)
    BY <1>4, <1>6, <1>7
  <2>3. Placed(i, b, "below")
    BY <2>2 DEF Placed, c
  <2>. QED
    BY <1>1, <1>2, <1>3, <1>7, <2>1, <2>3 DEF Sides, b
<1>8. CASE crossing.side = "below" /\ c >= b + Hysteresis
  <2>1. NewSide(e) = "above"
    BY <1>5, <1>8
  <2>2. c >= b
    BY <1>4, <1>6, <1>8
  <2>3. Placed(i, b, "above")
    BY <2>2 DEF Placed, c
  <2>. QED
    BY <1>1, <1>2, <1>3, <1>8, <2>1, <2>3 DEF Sides, b
<1>9. CASE /\ ~(crossing.side = "above" /\ c <= b - Hysteresis)
           /\ ~(crossing.side = "below" /\ c >= b + Hysteresis)
  <2>1. NewSide(e) = crossing.side
    BY <1>5, <1>9
  <2>. QED
    BY <1>1, <1>2, <1>3, <2>1
<1>. QED
  BY <1>7, <1>8, <1>9

LEMMA InitialSides ==
    ASSUME AlertShape, NEW r \in Replicas, Initialize(r)
    PROVE  LET e == ev[r]
               i == CurrentRow(e.asof) IN
           /\ e \in [at : {"off", "begun", "told"}, asof : Nat, head : Nat, margin : Nat]
           /\ e.at = "begun" /\ i \in DOMAIN rows /\ i \in Nat
           /\ crossing = NoCrossing \/ ~SameBoundary(e)
           /\ crossing' = [crossing EXCEPT !.row = i, !.fact = desk.fact, !.head = e.head,
                                           !.margin = e.margin, !.side = InitialSide(e)]
           /\ InitialSide(e) \in Sides /\ Placed(i, desk.value - e.margin, InitialSide(e))
<1>. DEFINE e == ev[r]   i == CurrentRow(e.asof)
<1>1. e \in [at : {"off", "begun", "told"}, asof : Nat, head : Nat, margin : Nat]
  BY DEF AlertShape
<1>2. /\ e.at = "begun" /\ i # NoRow
      /\ crossing = NoCrossing \/ ~SameBoundary(e)
      /\ crossing' = [crossing EXCEPT !.row = i, !.fact = desk.fact, !.head = e.head,
                                      !.margin = e.margin, !.side = InitialSide(e)]
  BY DEF Initialize, Sees, Found
<1>3. i \in DOMAIN rows /\ i \in Nat /\ rows[i].close \in Nat
  BY <1>1, <1>2, CurrentRows, Rows
<1>4. desk.value - e.margin \in Int
  <2>1. desk.value \in Nat /\ e.margin \in Nat
    BY <1>1, Desks
  <2>. QED
    BY <2>1
<1>5. InitialSide(e) = IF rows[i].close < desk.value - e.margin THEN "below" ELSE "above"
  BY DEF InitialSide, Boundary
<1>6. Placed(i, desk.value - e.margin, InitialSide(e))
  BY <1>3, <1>4, <1>5 DEF Placed
<1>7. InitialSide(e) \in Sides
  BY <1>5 DEF Sides
<1>. QED
  BY <1>1, <1>2, <1>3, <1>6, <1>7

\* What the user does, and what comes in, leaves the evaluations and the alerts alone.
LEMMA MarketSteps ==
    ASSUME AlertShape, [AllNext]_allVars,
           ~\E r \in Replicas : BeginRun(r) \/ Evaluate(r) \/ CrashRun(r)
    PROVE  /\ UNCHANGED <<crossing, ev, alert>>
           /\ now' \in Nat
           /\ fetch' \in [Fetchers -> [at : {"idle", "asked"}, stamp : Nat]]
           /\ \/ rows' = rows
              \/ \E row \in [session : Nat, close : Nat, stamp : Nat] : rows' = Append(rows, row)
           /\ desk' \in Desk
           /\ \/ desk'.fact = desk.fact /\ desk'.value = desk.value
              \/ desk'.fact = desk.fact + 1
<1>1. /\ now \in Nat /\ desk \in Desk
      /\ fetch \in [Fetchers -> [at : {"idle", "asked"}, stamp : Nat]]
  BY DEF AlertShape
<1>2. ASSUME NEW f \in Fetchers, NEW t \in {now, DayEnd(now)}, StartRefresh(f, t)
      PROVE  /\ UNCHANGED <<crossing, ev, alert, now, rows, desk>>
             /\ fetch' \in [Fetchers -> [at : {"idle", "asked"}, stamp : Nat]]
  <2>1. t \in Nat
    BY <1>1, Stamps
  <2>. QED
    BY <1>1, <1>2, <2>1 DEF StartRefresh
<1>3. ASSUME NEW f \in Fetchers, EndRefresh(f)
      PROVE  /\ UNCHANGED <<crossing, ev, alert, now, desk>>
             /\ fetch' \in [Fetchers -> [at : {"idle", "asked"}, stamp : Nat]]
             /\ \/ rows' = rows
                \/ \E row \in [session : Nat, close : Nat, stamp : Nat] : rows' = Append(rows, row)
  <2>1. fetch[f].stamp \in Nat
    BY <1>1
  <2>2. Session(fetch[f].stamp) \in Nat
    BY <2>1, Stamps
  <2>3. \A close \in Closes : [session |-> Session(fetch[f].stamp), close |-> close,
                               stamp |-> fetch[f].stamp] \in [session : Nat, close : Nat, stamp : Nat]
    BY <2>1, <2>2, AlertParameters
  <2>4. fetch' \in [Fetchers -> [at : {"idle", "asked"}, stamp : Nat]]
    BY <1>1, <1>3 DEF EndRefresh, Idle
  <2>5. UNCHANGED <<crossing, ev, alert, now, desk>>
    BY <1>3 DEF EndRefresh
  <2>6. \/ rows' = rows
        \/ \E close \in Closes : rows' = Append(rows, [session |-> Session(fetch[f].stamp),
                                                       close |-> close, stamp |-> fetch[f].stamp])
    BY <1>3 DEF EndRefresh
  <2>. QED
    BY <2>3, <2>4, <2>5, <2>6
<1>4. ASSUME NEW monitoring \in BOOLEAN, NEW value \in Values \cup {0},
             SaveRevision(monitoring, value)
      PROVE  /\ UNCHANGED <<crossing, ev, alert, now, rows, fetch>>
             /\ desk' \in Desk /\ desk'.fact = desk.fact + 1
  <2>1. desk.head + 1 \in Nat /\ desk.fact + 1 \in Nat
    BY Desks
  <2>2. /\ UNCHANGED <<crossing, ev, alert, now, rows, fetch>>
        /\ desk' = [desk EXCEPT !.monitoring = monitoring, !.head = desk.head + 1,
                                !.fact = desk.fact + 1, !.value = value]
    BY <1>4 DEF SaveRevision, market
  <2>. DEFINE h == desk.head + 1   f == desk.fact + 1
  <2>3. h \in Nat /\ f \in Nat /\ desk' = [desk EXCEPT !.monitoring = monitoring, !.head = h,
                                                      !.fact = f, !.value = value]
    BY <2>1, <2>2
  <2>. HIDE DEF h, f
  <2>4. desk' \in Desk /\ desk'.fact = f
    <3>1. [desk EXCEPT !.monitoring = monitoring, !.head = h, !.fact = f, !.value = value] \in Desk
      BY <1>1, <2>3, DeskFields, ZenonT(30)
    <3>2. "fact" \in DOMAIN desk
      BY <1>1 DEF Desk
    <3>3. desk'.fact = f
      BY <2>3, <3>2
    <3>. QED
      BY <2>3, <3>1, <3>3
  <2>. QED
    BY <2>2, <2>4 DEF f
<1>5. ASSUME NEW monitoring \in BOOLEAN, SaveWithoutValue(monitoring)
      PROVE  /\ UNCHANGED <<crossing, ev, alert, now, rows, fetch>>
             /\ desk' \in Desk /\ desk'.fact = desk.fact /\ desk'.value = desk.value
  <2>1. desk.head + 1 \in Nat
    BY Desks
  <2>2. /\ UNCHANGED <<crossing, ev, alert, now, rows, fetch>>
        /\ desk' = [desk EXCEPT !.monitoring = monitoring, !.head = desk.head + 1]
    BY <1>5 DEF SaveWithoutValue, market
  <2>. DEFINE h == desk.head + 1
  <2>3. h \in Nat /\ desk' = [desk EXCEPT !.monitoring = monitoring, !.head = h]
    BY <2>1, <2>2
  <2>. HIDE DEF h
  <2>4. desk' \in Desk /\ desk'.fact = desk.fact /\ desk'.value = desk.value
    <3>1. \E f \in Nat, v \in Values \cup {0} : TRUE
      OBVIOUS
    <3>. QED
      BY <1>1, <1>5, <2>3, <3>1, DeskFields, ZenonT(30)
  <2>. QED
    BY <2>2, <2>4
<1>6. ASSUME NEW margin \in Margins, SetMargin(margin)
      PROVE  /\ UNCHANGED <<crossing, ev, alert, now, rows, fetch>>
             /\ desk' \in Desk /\ desk'.fact = desk.fact /\ desk'.value = desk.value
  BY <1>1, <1>6 DEF SetMargin, Desk, market
<1>7. ASSUME Tick
      PROVE  /\ UNCHANGED <<crossing, ev, alert, rows, fetch, desk>> /\ now' \in Nat
  BY <1>1, <1>7 DEF Tick
<1>8. ASSUME DigestNext \/ UNCHANGED allVars
      PROVE  UNCHANGED <<crossing, ev, alert, now, rows, fetch, desk>>
  BY <1>8 DEF DigestNext, allVars, alertVars
<1>. QED
  BY <1>1, <1>2, <1>3, <1>4, <1>5, <1>6, <1>7, <1>8 DEF AllNext, AlertNext

\* An evaluation leaves the market and the user alone.
LEMMA EvaluationSteps ==
    ASSUME NEW r \in Replicas, BeginRun(r) \/ Evaluate(r) \/ CrashRun(r)
    PROVE  UNCHANGED <<market, desk>> /\ (~Cross(r) => alert' = alert)
BY DEF BeginRun, Evaluate, CrashRun, NothingToSee, Initialize, Observe, Cross, RecordNotified

LEMMA AlertShapeKept ==
    ASSUME AlertShape, Sided, [AllNext]_allVars PROVE AlertShape'
<1>. DEFINE Crossings == [row : Nat, fact : Nat, head : Nat, margin : Nat,
                          side : Sides \cup {"none"}, notified : Int]
            Evaluations == [at : {"off", "begun", "told"}, asof : Nat, head : Nat, margin : Nat]
            AlertsOf == [side : Sides \cup {"none"}, margin : Nat, row : Nat, fact : Nat,
                         value : Nat]
<1>1. /\ crossing \in Crossings /\ ev \in [Replicas -> Evaluations] /\ alert \in [Keys -> AlertsOf]
      /\ now \in Nat /\ rows \in Seq([session : Nat, close : Nat, stamp : Nat])
      /\ fetch \in [Fetchers -> [at : {"idle", "asked"}, stamp : Nat]]
      /\ desk \in Desk
  BY DEF AlertShape
<1>2. CASE ~\E r \in Replicas : BeginRun(r) \/ Evaluate(r) \/ CrashRun(r)
  <2>1. rows' \in Seq([session : Nat, close : Nat, stamp : Nat])
    <3>. DEFINE S == [session : Nat, close : Nat, stamp : Nat]
    <3>1. rows \in Seq(S) /\ (rows' = rows \/ \E row \in S : rows' = Append(rows, row))
      BY <1>1, <1>2, MarketSteps
    <3>2. rows' \in Seq(S)
      <4>. HIDE DEF S
      <4>. QED
        BY <3>1
    <3>. QED
      BY <3>2
  <2>. QED
    BY <1>1, <1>2, <2>1, MarketSteps DEF AlertShape
<1>3. ASSUME NEW r \in Replicas, BeginRun(r) \/ Evaluate(r) \/ CrashRun(r) PROVE AlertShape'
  <2>1. UNCHANGED <<now, rows, fetch, desk>>
    BY <1>3, EvaluationSteps DEF market
  <2>2. /\ desk.head \in Nat /\ desk.fact \in Nat /\ desk.value \in Nat /\ desk.margin \in Nat
        /\ Off \in Evaluations
    <3>1. desk.margin \in Margins
      BY <1>1 DEF Desk
    <3>. QED
      BY <3>1, Desks, AlertParameters DEF Off
  <2>3. ASSUME Stop(r) PROVE ev' \in [Replicas -> Evaluations]
    BY <1>1, <2>2, <2>3 DEF Stop
  <2>4. CASE BeginRun(r)
    <3>1. ev' \in [Replicas -> Evaluations]
      BY <1>1, <2>2, <2>4 DEF BeginRun
    <3>. QED
      BY <1>1, <2>1, <2>4, <3>1 DEF BeginRun, AlertShape
  <2>5. CASE NothingToSee(r) \/ CrashRun(r)
    <3>1. Stop(r) /\ UNCHANGED <<crossing, alert>>
      BY <2>5 DEF NothingToSee, CrashRun
    <3>. QED
      BY <1>1, <2>1, <2>3, <3>1 DEF AlertShape
  <2>6. CASE Initialize(r)
    <3>1. Stop(r) /\ UNCHANGED alert
      BY <2>6 DEF Initialize
    <3>2. crossing' \in Crossings
      <4>1. PICK s \in Sides, i \in Nat :
               crossing' = [crossing EXCEPT !.row = i, !.fact = desk.fact, !.head = ev[r].head,
                                            !.margin = ev[r].margin, !.side = s]
        BY <2>6, InitialSides
      <4>2. ev[r].head \in Nat /\ ev[r].margin \in Nat
        BY <1>1
      <4>. QED
        BY <1>1, <2>2, <4>1, <4>2
    <3>. QED
      BY <1>1, <2>1, <2>3, <3>1, <3>2 DEF AlertShape
  <2>7. ASSUME Observes(r)
        PROVE  crossing' \in Crossings /\ AlertOf(ev[r]) \in AlertsOf
    <3>1. crossing.side \in Sides \cup {"none"}
      BY <1>1
    <3>2. /\ NewSide(ev[r]) \in Sides \cup {crossing.side} /\ CurrentRow(ev[r].asof) \in Nat
          /\ crossing' = [crossing EXCEPT !.row = CurrentRow(ev[r].asof), !.fact = desk.fact,
                                          !.head = ev[r].head, !.margin = ev[r].margin,
                                          !.side = NewSide(ev[r])]
      BY <2>7, NewSides
    <3>3. /\ ev[r].head \in Nat /\ ev[r].margin \in Nat
          /\ NewSide(ev[r]) \in Sides \cup {"none"}
      BY <1>1, <3>1, <3>2
    <3>4. crossing' \in Crossings
      BY <1>1, <2>2, <3>2, <3>3
    <3>5. AlertOf(ev[r]) \in AlertsOf
      BY <2>2, <3>2, <3>3 DEF AlertOf
    <3>. QED
      BY <3>4, <3>5
  <2>8. CASE Observe(r)
    <3>1. Stop(r) /\ UNCHANGED alert /\ Observes(r)
      BY <2>8 DEF Observe
    <3>. QED
      BY <1>1, <2>1, <2>3, <2>7, <3>1 DEF AlertShape
  <2>9. CASE Cross(r)
    <3>1. /\ Observes(r) /\ ev' = [ev EXCEPT ![r].at = "told"]
          /\ alert' = [alert EXCEPT ![NextKey] = AlertOf(ev[r])]
      BY <2>9 DEF Cross
    <3>2. ev' \in [Replicas -> Evaluations]
      BY <1>1, <3>1
    <3>3. alert' \in [Keys -> AlertsOf]
      BY <1>1, <2>7, <3>1
    <3>. QED
      BY <1>1, <2>1, <2>7, <3>1, <3>2, <3>3 DEF AlertShape
  <2>10. CASE RecordNotified(r)
    <3>1. /\ Stop(r) /\ UNCHANGED alert
          /\ crossing' = [crossing EXCEPT !.notified = ev[r].asof]
      BY <2>10 DEF RecordNotified
    <3>2. ev[r].asof \in Int
      BY <1>1
    <3>3. crossing' \in Crossings
      BY <1>1, <3>1, <3>2
    <3>. QED
      BY <1>1, <2>1, <2>3, <3>1, <3>3 DEF AlertShape
  <2>. QED
    BY <1>3, <2>4, <2>5, <2>6, <2>8, <2>9, <2>10 DEF Evaluate
<1>. QED
  BY <1>2, <1>3

\* Rows are added and never lost.
LEMMA PlacedStay ==
    ASSUME AlertShape, [AllNext]_allVars, NEW i \in DOMAIN rows
    PROVE  i \in DOMAIN rows' /\ \A b, side : Placed(i, b, side) => Placed(i, b, side)'
<1>1. rows' = rows \/ \E row \in [session : Nat, close : Nat, stamp : Nat] : rows' = Append(rows, row)
  <2>1. CASE ~\E r \in Replicas : BeginRun(r) \/ Evaluate(r) \/ CrashRun(r)
    BY <2>1, MarketSteps
  <2>2. CASE \E r \in Replicas : BeginRun(r) \/ Evaluate(r) \/ CrashRun(r)
    BY <2>2, EvaluationSteps DEF market
  <2>. QED
    BY <2>1, <2>2
<1>2. i \in DOMAIN rows' /\ rows'[i] = rows[i]
  <2>. DEFINE S == [session : Nat, close : Nat, stamp : Nat]
  <2>1. rows \in Seq(S) /\ (rows' = rows \/ \E row \in S : rows' = Append(rows, row))
    BY <1>1 DEF AlertShape
  <2>. HIDE DEF S
  <2>2. Len(rows) \in Nat /\ DOMAIN rows = 1..Len(rows)
    BY <2>1, Elements
  <2>3. CASE rows' = rows
    BY <2>3
  <2>4. ASSUME NEW row \in S, rows' = Append(rows, row) PROVE i \in DOMAIN rows' /\ rows'[i] = rows[i]
    <3>1. i \in DOMAIN Append(rows, row) /\ Append(rows, row)[i] = rows[i]
      BY <2>1, Appended
    <3>. QED
      BY <2>4, <3>1
  <2>. QED
    BY <2>1, <2>3, <2>4
<1>. QED
  BY <1>2 DEF Placed

LEMMA SidedKept ==
    ASSUME AlertShape, Sided, [AllNext]_allVars PROVE Sided'
<1>1. desk.fact \in Nat /\ crossing.fact \in Nat /\ crossing.side \in Sides \cup {"none"}
      /\ "none" \notin Sides
  BY Desks DEF AlertShape, Sides
<1>2. CASE ~\E r \in Replicas : BeginRun(r) \/ Evaluate(r) \/ CrashRun(r)
  <2>1. /\ UNCHANGED <<crossing, ev, alert>>
        /\ \/ desk'.fact = desk.fact /\ desk'.value = desk.value
           \/ desk'.fact = desk.fact + 1
    BY <1>2, MarketSteps
  <2>2. crossing'.fact <= desk'.fact
    BY <1>1, <2>1 DEF Sided
  <2>3. ASSUME crossing'.side \in Sides, crossing'.fact = desk'.fact
        PROVE  \E i \in DOMAIN rows' : Placed(i, desk.value - crossing.margin, crossing.side)'
    <3>1. desk'.fact = desk.fact /\ desk'.value = desk.value
      BY <1>1, <2>1, <2>3 DEF Sided
    <3>2. PICK i \in DOMAIN rows : Placed(i, desk.value - crossing.margin, crossing.side)
      BY <2>1, <2>3, <3>1 DEF Sided
    <3>3. i \in DOMAIN rows' /\ Placed(i, desk.value - crossing.margin, crossing.side)'
      BY <2>1, <3>1, <3>2, PlacedStay DEF Placed
    <3>. QED
      BY <3>3
  <2>. QED
    BY <2>1, <2>2, <2>3 DEF Sided
<1>3. ASSUME NEW r \in Replicas, BeginRun(r) \/ Evaluate(r) \/ CrashRun(r) PROVE Sided'
  <2>1. UNCHANGED <<rows, desk>>
    BY <1>3, EvaluationSteps DEF market
  <2>2. ev \in [Replicas -> [at : {"off", "begun", "told"}, asof : Nat, head : Nat, margin : Nat]]
    BY DEF AlertShape
  <2>3. ASSUME Stop(r) \/ BeginRun(r), NEW q \in Replicas, ev'[q].at = "told"
        PROVE  ev[q].at = "told"
    BY <2>2, <2>3 DEF Stop, BeginRun, Off
  <2>4. CASE BeginRun(r) \/ NothingToSee(r) \/ CrashRun(r)
    <3>1. (Stop(r) \/ BeginRun(r)) /\ UNCHANGED crossing
      BY <2>4 DEF BeginRun, NothingToSee, CrashRun
    <3>. QED
      BY <2>1, <2>3, <3>1 DEF Sided, Placed
  \* Whatever is found is found on the side of a row.
  <2>5. ASSUME NEW i \in DOMAIN rows, NEW s \in Sides, i \in Nat, ev[r].margin \in Nat,
               crossing' = [crossing EXCEPT !.row = i, !.fact = desk.fact, !.head = ev[r].head,
                                            !.margin = ev[r].margin, !.side = s],
               \E j \in DOMAIN rows : Placed(j, desk.value - ev[r].margin, s)
        PROVE  Sided'
    <3>1. /\ crossing'.fact = desk.fact /\ crossing'.margin = ev[r].margin
          /\ crossing'.side = s
      BY <2>5 DEF AlertShape
    <3>2. crossing'.side \in Sides /\ crossing'.side # "none"
      BY <1>1, <3>1
    <3>3. \E j \in DOMAIN rows' : Placed(j, desk.value - crossing.margin, crossing.side)'
      BY <2>1, <2>5, <3>1 DEF Placed
    <3>4. crossing'.fact <= desk'.fact
      BY <1>1, <2>1, <3>1
    <3>. QED
      BY <3>2, <3>3, <3>4 DEF Sided
  <2>6. CASE Initialize(r)
    BY <2>2, <2>5, <2>6, InitialSides
  <2>7. ASSUME Observes(r) PROVE Sided'
    <3>. DEFINE i == CurrentRow(ev[r].asof)   s == NewSide(ev[r])
    <3>1. /\ i \in DOMAIN rows /\ i \in Nat /\ ev[r].margin \in Nat
          /\ crossing # NoCrossing /\ crossing.fact = desk.fact /\ crossing.margin = ev[r].margin
          /\ crossing' = [crossing EXCEPT !.row = i, !.fact = desk.fact, !.head = ev[r].head,
                                          !.margin = ev[r].margin, !.side = s]
          /\ s # crossing.side => s \in Sides /\ Placed(i, desk.value - crossing.margin, s)
      BY <2>2, <2>7, NewSides
    <3>2. crossing.side \in Sides
      BY <1>1, <3>1 DEF Sided
    <3>3. s \in Sides /\ \E j \in DOMAIN rows : Placed(j, desk.value - ev[r].margin, s)
      <4>1. CASE s = crossing.side
        BY <3>1, <3>2, <4>1 DEF Sided
      <4>2. CASE s # crossing.side
        BY <3>1, <4>2
      <4>. QED
        BY <4>1, <4>2
    <3>. HIDE DEF i, s
    <3>. QED
      BY <2>5, <3>1, <3>3
  <2>8. CASE Observe(r) \/ Cross(r)
    BY <2>7, <2>8 DEF Observe, Cross
  <2>9. CASE RecordNotified(r)
    <3>1. /\ ev[r].at = "told" /\ Stop(r)
          /\ crossing' = [crossing EXCEPT !.notified = ev[r].asof]
      BY <2>9 DEF RecordNotified
    <3>2. crossing.side \in Sides
      BY <3>1 DEF Sided
    <3>3. /\ crossing'.fact = crossing.fact /\ crossing'.margin = crossing.margin
          /\ crossing'.side = crossing.side
      BY <3>1 DEF AlertShape
    <3>. QED
      BY <1>1, <2>1, <2>3, <3>1, <3>2, <3>3 DEF Sided, Placed
  <2>. QED
    BY <1>3, <2>4, <2>6, <2>8, <2>9 DEF Evaluate
<1>. QED
  BY <1>2, <1>3

LEMMA OtherSideKept ==
    ASSUME AlertShape, Sided, OtherSide, [AllNext]_allVars PROVE OtherSide'
<1>. SUFFICES ASSUME NEW k \in Keys, alert'[k] # NoAlert
              PROVE  /\ alert'[k].side \in Sides
                     /\ \E i \in DOMAIN rows' : \E side \in Sides \ {alert'[k].side} :
                           Placed(i, alert[k].value - alert[k].margin, side)'
  BY DEF OtherSide
<1>1. CASE alert'[k] = alert[k]
  <2>1. PICK i \in DOMAIN rows : \E side \in Sides \ {alert[k].side} :
                                    Placed(i, alert[k].value - alert[k].margin, side)
    BY <1>1 DEF OtherSide
  <2>2. PICK side \in Sides \ {alert[k].side} : Placed(i, alert[k].value - alert[k].margin, side)
    BY <2>1
  <2>3. i \in DOMAIN rows' /\ Placed(i, alert[k].value - alert[k].margin, side)'
    BY <1>1, <2>2, PlacedStay DEF Placed
  <2>. QED
    BY <1>1, <2>2, <2>3 DEF OtherSide
<1>2. CASE alert'[k] # alert[k]
  <2>1. PICK r \in Replicas : Cross(r)
    BY <1>2, MarketSteps, EvaluationSteps
  <2>2. /\ Observes(r) /\ NewSide(ev[r]) # crossing.side
        /\ alert' = [alert EXCEPT ![NextKey] = AlertOf(ev[r])] /\ UNCHANGED rows
    BY <2>1 DEF Cross, market
  <2>3. alert'[k] = AlertOf(ev[r])
    BY <1>2, <2>2 DEF AlertShape
  <2>4. /\ alert'[k].side = NewSide(ev[r])
        /\ alert'[k].value = desk.value /\ alert'[k].margin = ev[r].margin
    BY <2>3 DEF AlertOf
  <2>5. /\ crossing.side \in Sides /\ NewSide(ev[r]) \in Sides
        /\ crossing.fact = desk.fact /\ crossing.margin = ev[r].margin
    BY <2>2, NewSides
  <2>6. PICK i \in DOMAIN rows : Placed(i, desk.value - crossing.margin, crossing.side)
    BY <2>5 DEF Sided
  <2>7. Placed(i, alert[k].value - alert[k].margin, crossing.side)'
          <=> IF crossing'.side = "above" THEN rows'[i].close >= alert'[k].value - alert'[k].margin
              ELSE rows'[i].close < alert'[k].value - alert'[k].margin
                   \/ (Hysteresis = 0 /\ rows'[i].close = alert'[k].value - alert'[k].margin)
    BY DEF Placed
  <2>8. \E side \in Sides \ {alert'[k].side} : Placed(i, alert[k].value - alert[k].margin, side)'
    <3>. DEFINE side == crossing.side
    <3>1. side \in Sides \ {alert'[k].side}
      BY <2>2, <2>4, <2>5
    <3>2. IF side = "above" THEN rows'[i].close >= alert'[k].value - alert'[k].margin
          ELSE rows'[i].close < alert'[k].value - alert'[k].margin
               \/ (Hysteresis = 0 /\ rows'[i].close = alert'[k].value - alert'[k].margin)
      BY <2>2, <2>4, <2>5, <2>6 DEF Placed
    <3>. HIDE DEF side
    <3>. QED
      BY <3>1, <3>2 DEF Placed
  <2>. QED
    BY <2>2, <2>4, <2>5, <2>6, <2>8
<1>. QED
  BY <1>1, <1>2

LEMMA AlertsInit == ASSUME AlertInit PROVE Alerts
<1>1. /\ Cooldown \in Nat /\ Margins \subseteq Nat /\ Values \subseteq Nat
      /\ 1 \in Nat /\ 0 \in Nat
  BY AlertParameters
<1>2. desk \in Desk /\ desk.fact = 1
  BY <1>1 DEF AlertInit, Desk
<1>3. rows \in Seq([session : Nat, close : Nat, stamp : Nat]) /\ now \in Nat
  BY DEF AlertInit
<1>4. crossing = NoCrossing /\ Never \in Int
  BY <1>1 DEF AlertInit, Never
<1>5. NoCrossing \in [row : Nat, fact : Nat, head : Nat, margin : Nat,
                      side : Sides \cup {"none"}, notified : Int]
  BY <1>1, <1>4 DEF NoCrossing, NoRow
<1>6. /\ fetch \in [Fetchers -> [at : {"idle", "asked"}, stamp : Nat]]
      /\ ev \in [Replicas -> [at : {"off", "begun", "told"}, asof : Nat, head : Nat, margin : Nat]]
      /\ alert \in [Keys -> [side : Sides \cup {"none"}, margin : Nat, row : Nat, fact : Nat,
                             value : Nat]]
  BY DEF AlertInit, Idle, Off, NoAlert, NoRow
<1>7. AlertShape
  BY <1>2, <1>3, <1>4, <1>5, <1>6 DEF AlertShape
<1>8. Sided
  BY <1>2, <1>4 DEF AlertInit, Sided, NoCrossing, Sides, Off
<1>9. OtherSide
  BY DEF AlertInit, OtherSide
<1>. QED
  BY <1>7, <1>8, <1>9 DEF Alerts

LEMMA AlertsKept == ASSUME Alerts, [AllNext]_allVars PROVE Alerts'
BY AlertShapeKept, SidedKept, OtherSideKept DEF Alerts

\* Neither an edit, nor a decision, nor a threshold, nor what a scheduler remembers of them
\* passes for a crossing: every alert is about a boundary with a row on its other side. With
\* a hysteresis of 0, which the schema accepts, a row at the boundary is on either.
THEOREM OnlyTheMarket ==
    AllSpec => [](OtherSide /\ (Hysteresis > 0 => OnlyMarketCrosses))
<1>1. ASSUME Alerts, Hysteresis > 0 PROVE OnlyMarketCrosses
  <2>. SUFFICES ASSUME NEW k \in Keys, alert[k] # NoAlert
                PROVE  \E i \in DOMAIN rows :
                          alert[k].side # IF rows[i].close < alert[k].value - alert[k].margin
                                          THEN "below" ELSE "above"
    BY DEF OnlyMarketCrosses
  <2>1. PICK i \in DOMAIN rows : \E side \in Sides \ {alert[k].side} :
                                    Placed(i, alert[k].value - alert[k].margin, side)
    BY <1>1 DEF Alerts, OtherSide
  <2>2. PICK side \in Sides \ {alert[k].side} : Placed(i, alert[k].value - alert[k].margin, side)
    BY <2>1
  <2>3. rows[i].close \in Nat /\ alert[k].value - alert[k].margin \in Int
    <3>1. alert[k].value \in Nat /\ alert[k].margin \in Nat
      BY <1>1 DEF Alerts, AlertShape
    <3>. QED
      BY <1>1, <3>1, Rows DEF Alerts
  <2>4. alert[k].side # IF rows[i].close < alert[k].value - alert[k].margin
                        THEN "below" ELSE "above"
    BY <1>1, <2>2, <2>3 DEF Placed, Sides
  <2>. QED
    BY <2>4
<1>2. Init /\ AlertInit => Alerts
  BY AlertsInit
<1>3. Alerts /\ [AllNext]_allVars => Alerts'
  BY AlertsKept
<1>4. Alerts => OtherSide /\ (Hysteresis > 0 => OnlyMarketCrosses)
  BY <1>1 DEF Alerts
<1>. QED
  BY <1>2, <1>3, <1>4, PTL DEF AllSpec

\* A step that leaves the boundary alone and moves the side writes an alert that says so, or
\* comes too soon after the last one.
LEMMA SaidOrTooSoon ==
    ASSUME Alerts, [AllNext]_allVars
    PROVE  crossing.side # "none" /\ crossing'.side # crossing.side
             /\ <<crossing'.fact, crossing'.head, crossing'.margin>>
                  = <<crossing.fact, crossing.head, crossing.margin>>
           => \/ \E k \in Keys :
                   /\ alert'[k].side = crossing'.side
                   /\ alert'[k].row = crossing'.row
                   /\ alert'[k].fact = crossing'.fact
              \/ \E r \in Replicas :
                   /\ ev[r].at = "begun" /\ ev'[r] = Off
                   /\ crossing.notified > ev[r].asof - Cooldown
<1>. DEFINE Said ==
          crossing.side # "none" /\ crossing'.side # crossing.side
            /\ <<crossing'.fact, crossing'.head, crossing'.margin>>
                 = <<crossing.fact, crossing.head, crossing.margin>>
          => \/ \E k \in Keys :
                  /\ alert'[k].side = crossing'.side
                  /\ alert'[k].row = crossing'.row
                  /\ alert'[k].fact = crossing'.fact
             \/ \E r \in Replicas :
                  /\ ev[r].at = "begun" /\ ev'[r] = Off
                  /\ crossing.notified > ev[r].asof - Cooldown
<1>0. SUFFICES Said
  OBVIOUS
<1>1. AlertShape
  BY DEF Alerts
<1>9. {"row", "fact", "head", "margin", "side", "notified"} = DOMAIN crossing
  BY <1>1 DEF AlertShape
<1>2. CASE ~\E r \in Replicas : Evaluate(r)
  <2>1. UNCHANGED crossing
    <3>1. ASSUME NEW r \in Replicas, BeginRun(r) \/ CrashRun(r) PROVE UNCHANGED crossing
      BY <3>1 DEF BeginRun, CrashRun
    <3>. QED
      BY <1>1, <1>2, <3>1, MarketSteps
  <2>. QED
    BY <2>1
<1>3. ASSUME NEW r \in Replicas, NothingToSee(r) \/ RecordNotified(r) PROVE Said
  <2>1. crossing'.side = crossing.side
    BY <1>1, <1>3 DEF NothingToSee, RecordNotified, AlertShape
  <2>. QED
    BY <2>1
<1>4. ASSUME NEW r \in Replicas, Initialize(r) PROVE Said
  <2>1. /\ crossing = NoCrossing \/ ~SameBoundary(ev[r])
        /\ crossing'.fact = desk.fact /\ crossing'.head = ev[r].head
        /\ crossing'.margin = ev[r].margin
    <3>1. /\ crossing = NoCrossing \/ ~SameBoundary(ev[r])
          /\ crossing' = [crossing EXCEPT !.row = CurrentRow(ev[r].asof), !.fact = desk.fact,
                                          !.head = ev[r].head, !.margin = ev[r].margin,
                                          !.side = InitialSide(ev[r])]
      BY <1>1, <1>4, InitialSides
    <3>. QED
      BY <1>9, <3>1
  <2>2. NoCrossing.side = "none"
    BY DEF NoCrossing
  <2>. QED
    BY <2>1, <2>2 DEF SameBoundary
<1>5. ASSUME NEW r \in Replicas, Observes(r)
      PROVE  /\ crossing'.side = NewSide(ev[r]) /\ crossing'.row = CurrentRow(ev[r].asof)
             /\ crossing'.fact = desk.fact /\ ev[r].at = "begun"
  <2>1. /\ crossing' = [crossing EXCEPT !.row = CurrentRow(ev[r].asof), !.fact = desk.fact,
                                        !.head = ev[r].head, !.margin = ev[r].margin,
                                        !.side = NewSide(ev[r])]
        /\ ev[r].at = "begun"
    BY <1>1, <1>5, NewSides
  <2>. QED
    BY <1>9, <2>1
<1>6. \A e : /\ AlertOf(e).side = NewSide(e) /\ AlertOf(e).row = CurrentRow(e.asof)
             /\ AlertOf(e).fact = desk.fact
  BY DEF AlertOf
<1>7. ASSUME NEW r \in Replicas, Observe(r) PROVE Said
  <2>1. Observes(r) /\ Stop(r) /\ alert' = alert
    BY <1>7 DEF Observe
  <2>2. CASE NewSide(ev[r]) = crossing.side
    BY <1>5, <2>1, <2>2
  <2>3. CASE ~CooledDown(ev[r])
    <3>1. crossing.notified \in Int /\ ev[r].asof \in Nat /\ Cooldown \in Nat
      BY <1>1, AlertParameters DEF AlertShape
    <3>2. crossing.notified > ev[r].asof - Cooldown
      BY <2>3, <3>1 DEF CooledDown
    <3>3. ev'[r] = Off
      BY <1>1, <2>1 DEF Stop, AlertShape
    <3>. QED
      BY <1>5, <2>1, <3>2, <3>3
  <2>4. CASE Told(ev[r])
    <3>1. PICK k \in Keys : alert'[k] = AlertOf(ev[r])
      BY <2>1, <2>4 DEF Told
    <3>. QED
      BY <1>5, <1>6, <2>1, <3>1
  <2>. QED
    BY <1>7, <2>2, <2>3, <2>4 DEF Observe
<1>8. ASSUME NEW r \in Replicas, Cross(r) PROVE Said
  <2>1. Observes(r) /\ alert' = [alert EXCEPT ![NextKey] = AlertOf(ev[r])] /\ NextKey \in Keys
    BY <1>8 DEF Cross, NextKey
  <2>2. alert'[NextKey] = AlertOf(ev[r])
    BY <1>1, <2>1 DEF AlertShape
  <2>. QED
    BY <1>5, <1>6, <2>1, <2>2
<1>. QED
  BY <1>2, <1>3, <1>4, <1>7, <1>8 DEF Evaluate

\* While the boundary stays, the side that is known of changes only with an alert that says
\* so, or too soon after the last one, be it through a crash or another scheduler.
THEOREM NothingCrossesSilently == AllSpec => NoSilentCrossing
<1>1. AllSpec => []Alerts
  BY AlertsInit, AlertsKept, PTL DEF AllSpec
<1>2. Alerts /\ [AllNext]_allVars
        => [crossing.side # "none" /\ crossing'.side # crossing.side
              /\ <<crossing'.fact, crossing'.head, crossing'.margin>>
                   = <<crossing.fact, crossing.head, crossing.margin>>
            => \/ \E k \in Keys :
                    /\ alert'[k].side = crossing'.side
                    /\ alert'[k].row = crossing'.row
                    /\ alert'[k].fact = crossing'.fact
               \/ \E r \in Replicas :
                    /\ ev[r].at = "begun" /\ ev'[r] = Off
                    /\ crossing.notified > ev[r].asof - Cooldown]_allVars
  BY SaidOrTooSoon
<1>. QED
  BY <1>1, <1>2, PTL DEF AllSpec, NoSilentCrossing
=============================================================================
