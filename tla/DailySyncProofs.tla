-------------------------- MODULE DailySyncProofs --------------------------
(***************************************************************************)
(* Proofs about SmartRetry and DailySync, for any jobs, dates, indexes and *)
(* schedulers: the types, and that a target which only its parents name is *)
(* retried only so often.                                                  *)
(***************************************************************************)
EXTENDS DailySync, SequenceTheorems, FiniteSetTheorems, WellFoundedInduction, TLAPS

\* The schedulers that have chosen k and not triggered it yet.
Wanting(k) == {p \in Schedulers : pass[p].chosen # None /\ pass[p].chosen.key = k}

Retried(j, k) == {i \in Newer(j, k) : runs[i].retry}

Limit == MaxAttempts + Cardinality(Schedulers) - 1

\* What ended has failed, and so has what is still to be looked at.
LeftFailed ==
    /\ \A x \in DOMAIN ended : runs[ended[x]].status = "failed"
    /\ \A p \in Schedulers : \A x \in DOMAIN pass[p].left :
          /\ pass[p].left[x] \in DOMAIN runs
          /\ runs[pass[p].left[x]].status = "failed"

\* A run names nobody but itself, and that if it was given all it takes; parents, which
\* name others, are neither given all it takes nor retried.
TargetsNamed ==
    \A i \in DOMAIN runs :
        /\ runs[i].retry \/ runs[i].whole => runs[i].key \in Targets
        /\ \A k \in runs[i].targets :
              runs[i].key \in Parents \/ (runs[i].key = k /\ runs[i].whole)

(* The retries of k since some failure that names it, and those that have    *)
(* been decided on: a scheduler has decided when there was still one to go.  *)
Bounded(k) ==
    \/ \E i \in Of(k) : runs[i].whole
    \/ (\E i \in Of(k) : runs[i].retry) \/ Wanting(k) # {}
       => \E j \in Failures(k) : Attempts(j, k) + Cardinality(Wanting(k)) <= Limit

RetryInv ==
    /\ TypeOK
    /\ LeftFailed
    /\ TargetsNamed
    /\ \A k \in Targets : Bounded(k)

-----------------------------------------------------------------------------
LEMMA Parameters ==
    /\ MaxAttempts \in Nat /\ MaxAttempts > 0 /\ MaxOthers \in Nat /\ MaxFollowed \in Nat
    /\ IsFiniteSet(Schedulers) /\ Cardinality(Schedulers) \in Nat
    /\ Parents \cap Targets = {} /\ Keys = Targets \cup Parents
BY SmartRetryAssumption, FS_CardinalityType DEF SmartRetryAssumption, Keys

LEMMA RunsAre ==
    ASSUME TypeOK
    PROVE  /\ runs \in Seq(Run) /\ Len(runs) \in Nat /\ DOMAIN runs = 1..Len(runs)
           /\ \A i \in DOMAIN runs : runs[i] \in Run
           /\ ended \in Seq(DOMAIN runs) /\ Len(ended) \in Nat /\ DOMAIN ended = 1..Len(ended)
           /\ \A x \in DOMAIN ended : ended[x] \in DOMAIN runs
           /\ aged \in 0..Len(ended) /\ pass \in [Schedulers -> Pass]
BY DEF TypeOK

LEMMA Counts ==
    ASSUME TypeOK, NEW j, NEW k
    PROVE  /\ IsFiniteSet(Retried(j, k)) /\ Attempts(j, k) = Cardinality(Retried(j, k))
           /\ Attempts(j, k) \in Nat
           /\ IsFiniteSet(Wanting(k)) /\ Cardinality(Wanting(k)) \in Nat
           /\ Cardinality(Wanting(k)) <= Cardinality(Schedulers)
<1>1. IsFiniteSet(1..Len(runs))
  BY RunsAre, FS_Interval
<1>2. Retried(j, k) \subseteq 1..Len(runs)
  BY RunsAre DEF Retried, Newer, Of
<1>3. IsFiniteSet(Retried(j, k))
  BY <1>1, <1>2, FS_Subset
<1>4. Attempts(j, k) = Cardinality(Retried(j, k))
  BY DEF Attempts, Retried
<1>5. Wanting(k) \subseteq Schedulers
  BY DEF Wanting
<1>. QED
  BY <1>3, <1>4, <1>5, Parameters, FS_Subset, FS_CardinalityType

\* The earlier the failure, the more retries there are since.
LEMMA FewerSince ==
    ASSUME TypeOK, NEW i \in Nat, NEW j \in Nat, i <= j, NEW k
    PROVE  Attempts(j, k) <= Attempts(i, k)
<1>1. Retried(j, k) \subseteq Retried(i, k)
  BY RunsAre DEF Retried, Newer, Of
<1>. QED
  BY <1>1, Counts, FS_Subset

(* A step that gives the runs there are other places in the same order, and  *)
(* leaves what has failed as it was, keeps the bound of a target of which it *)
(* creates no retry.                                                         *)
LEMMA BoundCarried ==
    ASSUME TypeOK, TypeOK', NEW k, Bounded(k), NEW m \in [DOMAIN runs -> DOMAIN runs'],
           \A i, j \in DOMAIN runs : i < j => m[i] < m[j],
           \A i \in DOMAIN runs :
              /\ runs'[m[i]].key = runs[i].key /\ runs'[m[i]].whole = runs[i].whole
              /\ runs'[m[i]].retry = runs[i].retry
              /\ runs[i].status = "failed" /\ k \in runs[i].targets
                 => runs'[m[i]].status = "failed" /\ k \in runs'[m[i]].targets,
           \A n \in DOMAIN runs' : runs'[n].key = k /\ runs'[n].retry => \E i \in DOMAIN runs : n = m[i],
           Wanting(k)' \subseteq Wanting(k)
    PROVE  Bounded(k)'
<1>1. CASE \E i \in Of(k) : runs[i].whole
  <2>1. \E i \in DOMAIN runs' : runs'[i].key = k /\ runs'[i].whole
    BY <1>1 DEF Of
  <2>. QED
    BY <2>1 DEF Bounded, Of
<1>2. CASE ~\E i \in Of(k) : runs[i].whole
  <2>1. SUFFICES ASSUME (\E i \in Of(k)' : runs'[i].retry) \/ Wanting(k)' # {}
                 PROVE  \E j \in Failures(k)' : Attempts(j, k)' + Cardinality(Wanting(k)') <= Limit
    BY DEF Bounded, Limit
  <2>2. (\E i \in Of(k) : runs[i].retry) \/ Wanting(k) # {}
    BY <2>1 DEF Of
  <2>3. PICK j \in Failures(k) : Attempts(j, k) + Cardinality(Wanting(k)) <= Limit
    BY <1>2, <2>2 DEF Bounded
  <2>4. j \in DOMAIN runs /\ m[j] \in Failures(k)'
    BY <2>3 DEF Failures
  <2>5. Attempts(m[j], k)' <= Attempts(j, k) /\ Attempts(m[j], k)' \in Nat
    <3>. DEFINE S == Retried(j, k)
                T == Retried(m[j], k)'
                f == [i \in S |-> m[i]]
    <3>1. S \subseteq DOMAIN runs /\ DOMAIN runs \subseteq Int /\ DOMAIN runs' \subseteq Int
      BY RunsAre DEF Retried, Newer, Of, TypeOK
    <3>2. \A i \in S : m[i] \in T
      BY <2>4, <3>1 DEF Retried, Newer, Of
    <3>3. \A n \in T : \E i \in S : n = m[i]
      <4>. TAKE n \in T
      <4>1. PICK i \in DOMAIN runs : n = m[i]
        BY DEF Retried, Newer, Of
      <4>2. m[i] > m[j] /\ runs'[m[i]].key = k /\ runs'[m[i]].retry
        BY <4>1 DEF Retried, Newer, Of
      <4>3. i > j
        BY <2>4, <3>1, <4>1, <4>2
      <4>. QED
        BY <4>1, <4>2, <4>3 DEF Retried, Newer, Of
    <3>4. f \in Surjection(S, T)
      BY <3>2, <3>3 DEF Surjection
    <3>5. IsFiniteSet(S) /\ Attempts(j, k) = Cardinality(S)
      BY Counts
    <3>6. Attempts(m[j], k)' = Cardinality(T)
      BY DEF Attempts, Retried
    <3>. HIDE DEF S, T, f
    <3>. QED
      BY <3>4, <3>5, <3>6, FS_Surjection, FS_CardinalityType
  <2>6. /\ Cardinality(Wanting(k)') <= Cardinality(Wanting(k))
        /\ Cardinality(Wanting(k)') \in Nat
    BY Counts, FS_Subset, FS_CardinalityType
  <2>7. /\ Attempts(j, k) \in Nat /\ Cardinality(Wanting(k)) \in Nat /\ Limit \in Int
    BY Counts, Parameters DEF Limit
  <2>. QED
    BY <2>3, <2>4, <2>5, <2>6, <2>7
<1>. QED
  BY <1>1, <1>2
-----------------------------------------------------------------------------
(* What each step does to the runs.                                         *)

\* No run is taken away or becomes another, and what has failed stays failed.
RunsKept ==
    /\ DOMAIN runs \subseteq DOMAIN runs' /\ Len(runs) <= Len(runs')
    /\ \A i \in DOMAIN runs :
         /\ runs'[i].key = runs[i].key /\ runs'[i].whole = runs[i].whole
         /\ runs'[i].retry = runs[i].retry
         /\ runs[i].status = "failed" => runs'[i] = runs[i]

LEMMA NewRunIs ==
    ASSUME NEW k \in Keys, NEW w \in BOOLEAN, NEW r \in BOOLEAN
    PROVE  /\ NewRun(k, w, r) \in Run
           /\ NewRun(k, w, r).key = k /\ NewRun(k, w, r).whole = w /\ NewRun(k, w, r).retry = r
           /\ NewRun(k, w, r).targets = {} /\ NewRun(k, w, r).status = "active"
BY DEF NewRun, Run

LEMMA RunHas ==
    ASSUME NEW r \in Run
    PROVE  /\ r.key \in Keys /\ r.whole \in BOOLEAN /\ r.retry \in BOOLEAN
           /\ r.targets \subseteq Targets
           /\ r.status \in {"active", "succeeded", "failed", "canceled"}
BY DEF Run

LEMMA Added ==
    ASSUME TypeOK, NEW r \in Run, runs' = Append(runs, r)
    PROVE  /\ runs' \in Seq(Run) /\ Len(runs') = Len(runs) + 1
           /\ DOMAIN runs' = DOMAIN runs \cup {Len(runs) + 1} /\ Len(runs) + 1 \notin DOMAIN runs
           /\ \A i \in DOMAIN runs : runs'[i] = runs[i]
           /\ runs'[Len(runs) + 1] = r
           /\ RunsKept
<1>. USE RunsAre
<1>1. runs' \in Seq(Run) /\ Len(runs') = Len(runs) + 1
  OBVIOUS
<1>2. DOMAIN runs' = 1..Len(runs) + 1
  BY <1>1
<1>3. /\ \A i \in DOMAIN runs : runs'[i] = runs[i]
      /\ runs'[Len(runs) + 1] = r
  OBVIOUS
<1>4. DOMAIN runs' = DOMAIN runs \cup {Len(runs) + 1} /\ Len(runs) + 1 \notin DOMAIN runs
  BY <1>2
<1>5. Len(runs) <= Len(runs')
  BY <1>1
<1>. QED
  BY <1>1, <1>3, <1>4, <1>5 DEF RunsKept

LEMMA Changed ==
    ASSUME TypeOK, NEW i \in DOMAIN runs, runs[i].status = "active",
           NEW s \in {"succeeded", "failed", "canceled"}, NEW T \in SUBSET Targets,
           runs' = [runs EXCEPT ![i] = [@ EXCEPT !.status = s, !.targets = T]]
    PROVE  /\ runs' \in Seq(Run) /\ Len(runs') = Len(runs) /\ DOMAIN runs' = DOMAIN runs
           /\ runs'[i].status = s /\ runs'[i].targets = T
           /\ \A n \in DOMAIN runs : n # i => runs'[n] = runs[n]
           /\ RunsKept
<1>. DEFINE q == [runs[i] EXCEPT !.status = s, !.targets = T]
<1>1. runs[i] \in Run
  BY RunsAre
<1>2. /\ q \in Run /\ q.key = runs[i].key /\ q.whole = runs[i].whole /\ q.retry = runs[i].retry
      /\ q.status = s /\ q.targets = T
  BY <1>1 DEF Run
<1>3. runs' = [runs EXCEPT ![i] = q]
  OBVIOUS
<1>. HIDE DEF q
<1>4. /\ runs' \in Seq(Run) /\ Len(runs') = Len(runs) /\ DOMAIN runs' = DOMAIN runs
      /\ runs'[i] = q
      /\ \A n \in DOMAIN runs : n # i => runs'[n] = runs[n]
  BY <1>2, <1>3, RunsAre, ExceptSeq
<1>. QED
  BY <1>2, <1>4, RunsAre DEF RunsKept

\* A step that creates no retry of a target and lets no scheduler choose it.
LEMMA BoundKept ==
    ASSUME TypeOK, TypeOK', RunsKept, NEW k, Bounded(k),
           \A n \in DOMAIN runs' \ DOMAIN runs : ~(runs'[n].key = k /\ runs'[n].retry),
           Wanting(k)' \subseteq Wanting(k)
    PROVE  Bounded(k)'
<1>. DEFINE id == [i \in DOMAIN runs |-> i]
<1>1. PICK m : m = id
  OBVIOUS
<1>2. m \in [DOMAIN runs -> DOMAIN runs'] /\ \A i \in DOMAIN runs : m[i] = i
  BY <1>1 DEF RunsKept
<1>. HIDE DEF id
<1>3. \A i, j \in DOMAIN runs : i < j => m[i] < m[j]
  BY <1>2
<1>4. \A i \in DOMAIN runs :
         /\ runs'[m[i]].key = runs[i].key /\ runs'[m[i]].whole = runs[i].whole
         /\ runs'[m[i]].retry = runs[i].retry
         /\ runs[i].status = "failed" /\ k \in runs[i].targets
            => runs'[m[i]].status = "failed" /\ k \in runs'[m[i]].targets
  BY <1>2 DEF RunsKept
<1>5. \A n \in DOMAIN runs' : runs'[n].key = k /\ runs'[n].retry => \E i \in DOMAIN runs : n = m[i]
  BY <1>2
<1>. QED
  BY <1>2, <1>3, <1>4, <1>5, BoundCarried

\* A step that leaves the passes and what has ended as they are.
LEMMA FailedStay ==
    ASSUME TypeOK, RunsKept, runs' \in Seq(Run), UNCHANGED <<ended, aged, pass>>, LeftFailed
    PROVE  TypeOK' /\ LeftFailed'
<1>1. ended \in Seq(DOMAIN runs')
  BY RunsAre DEF RunsKept
<1>2. TypeOK'
  BY <1>1 DEF TypeOK
<1>3. \A i \in DOMAIN runs : runs[i].status = "failed" => i \in DOMAIN runs' /\ runs'[i].status = "failed"
  BY DEF RunsKept
<1>4. \A x \in DOMAIN ended : runs'[ended[x]].status = "failed"
  BY <1>3, RunsAre DEF LeftFailed
<1>5. \A p \in Schedulers : \A x \in DOMAIN pass[p].left :
          /\ pass[p].left[x] \in DOMAIN runs'
          /\ runs'[pass[p].left[x]].status = "failed"
  BY <1>3 DEF LeftFailed
<1>. QED
  BY <1>2, <1>4, <1>5 DEF LeftFailed

LEMMA OthersTriggerKeeps ==
    ASSUME RetryInv, OthersTrigger
    PROVE  RetryInv' /\ Len(runs) <= Len(runs')
<1>1. PICK k \in Keys, w \in BOOLEAN : TriggerOther(k, w)
  BY DEF OthersTrigger
<1>2. PICK r \in Run : /\ runs' = Append(runs, r) /\ ~r.retry /\ r.targets = {}
                       /\ r.whole => r.key \in Targets
                       /\ UNCHANGED <<ended, aged, pass>>
  <2>1. w => k \in Targets
    BY <1>1 DEF TriggerOther, Inputs, Targets
  <2>2. UNCHANGED <<ended, aged, pass>> /\ runs' = Append(runs, NewRun(k, w, FALSE))
    BY <1>1 DEF TriggerOther
  <2>. QED
    BY <2>1, <2>2, NewRunIs
<1>3. TypeOK /\ LeftFailed /\ TargetsNamed /\ \A t \in Targets : Bounded(t)
  BY DEF RetryInv
<1>4. /\ runs' \in Seq(Run) /\ RunsKept
      /\ DOMAIN runs' = DOMAIN runs \cup {Len(runs) + 1}
      /\ \A i \in DOMAIN runs : runs'[i] = runs[i]
      /\ runs'[Len(runs) + 1] = r
  BY <1>2, <1>3, Added
<1>5. TypeOK' /\ LeftFailed'
  BY <1>2, <1>3, <1>4, FailedStay
<1>6. TargetsNamed'
  BY <1>2, <1>3, <1>4 DEF TargetsNamed
<1>7. ASSUME NEW t \in Targets PROVE Bounded(t)'
  <2>1. Wanting(t)' \subseteq Wanting(t)
    BY <1>2 DEF Wanting
  <2>2. \A n \in DOMAIN runs' \ DOMAIN runs : ~(runs'[n].key = t /\ runs'[n].retry)
    BY <1>2, <1>4
  <2>. QED
    BY <1>3, <1>4, <1>5, <2>1, <2>2, BoundKept
<1>. QED
  BY <1>4, <1>5, <1>6, <1>7 DEF RetryInv, RunsKept

LEMMA NamedAre ==
    ASSUME TypeOK, TargetsNamed, NEW i \in DOMAIN runs, NEW n \in NamedBy(i)
    PROVE  /\ n \subseteq Targets
           /\ \A k \in n : runs[i].key \in Parents \/ (runs[i].key = k /\ runs[i].whole)
<1>1. runs[i].key \in Keys
  BY RunsAre, RunHas
<1>2. CASE runs[i].key \in Parents
  <2>1. ~runs[i].whole
    BY <1>2, Parameters DEF TargetsNamed
  <2>. QED
    BY <1>2, <2>1 DEF NamedBy
<1>3. CASE runs[i].key \notin Parents /\ runs[i].whole
  <2>1. n = {runs[i].key}
    BY <1>3 DEF NamedBy
  <2>. QED
    BY <1>1, <1>3, <2>1 DEF Keys
<1>4. CASE runs[i].key \notin Parents /\ ~runs[i].whole
  BY <1>4 DEF NamedBy
<1>. QED
  BY <1>2, <1>3, <1>4

LEMMA EndKeeps ==
    ASSUME RetryInv, NEW i \in DOMAIN runs, End(i)
    PROVE  RetryInv' /\ Len(runs) <= Len(runs')
<1>1. TypeOK /\ LeftFailed /\ TargetsNamed /\ \A t \in Targets : Bounded(t)
  BY DEF RetryInv
<1>2. runs[i] \in Run /\ runs[i].targets \subseteq Targets
  BY <1>1, RunsAre, RunHas
<1>3. ASSUME NEW s \in {"succeeded", "canceled"}, Close(i, s)
      PROVE  RetryInv' /\ Len(runs) <= Len(runs')
  <2>1. [runs[i] EXCEPT !.status = s] = [runs[i] EXCEPT !.status = s, !.targets = runs[i].targets]
    BY <1>2 DEF Run
  <2>2. runs' = [runs EXCEPT ![i] = [@ EXCEPT !.status = s, !.targets = runs[i].targets]]
    BY <1>3, <2>1 DEF Close
  <2>3. runs[i].status = "active" /\ UNCHANGED <<ended, aged, pass>>
    BY <1>3 DEF Close
  <2>4. /\ runs' \in Seq(Run) /\ DOMAIN runs' = DOMAIN runs
        /\ runs'[i].targets = runs[i].targets
        /\ \A n \in DOMAIN runs : n # i => runs'[n] = runs[n]
        /\ RunsKept
    BY <1>1, <1>2, <2>2, <2>3, Changed
  <2>5. TypeOK' /\ LeftFailed'
    BY <1>1, <2>3, <2>4, FailedStay
  <2>6. TargetsNamed'
    <3>1. \A n \in DOMAIN runs : runs'[n].targets = runs[n].targets
      BY <2>4
    <3>. QED
      BY <1>1, <2>4, <3>1 DEF TargetsNamed, RunsKept
  <2>7. ASSUME NEW t \in Targets PROVE Bounded(t)'
    <3>1. Wanting(t)' \subseteq Wanting(t)
      BY <2>3 DEF Wanting
    <3>. QED
      BY <1>1, <2>4, <2>5, <3>1, BoundKept
  <2>. QED
    BY <2>4, <2>5, <2>6, <2>7 DEF RetryInv, RunsKept
<1>4. ASSUME NEW T \in NamedBy(i), Fail(i, T)
      PROVE  RetryInv' /\ Len(runs) <= Len(runs')
  <2>1. /\ T \subseteq Targets
        /\ \A k \in T : runs[i].key \in Parents \/ (runs[i].key = k /\ runs[i].whole)
    BY <1>1, NamedAre
  <2>2. runs' = [runs EXCEPT ![i] = [@ EXCEPT !.status = "failed", !.targets = T]]
    BY <1>4 DEF Fail
  <2>3. runs[i].status = "active" /\ ended' = Append(ended, i) /\ UNCHANGED <<aged, pass>>
    BY <1>4 DEF Fail
  <2>4. /\ runs' \in Seq(Run) /\ DOMAIN runs' = DOMAIN runs
        /\ runs'[i].targets = T /\ runs'[i].status = "failed"
        /\ \A n \in DOMAIN runs : n # i => runs'[n] = runs[n]
        /\ RunsKept
    BY <1>1, <2>1, <2>2, <2>3, Changed
  <2>5. /\ ended' \in Seq(DOMAIN runs) /\ Len(ended') = Len(ended) + 1
        /\ DOMAIN ended' = DOMAIN ended \cup {Len(ended) + 1}
        /\ \A x \in DOMAIN ended : ended'[x] = ended[x]
        /\ ended'[Len(ended) + 1] = i
    BY <1>1, <2>3, RunsAre
  <2>6. TypeOK'
    <3>1. aged' \in 0..Len(ended')
      BY <1>1, <2>3, <2>5, RunsAre
    <3>. QED
      BY <1>1, <2>3, <2>4, <2>5, <3>1, RunsAre DEF TypeOK
  <2>7. LeftFailed'
    <3>1. \A n \in DOMAIN runs : runs[n].status = "failed" => runs'[n].status = "failed"
      BY <2>4
    <3>2. \A x \in DOMAIN ended' : runs'[ended'[x]].status = "failed"
      BY <1>1, <2>4, <2>5, <3>1, RunsAre DEF LeftFailed
    <3>3. \A p \in Schedulers : \A x \in DOMAIN pass'[p].left :
            /\ pass'[p].left[x] \in DOMAIN runs'
            /\ runs'[pass'[p].left[x]].status = "failed"
      BY <1>1, <2>3, <2>4, <3>1 DEF LeftFailed
    <3>. QED
      BY <3>2, <3>3 DEF LeftFailed
  <2>8. TargetsNamed'
    <3>1. \A n \in DOMAIN runs : n # i => runs'[n].targets = runs[n].targets
      BY <2>4
    <3>. QED
      BY <1>1, <2>1, <2>4, <3>1 DEF TargetsNamed, RunsKept
  <2>9. ASSUME NEW t \in Targets PROVE Bounded(t)'
    <3>1. Wanting(t)' \subseteq Wanting(t)
      BY <2>3 DEF Wanting
    <3>. QED
      BY <1>1, <2>4, <2>6, <3>1, BoundKept
  <2>. QED
    BY <2>4, <2>6, <2>7, <2>8, <2>9 DEF RetryInv, RunsKept
<1>. QED
  BY <1>3, <1>4 DEF End

\* A step of which the runs know nothing.
LEMMA RunsSame ==
    ASSUME TypeOK, runs' = runs
    PROVE  RunsKept /\ Len(runs) <= Len(runs')
BY RunsAre DEF RunsKept

LEMMA GrowOldKeeps ==
    ASSUME RetryInv, GrowOld
    PROVE  RetryInv' /\ Len(runs) <= Len(runs')
<1>1. TypeOK /\ LeftFailed /\ TargetsNamed /\ \A t \in Targets : Bounded(t)
  BY DEF RetryInv
<1>2. UNCHANGED <<runs, ended, pass>> /\ aged' = aged + 1 /\ aged < Len(ended)
  BY DEF GrowOld
<1>3. aged' \in 0..Len(ended')
  BY <1>1, <1>2, RunsAre
<1>4. TypeOK'
  BY <1>1, <1>2, <1>3 DEF TypeOK
<1>5. LeftFailed' /\ TargetsNamed'
  BY <1>1, <1>2 DEF LeftFailed, TargetsNamed
<1>6. ASSUME NEW t \in Targets PROVE Bounded(t)'
  <2>1. Wanting(t)' \subseteq Wanting(t)
    BY <1>2 DEF Wanting
  <2>. QED
    BY <1>1, <1>2, <1>4, <2>1, RunsSame, BoundKept
<1>. QED
  BY <1>1, <1>2, <1>4, <1>5, <1>6, RunsSame DEF RetryInv

-----------------------------------------------------------------------------
(* What each step of a pass does.                                           *)

LEMMA PassHas ==
    ASSUME TypeOK, NEW p \in Schedulers
    PROVE  /\ pass[p] \in Pass /\ pass[p].at \in {"idle", "looking"}
           /\ pass[p].left \in Seq(Nat) /\ pass[p].seen \subseteq Targets
           /\ pass[p].chosen # None
              => pass[p].chosen.key \in Targets /\ pass[p].chosen.whole \in BOOLEAN
<1>1. pass[p] \in Pass
  BY RunsAre
<1>. QED
  BY <1>1 DEF Pass

(* A step of a pass that leaves the runs alone: what is left to be looked at *)
(* has failed, and it gets no target chosen but one of which a retry is due. *)
LEMMA PassKept ==
    ASSUME RetryInv, NEW p \in Schedulers, NEW q \in Pass,
           UNCHANGED <<runs, ended, aged>>, pass' = [pass EXCEPT ![p] = q],
           \A x \in DOMAIN q.left : q.left[x] \in DOMAIN runs /\ runs[q.left[x]].status = "failed",
           q.chosen # None
           => \E j \in DOMAIN runs : /\ j \in Failures(q.chosen.key)
                                     /\ Attempts(j, q.chosen.key) < MaxAttempts
    PROVE  RetryInv' /\ Len(runs) <= Len(runs')
<1>1. TypeOK /\ LeftFailed /\ TargetsNamed /\ \A t \in Targets : Bounded(t)
  BY DEF RetryInv
<1>2. /\ pass' \in [Schedulers -> Pass] /\ pass'[p] = q
      /\ \A o \in Schedulers : o # p => pass'[o] = pass[o]
  BY <1>1, RunsAre
<1>3. TypeOK'
  BY <1>1, <1>2 DEF TypeOK
<1>4. LeftFailed'
  BY <1>1, <1>2 DEF LeftFailed
<1>5. TargetsNamed'
  BY <1>1 DEF TargetsNamed
<1>6. ASSUME NEW t \in Targets PROVE Bounded(t)'
  <2>1. CASE q.chosen # None /\ q.chosen.key = t
    <3>1. PICK j \in Failures(t) : j \in DOMAIN runs /\ Attempts(j, t) < MaxAttempts
      BY <2>1
    <3>2. Attempts(j, t) \in Nat
      BY <1>1, Counts
    <3>3. /\ Wanting(t)' \subseteq Schedulers
      BY DEF Wanting
    <3>4. /\ Cardinality(Wanting(t)') \in Nat
          /\ Cardinality(Wanting(t)') <= Cardinality(Schedulers)
      BY <3>3, Parameters, FS_Subset, FS_CardinalityType
    <3>5. Attempts(j, t)' = Attempts(j, t) /\ j \in Failures(t)'
      BY <3>1 DEF Attempts, Newer, Of, Failures
    <3>6. Attempts(j, t)' + Cardinality(Wanting(t)') <= Limit
      BY <3>1, <3>2, <3>4, <3>5, Parameters DEF Limit
    <3>. QED
      BY <3>5, <3>6 DEF Bounded, Limit
  <2>2. CASE ~(q.chosen # None /\ q.chosen.key = t)
    <3>1. Wanting(t)' \subseteq Wanting(t)
      BY <1>2, <2>2 DEF Wanting
    <3>. QED
      BY <1>1, <1>3, <3>1, RunsSame, BoundKept
  <2>. QED
    BY <2>1, <2>2
<1>. QED
  BY <1>1, <1>3, <1>4, <1>5, <1>6, RunsSame DEF RetryInv

LEMMA CandidatesAre ==
    ASSUME TypeOK
    PROVE  /\ Candidates \in Seq(Nat)
           /\ \A x \in DOMAIN Candidates : \E y \in DOMAIN ended : Candidates[x] = ended[y]
<1>. DEFINE s == SubSeq(ended, 1, aged)
<1>1. \A i \in 1..aged : ended[i] \in DOMAIN runs /\ i \in DOMAIN ended
  BY RunsAre
<1>2. /\ s \in Seq(DOMAIN runs) /\ Len(s) = aged
      /\ \A i \in 1..aged : s[i] = ended[i]
  <2>1. s \in Seq(DOMAIN runs) /\ Len(s) = IF 1 <= aged THEN aged - 1 + 1 ELSE 0
    BY <1>1, RunsAre, SubSeqProperties
  <2>2. \A i \in 1..aged - 1 + 1 : s[i] = ended[1 + i - 1]
    BY <1>1, RunsAre, SubSeqProperties
  <2>. QED
    BY <2>1, <2>2, RunsAre
<1>. HIDE DEF s
<1>3. Candidates = [i \in 1..aged |-> s[(aged - i) + 1]]
  BY <1>2 DEF Candidates, Reverse, s
<1>4. \A i \in 1..aged : (aged - i) + 1 \in 1..aged
  BY RunsAre
<1>5. DOMAIN runs \subseteq Nat
  BY RunsAre
<1>6. \A i \in 1..aged : s[(aged - i) + 1] \in Nat
  BY <1>1, <1>2, <1>4, <1>5
<1>7. Candidates \in [1..aged -> Nat]
  BY <1>3, <1>6
<1>8. aged \in Nat
  BY RunsAre
<1>. QED
  BY <1>1, <1>2, <1>3, <1>4, <1>7, <1>8

LEMMA BeginKeeps ==
    ASSUME RetryInv, NEW p \in Schedulers, Begin(p)
    PROVE  RetryInv' /\ Len(runs) <= Len(runs')
<1>1. TypeOK /\ LeftFailed
  BY DEF RetryInv
<1>. DEFINE q == [Idle EXCEPT !.at = "looking", !.left = Candidates]
<1>2. UNCHANGED <<runs, ended, aged>> /\ pass' = [pass EXCEPT ![p] = q]
  BY DEF Begin
<1>3. q \in Pass /\ q.left = Candidates /\ q.chosen = None
  BY <1>1, CandidatesAre DEF Idle, Pass
<1>. HIDE DEF q
<1>4. \A x \in DOMAIN q.left : q.left[x] \in DOMAIN runs /\ runs[q.left[x]].status = "failed"
  BY <1>1, <1>3, CandidatesAre, RunsAre DEF LeftFailed
<1>. QED
  BY <1>2, <1>3, <1>4, PassKept

LEMMA LookKeeps ==
    ASSUME RetryInv, NEW p \in Schedulers, NEW k \in Targets, Look(p, k)
    PROVE  RetryInv' /\ Len(runs) <= Len(runs')
<1>1. TypeOK /\ LeftFailed
  BY DEF RetryInv
<1>. DEFINE j == Head(pass[p].left)
            c == IF Due(j, k) THEN [key |-> k, whole |-> Inherits(j, k)] ELSE None
            q == [pass[p] EXCEPT !.seen = @ \cup {k}, !.chosen = c]
<1>2. /\ UNCHANGED <<runs, ended, aged>> /\ pass' = [pass EXCEPT ![p] = q]
      /\ pass[p].left # <<>> /\ k \in runs[j].targets
  BY DEF Look
<1>3. 1 \in DOMAIN pass[p].left /\ j = pass[p].left[1]
  BY <1>1, <1>2, PassHas
<1>4. j \in DOMAIN runs /\ runs[j].status = "failed" /\ j \in Failures(k)
  BY <1>1, <1>2, <1>3 DEF LeftFailed, Failures
<1>5. Inherits(j, k) \in BOOLEAN
  BY <1>1, <1>4, RunsAre, RunHas DEF Inherits
<1>6. c \in {None} \cup [key : Targets, whole : BOOLEAN]
  BY <1>5
<1>7. c # None => c.key = k /\ Attempts(j, k) < MaxAttempts
  <2>1. ASSUME Due(j, k) PROVE Attempts(j, k) < MaxAttempts
    BY <1>1, <2>1, Counts, Parameters DEF Due, Spent
  <2>. QED
    BY <2>1
<1>. HIDE DEF c, j
<1>8. q \in Pass /\ q.left = pass[p].left /\ q.chosen = c
  BY <1>1, <1>6, PassHas DEF Pass
<1>. HIDE DEF q
<1>9. \A x \in DOMAIN q.left : q.left[x] \in DOMAIN runs /\ runs[q.left[x]].status = "failed"
  BY <1>1, <1>8 DEF LeftFailed
<1>10. q.chosen # None => \E i \in DOMAIN runs : /\ i \in Failures(q.chosen.key)
                                               /\ Attempts(i, q.chosen.key) < MaxAttempts
  BY <1>4, <1>7, <1>8
<1>. QED
  BY <1>2, <1>8, <1>9, <1>10, PassKept

LEMMA NextJobKeeps ==
    ASSUME RetryInv, NEW p \in Schedulers, NextJob(p)
    PROVE  RetryInv' /\ Len(runs) <= Len(runs')
<1>1. TypeOK /\ LeftFailed
  BY DEF RetryInv
<1>. DEFINE q == [pass[p] EXCEPT !.left = Tail(@)]
<1>2. /\ UNCHANGED <<runs, ended, aged>> /\ pass' = [pass EXCEPT ![p] = q]
      /\ pass[p].left # <<>> /\ pass[p].chosen = None
  BY DEF NextJob
<1>3. /\ Tail(pass[p].left) \in Seq(Nat)
      /\ \A x \in DOMAIN Tail(pass[p].left) :
           x + 1 \in DOMAIN pass[p].left /\ Tail(pass[p].left)[x] = pass[p].left[x + 1]
  BY <1>1, <1>2, PassHas
<1>4. q \in Pass /\ q.left = Tail(pass[p].left) /\ q.chosen = None
  BY <1>1, <1>2, <1>3, PassHas DEF Pass
<1>. HIDE DEF q
<1>5. \A x \in DOMAIN q.left : q.left[x] \in DOMAIN runs /\ runs[q.left[x]].status = "failed"
  BY <1>1, <1>3, <1>4 DEF LeftFailed
<1>. QED
  BY <1>2, <1>4, <1>5, PassKept

LEMMA DoneKeeps ==
    ASSUME RetryInv, NEW p \in Schedulers, Done(p)
    PROVE  RetryInv' /\ Len(runs) <= Len(runs')
<1>1. UNCHANGED <<runs, ended, aged>> /\ pass' = [pass EXCEPT ![p] = Idle]
  BY DEF Done
<1>2. Idle \in Pass /\ Idle.left = <<>> /\ Idle.chosen = None
  BY DEF Idle, Pass
<1>3. \A x \in DOMAIN Idle.left : Idle.left[x] \in DOMAIN runs /\ runs[Idle.left[x]].status = "failed"
  BY <1>2
<1>. QED
  BY <1>1, <1>2, <1>3, PassKept

LEMMA TriggerKeeps ==
    ASSUME RetryInv, NEW p \in Schedulers, Trigger(p)
    PROVE  RetryInv' /\ Len(runs) <= Len(runs')
<1>1. TypeOK /\ LeftFailed /\ TargetsNamed /\ \A t \in Targets : Bounded(t)
  BY DEF RetryInv
<1>. DEFINE c == pass[p].chosen
            q == [pass[p] EXCEPT !.chosen = None]
<1>2. /\ c # None /\ UNCHANGED <<ended, aged>> /\ pass' = [pass EXCEPT ![p] = q]
      /\ runs' = IF Active(c.key) THEN runs ELSE Append(runs, NewRun(c.key, c.whole, TRUE))
  BY DEF Trigger
<1>3. c.key \in Targets /\ c.whole \in BOOLEAN /\ p \in Wanting(c.key)
  BY <1>1, <1>2, PassHas DEF Wanting
<1>4. q \in Pass /\ q.left = pass[p].left /\ q.chosen = None
  BY <1>1, PassHas DEF Pass
<1>. HIDE DEF q
<1>5. CASE Active(c.key)
  <2>1. runs' = runs
    BY <1>2, <1>5
  <2>2. \A x \in DOMAIN q.left : q.left[x] \in DOMAIN runs /\ runs[q.left[x]].status = "failed"
    BY <1>1, <1>4 DEF LeftFailed
  <2>. QED
    BY <1>2, <1>4, <2>1, <2>2, PassKept
<1>6. CASE ~Active(c.key)
  <2>. DEFINE r == NewRun(c.key, c.whole, TRUE)
              n == Len(runs) + 1
  <2>1. r \in Run /\ r.key = c.key /\ r.whole = c.whole /\ r.retry /\ r.targets = {}
    <3>1. c.key \in Keys /\ c.whole \in BOOLEAN /\ TRUE \in BOOLEAN
      BY <1>3, Parameters
    <3>. HIDE DEF c
    <3>. QED
      BY <3>1, NewRunIs
  <2>2. runs' = Append(runs, r)
    BY <1>2, <1>6
  <2>. HIDE DEF r
  <2>3. /\ runs' \in Seq(Run) /\ RunsKept
        /\ DOMAIN runs' = DOMAIN runs \cup {n} /\ n \notin DOMAIN runs
        /\ \A i \in DOMAIN runs : runs'[i] = runs[i]
        /\ runs'[n] = r
    BY <1>1, <2>1, <2>2, Added
  <2>4. /\ pass' \in [Schedulers -> Pass] /\ pass'[p] = q
        /\ \A o \in Schedulers : o # p => pass'[o] = pass[o]
        /\ \A o \in Schedulers : pass'[o].left = pass[o].left
    BY <1>1, <1>2, <1>4, RunsAre
  <2>5. TypeOK'
    <3>1. ended' \in Seq(DOMAIN runs')
      BY <1>1, <1>2, <2>3, RunsAre
    <3>. QED
      BY <1>1, <1>2, <2>3, <2>4, <3>1 DEF TypeOK
  <2>6. LeftFailed'
    <3>1. \A x \in DOMAIN ended' : runs'[ended'[x]].status = "failed"
      BY <1>1, <1>2, <2>3, RunsAre DEF LeftFailed
    <3>2. \A o \in Schedulers : \A x \in DOMAIN pass'[o].left :
            /\ pass'[o].left[x] \in DOMAIN runs'
            /\ runs'[pass'[o].left[x]].status = "failed"
      BY <1>1, <2>3, <2>4 DEF LeftFailed
    <3>. QED
      BY <3>1, <3>2 DEF LeftFailed
  <2>7. TargetsNamed'
    BY <1>1, <1>3, <2>1, <2>3 DEF TargetsNamed
  <2>8. ASSUME NEW t \in Targets, t # c.key PROVE Bounded(t)'
    <3>1. Wanting(t)' \subseteq Wanting(t)
      BY <1>4, <2>4 DEF Wanting
    <3>2. \A i \in DOMAIN runs' \ DOMAIN runs : ~(runs'[i].key = t /\ runs'[i].retry)
      BY <2>1, <2>3, <2>8
    <3>. QED
      BY <1>1, <2>3, <2>5, <3>1, <3>2, BoundKept
  <2>9. ASSUME NEW t \in Targets, t = c.key PROVE Bounded(t)'
    <3>1. CASE \E i \in Of(t) : runs[i].whole
      BY <2>3, <3>1 DEF Bounded, Of
    <3>2. CASE ~\E i \in Of(t) : runs[i].whole
      <4>1. PICK j \in Failures(t) : Attempts(j, t) + Cardinality(Wanting(t)) <= Limit
        BY <1>1, <1>3, <2>9, <3>2 DEF Bounded
      <4>2. j \in DOMAIN runs /\ j < n /\ n \in Nat
        BY <1>1, <4>1, RunsAre DEF Failures
      <4>3. j \in Failures(t)'
        BY <2>3, <4>1, <4>2 DEF Failures
      <4>4. Retried(j, t)' = Retried(j, t) \cup {n} /\ n \notin Retried(j, t)
        BY <2>1, <2>3, <2>9, <4>2 DEF Retried, Newer, Of
      <4>5. Wanting(t)' = Wanting(t) \ {p}
        BY <1>4, <2>4 DEF Wanting
      <4>6. Attempts(j, t)' = Attempts(j, t) + 1
        <5>1. IsFiniteSet(Retried(j, t)) /\ Attempts(j, t) = Cardinality(Retried(j, t))
          BY <1>1, Counts
        <5>2. Cardinality(Retried(j, t) \cup {n}) = Cardinality(Retried(j, t)) + 1
          BY <4>4, <5>1, FS_AddElement
        <5>3. Attempts(j, t)' = Cardinality(Retried(j, t)')
          BY DEF Attempts, Retried
        <5>. QED
          BY <4>4, <5>1, <5>2, <5>3
      <4>7. Cardinality(Wanting(t)') = Cardinality(Wanting(t)) - 1
        BY <1>1, <1>3, <2>9, <4>5, Counts, FS_RemoveElement
      <4>8. Attempts(j, t) \in Nat /\ Cardinality(Wanting(t)) \in Nat /\ Limit \in Int
        BY <1>1, Counts, Parameters DEF Limit
      <4>9. Attempts(j, t)' + Cardinality(Wanting(t)') <= Limit
        BY <4>1, <4>6, <4>7, <4>8
      <4>. QED
        BY <4>3, <4>9 DEF Bounded, Limit
    <3>. QED
      BY <3>1, <3>2
  <2>. QED
    BY <2>3, <2>5, <2>6, <2>7, <2>8, <2>9 DEF RetryInv, RunsKept
<1>. QED
  BY <1>5, <1>6

LEMMA ProceedKeeps ==
    ASSUME RetryInv, Proceed
    PROVE  RetryInv' /\ Len(runs) <= Len(runs')
<1>1. ASSUME NEW p \in Schedulers, Retries(p)
      PROVE  RetryInv' /\ Len(runs) <= Len(runs')
  BY <1>1, BeginKeeps, LookKeeps, NextJobKeeps, DoneKeeps, TriggerKeeps DEF Retries
<1>. QED
  BY <1>1, EndKeeps, GrowOldKeeps DEF Proceed

LEMMA RetryStutters ==
    ASSUME RetryInv, UNCHANGED vars
    PROVE  RetryInv' /\ Len(runs) <= Len(runs')
<1>1. TypeOK /\ LeftFailed /\ TargetsNamed /\ \A t \in Targets : Bounded(t)
  BY DEF RetryInv
<1>2. UNCHANGED <<runs, ended, aged, pass>>
  BY DEF vars
<1>3. TypeOK' /\ LeftFailed' /\ TargetsNamed'
  BY <1>1, <1>2 DEF TypeOK, LeftFailed, TargetsNamed
<1>4. ASSUME NEW t \in Targets PROVE Bounded(t)'
  <2>1. Wanting(t)' \subseteq Wanting(t)
    BY <1>2 DEF Wanting
  <2>. QED
    BY <1>1, <1>2, <1>3, <2>1, RunsSame, BoundKept
<1>. QED
  BY <1>1, <1>2, <1>3, <1>4, RunsSame DEF RetryInv

LEMMA RetryStarts == Init => RetryInv
<1>. SUFFICES ASSUME Init PROVE RetryInv
  OBVIOUS
<1>1. runs = <<>> /\ ended = <<>> /\ aged = 0 /\ pass = [p \in Schedulers |-> Idle]
  BY DEF Init
<1>2. Idle \in Pass /\ Idle.left = <<>> /\ Idle.chosen = None
  BY DEF Idle, Pass
<1>3. TypeOK
  BY <1>1, <1>2 DEF TypeOK
<1>4. LeftFailed /\ TargetsNamed
  BY <1>1, <1>2 DEF LeftFailed, TargetsNamed
<1>5. \A k \in Targets : Of(k) = {} /\ Wanting(k) = {}
  BY <1>1, <1>2 DEF Of, Wanting
<1>. QED
  BY <1>3, <1>4, <1>5 DEF RetryInv, Bounded

LEMMA RetryBounds == RetryInv => NamedEnds
<1>. SUFFICES ASSUME RetryInv, NEW k \in Targets, ~\E i \in Of(k) : runs[i].whole
              PROVE  Tries(k) <= Limit
  BY DEF NamedEnds, Limit
<1>1. TypeOK /\ TargetsNamed /\ Bounded(k)
  BY DEF RetryInv
<1>. DEFINE news == {j \in Failures(k) : ~runs[j].retry}
<1>2. Limit \in Int /\ 0 <= Limit
  BY Parameters DEF Limit
<1>3. news = Failures(k)
  <2>1. ASSUME NEW j \in Failures(k) PROVE ~runs[j].retry
    <3>1. j \in DOMAIN runs /\ k \in runs[j].targets
      BY DEF Failures
    <3>2. runs[j].key \in Parents
      BY <1>1, <3>1 DEF TargetsNamed, Of
    <3>. QED
      BY <1>1, <3>1, <3>2, Parameters DEF TargetsNamed
  <2>. QED
    BY <2>1
<1>4. CASE news = {}
  BY <1>2, <1>4 DEF Tries
<1>5. CASE news # {}
  <2>. DEFINE last == CHOOSE j \in news : \A i \in news : i <= j
  <2>1. news \subseteq 1..Len(runs) /\ Len(runs) \in Nat
    BY <1>1, RunsAre DEF Failures
  <2>2. \E j \in news : \A i \in news : i <= j
    <3>. DEFINE T == {n \in Nat : \E j \in news : n = Len(runs) - j}
    <3>1. \A j \in news : Len(runs) - j \in T
      BY <2>1
    <3>2. T \subseteq Nat /\ T # {}
      BY <1>5, <3>1
    <3>3. PICK n \in T : \A m \in T : ~(<<m, n>> \in OpToRel(<, Nat))
      <4>. HIDE DEF T
      <4>. QED
        BY <3>2, NatLessThanWellFounded, WFMin
    <3>4. \A m \in T : ~(m < n)
      BY <3>2, <3>3 DEF OpToRel
    <3>5. PICK j \in news : n = Len(runs) - j
      BY <3>3
    <3>6. ASSUME NEW i \in news PROVE i <= j
      <4>1. ~(Len(runs) - i < Len(runs) - j)
        BY <3>1, <3>4, <3>5
      <4>2. i \in 1..Len(runs) /\ j \in 1..Len(runs)
        BY <2>1, <3>5
      <4>. QED
        BY <2>1, <4>1, <4>2
    <3>. QED
      BY <3>6
  <2>3. last \in news /\ \A i \in news : i <= last
    BY <2>2
  <2>4. Tries(k) = Attempts(last, k)
    BY <1>5 DEF Tries
  <2>. HIDE DEF last
  <2>5. last \in Nat /\ Attempts(last, k) \in Nat
    BY <1>1, <2>1, <2>3, Counts
  <2>6. CASE \E i \in Of(k) : runs[i].retry
    <3>1. PICK j \in Failures(k) : Attempts(j, k) + Cardinality(Wanting(k)) <= Limit
      BY <1>1, <2>6 DEF Bounded
    <3>2. j \in Nat /\ j <= last
      BY <1>3, <2>1, <2>3, <3>1
    <3>3. Attempts(last, k) <= Attempts(j, k)
      BY <1>1, <2>5, <3>2, FewerSince
    <3>4. Attempts(j, k) \in Nat /\ Cardinality(Wanting(k)) \in Nat
      BY <1>1, Counts
    <3>. QED
      BY <1>2, <2>4, <2>5, <3>1, <3>3, <3>4
  <2>7. CASE ~\E i \in Of(k) : runs[i].retry
    <3>1. Retried(last, k) = {}
      BY <2>7 DEF Retried, Newer
    <3>2. Attempts(last, k) = 0
      BY <1>1, <3>1, Counts, FS_EmptySet
    <3>. QED
      BY <1>2, <2>4, <3>2
  <2>. QED
    BY <2>6, <2>7
<1>. QED
  BY <1>4, <1>5

-----------------------------------------------------------------------------
(* The runs, what has ended and the passes have the shape their definitions  *)
(* give them.                                                                *)
THEOREM RetryTypes == Spec => []TypeOK
<1>1. RetryInv /\ [Next]_vars => RetryInv'
  BY OthersTriggerKeeps, ProceedKeeps, RetryStutters DEF Next
<1>2. RetryInv => TypeOK
  BY DEF RetryInv
<1>. QED
  BY <1>1, <1>2, RetryStarts, PTL DEF Spec

(* A target that only its parents name is tried MAX_SMART_RETRY_ATTEMPTS      *)
(* times after the last run that named it, and once more for each further     *)
(* scheduler (smart_retry_failed_jobs): however many jobs name it, in any     *)
(* order, and however many passes overlap.                                    *)
THEOREM RetriesAreBounded == Spec => []NamedEnds
<1>1. RetryInv /\ [Next]_vars => RetryInv'
  BY OthersTriggerKeeps, ProceedKeeps, RetryStutters DEF Next
<1>. QED
  BY <1>1, RetryStarts, RetryBounds, PTL DEF Spec

-----------------------------------------------------------------------------
(* The daily sync.                                                          *)

OthersTyped ==
    /\ sync \in [Dates -> SyncStatus]
    /\ calendar \in [Dates -> {"none", "active", "inactive"}]
    /\ over \subseteq Dates
    /\ poll \in [Schedulers -> HourlyPass]
    /\ named \subseteq Accessions
    /\ left \in 0..MaxRequests

\* What a sync is to add came from one index.
Fetches ==
    /\ fetch \in [Dates -> Fetch]
    /\ \A d \in Dates : fetch[d].since <= Len(runs) /\ IsFiniteSet(fetch[d].add)

DailyInv == RetryInv /\ OthersTyped /\ Fetches

LEMMA DailyParameters ==
    /\ Weekends \subseteq Dates
    /\ \A d \in Dates : Listed[d] \subseteq Accessions /\ IsFiniteSet(Listed[d])
    /\ MaxSyncAttempts \in Nat /\ MaxSyncAttempts > 0 /\ MaxRequests \in Nat
BY DailySyncAssumption DEF DailySyncAssumption

LEMMA FetchHas ==
    ASSUME NEW q \in Fetch
    PROVE  /\ q.at \in {"none", "queued", "syncing", "looked", "done"}
           /\ q.since \in Nat /\ q.add \subseteq Accessions
BY DEF Fetch

LEMMA FetchAtIs ==
    ASSUME NEW stage \in {"none", "queued", "syncing", "looked", "done"}
    PROVE  /\ FetchAt(stage) \in Fetch /\ FetchAt(stage).at = stage
           /\ FetchAt(stage).since = 0 /\ FetchAt(stage).add = {}
BY DEF FetchAt, NoFetch, Fetch

LEMMA NoFetchIs == NoFetch \in Fetch /\ NoFetch.since = 0 /\ NoFetch.add = {}
BY DEF NoFetch, Fetch

LEMMA FetchesStay ==
    ASSUME DailyInv, UNCHANGED fetch, RetryInv', Len(runs) <= Len(runs')
    PROVE  Fetches'
<1>1. Len(runs) \in Nat /\ Len(runs') \in Nat
  BY DEF DailyInv, RetryInv, TypeOK
<1>2. \A d \in Dates : fetch[d] \in Fetch /\ fetch[d].since \in Nat
  BY FetchHas DEF DailyInv, Fetches
<1>. QED
  BY <1>1, <1>2 DEF DailyInv, Fetches

LEMMA FetchSet ==
    ASSUME DailyInv, RetryInv', Len(runs) <= Len(runs'), NEW d \in Dates, NEW q \in Fetch,
           q.since <= Len(runs'), IsFiniteSet(q.add), fetch' = [fetch EXCEPT ![d] = q]
    PROVE  Fetches'
<1>1. Len(runs) \in Nat /\ Len(runs') \in Nat
  BY DEF DailyInv, RetryInv, TypeOK
<1>2. \A e \in Dates : fetch[e] \in Fetch /\ fetch[e].since \in Nat
  BY FetchHas DEF DailyInv, Fetches
<1>3. /\ fetch' \in [Dates -> Fetch] /\ fetch'[d] = q
      /\ \A e \in Dates : e # d => fetch'[e] = fetch[e]
  BY DEF DailyInv, Fetches
<1>. QED
  BY <1>1, <1>2, <1>3 DEF DailyInv, Fetches

LEMMA HourlyKeeps ==
    ASSUME DailyInv, NEW p \in Schedulers, Hourly(p), UNCHANGED vars
    PROVE  DailyInv'
<1>1. RetryInv /\ OthersTyped /\ Fetches
  BY DEF DailyInv
<1>2. RetryInv' /\ Len(runs) <= Len(runs')
  BY <1>1, RetryStutters
<1>3. poll[p] \in HourlyPass /\ poll[p].dates \subseteq Dates /\ poll[p].close \subseteq Dates
  BY <1>1 DEF OthersTyped, HourlyPass
<1>4. Exhausted \subseteq Dates /\ ToClose \subseteq Dates /\ ToQueue \subseteq Dates
  BY <1>1, DailyParameters DEF OthersTyped, Exhausted, ToClose, ToQueue
<1>5. CASE BeginPass(p)
  <2>1. [NoPass EXCEPT !.at = "sweeping", !.dates = Exhausted] \in HourlyPass
    BY <1>4 DEF NoPass, HourlyPass
  <2>. QED
    BY <1>1, <1>2, <1>5, <2>1, FetchesStay DEF BeginPass, DailyInv, OthersTyped
<1>6. CASE SweepCommits(p)
  <2>1. [NoPass EXCEPT !.at = "swept"] \in HourlyPass
    BY DEF NoPass, HourlyPass
  <2>2. poll' \in [Schedulers -> HourlyPass]
    BY <1>1, <1>6, <2>1 DEF SweepCommits, OthersTyped
  <2>3. \A d \in Dates : [sync[d] EXCEPT !.status = "no_data"] \in SyncStatus
    BY <1>1 DEF OthersTyped, SyncStatus
  <2>4. sync' \in [Dates -> SyncStatus]
    BY <1>1, <1>6, <2>3 DEF SweepCommits, OthersTyped
  <2>5. UNCHANGED <<calendar, over, fetch, named, left>>
    BY <1>6 DEF SweepCommits
  <2>. QED
    BY <1>1, <1>2, <2>2, <2>4, <2>5, FetchesStay DEF DailyInv, OthersTyped
<1>7. CASE LookForDates(p)
  <2>1. [at |-> "queuing", dates |-> ToQueue, close |-> ToClose] \in HourlyPass
    BY <1>4 DEF HourlyPass
  <2>. QED
    BY <1>1, <1>2, <1>7, <2>1, FetchesStay DEF LookForDates, DailyInv, OthersTyped
<1>8. CASE QueueCommits(p)
  <2>1. NoPass \in HourlyPass
    BY DEF NoPass, HourlyPass
  <2>2. PICK u \in BOOLEAN :
          /\ fetch' = [d \in Dates |-> IF u /\ d \in poll[p].dates THEN FetchAt("queued") ELSE fetch[d]]
          /\ calendar' = [d \in Dates |-> IF u /\ d \in poll[p].close THEN "active" ELSE calendar[d]]
          /\ poll' = [poll EXCEPT ![p] = NoPass] /\ UNCHANGED <<sync, over, named, left>>
    <3>. DEFINE u == /\ \A d \in poll[p].dates : fetch[d].at = "none"
                     /\ \A d \in poll[p].close : calendar[d] = "none"
    <3>1. /\ fetch' = [d \in Dates |-> IF u /\ d \in poll[p].dates THEN FetchAt("queued") ELSE fetch[d]]
          /\ calendar' = [d \in Dates |-> IF u /\ d \in poll[p].close THEN "active" ELSE calendar[d]]
          /\ poll' = [poll EXCEPT ![p] = NoPass] /\ UNCHANGED <<sync, over, named, left>>
      BY <1>8 DEF QueueCommits
    <3>2. u \in BOOLEAN
      OBVIOUS
    <3>. HIDE DEF u
    <3>. QED
      BY <3>1, <3>2
  <2>3. OthersTyped'
    BY <1>1, <2>1, <2>2 DEF OthersTyped
  <2>4. FetchAt("queued") \in Fetch /\ FetchAt("queued").since = 0 /\ FetchAt("queued").add = {}
    BY FetchAtIs
  <2>5. Len(runs) \in Nat /\ runs' = runs
    BY <1>1 DEF RetryInv, TypeOK, vars
  <2>6. ASSUME NEW d \in Dates
        PROVE  /\ fetch'[d] \in Fetch /\ fetch'[d].since <= Len(runs')
               /\ IsFiniteSet(fetch'[d].add)
    <3>1. fetch'[d] = FetchAt("queued") \/ fetch'[d] = fetch[d]
      BY <2>2
    <3>2. fetch[d] \in Fetch /\ fetch[d].since <= Len(runs) /\ IsFiniteSet(fetch[d].add)
      BY <1>1 DEF Fetches
    <3>3. 0 <= Len(runs) /\ IsFiniteSet({})
      BY <2>5, FS_EmptySet
    <3>. QED
      BY <2>4, <2>5, <3>1, <3>2, <3>3
  <2>7. fetch' \in [Dates -> Fetch]
    <3>1. fetch' = [d \in Dates |-> fetch'[d]]
      BY <2>2
    <3>. QED
      BY <2>6, <3>1
  <2>. QED
    BY <1>2, <2>3, <2>6, <2>7 DEF DailyInv, Fetches
<1>. QED
  BY <1>5, <1>6, <1>7, <1>8 DEF Hourly

LEMMA TriedTyped ==
    ASSUME OthersTyped, NEW d \in Dates,
           NEW status \in {"failed", "success", "no_data"}, Tried(d, status)
    PROVE  sync' \in [Dates -> SyncStatus]
<1>. DEFINE n == IF sync[d].attempts < MaxSyncAttempts THEN sync[d].attempts + 1
                 ELSE sync[d].attempts
            q == [status |-> status, attempts |-> n]
<1>1. sync[d].attempts \in 0..MaxSyncAttempts
  BY DEF OthersTyped, SyncStatus
<1>2. n \in 0..MaxSyncAttempts
  BY <1>1, DailyParameters
<1>3. sync' = [sync EXCEPT ![d] = q]
  BY DEF Tried
<1>. HIDE DEF n
<1>4. q \in SyncStatus
  BY <1>2 DEF SyncStatus
<1>. HIDE DEF q
<1>. QED
  BY <1>3, <1>4 DEF OthersTyped

LEMMA StartSyncKeeps ==
    ASSUME DailyInv, NEW d \in Dates, StartSync(d)
    PROVE  DailyInv'
<1>. DEFINE q == [FetchAt("syncing") EXCEPT !.since = Len(runs)]
<1>1. RetryInv /\ OthersTyped /\ Fetches
  BY DEF DailyInv
<1>2. /\ fetch' = [fetch EXCEPT ![d] = q]
      /\ UNCHANGED <<vars, sync, calendar, over, poll, named, left>>
  BY DEF StartSync
<1>3. Len(runs) \in Nat /\ Len(runs') = Len(runs)
  BY <1>1, <1>2 DEF RetryInv, TypeOK, vars
<1>4. RetryInv' /\ OthersTyped'
  BY <1>1, <1>2, RetryStutters DEF OthersTyped
<1>5. q \in Fetch /\ q.since = Len(runs) /\ q.add = {}
  BY <1>3 DEF FetchAt, NoFetch, Fetch
<1>. HIDE DEF q
<1>6. Len(runs) <= Len(runs') /\ q.since <= Len(runs') /\ IsFiniteSet(q.add)
  BY <1>3, <1>5, FS_EmptySet
<1>7. Fetches'
  BY <1>2, <1>4, <1>5, <1>6, FetchSet
<1>. QED
  BY <1>4, <1>7 DEF DailyInv

\* Steps after which nothing of a sync is left but its job, or not even that.
LEMMA SyncGivenUp ==
    ASSUME DailyInv, NEW d \in Dates, UNCHANGED vars, OthersTyped',
           NEW q \in Fetch, q.since = 0, q.add = {}, fetch' = [fetch EXCEPT ![d] = q]
    PROVE  DailyInv'
<1>1. RetryInv
  BY DEF DailyInv
<1>2. RetryInv' /\ Len(runs) <= Len(runs')
  BY <1>1, RetryStutters
<1>3. Len(runs') \in Nat
  BY <1>2 DEF RetryInv, TypeOK
<1>4. q.since <= Len(runs')
  BY <1>3
<1>. QED
  BY <1>2, <1>4, FetchSet, FS_EmptySet DEF DailyInv

LEMMA FailSyncKeeps ==
    ASSUME DailyInv, NEW d \in Dates, FailSync(d)
    PROVE  DailyInv'
<1>1. OthersTyped
  BY DEF DailyInv
<1>2. /\ Tried(d, "failed") \/ Tried(d, "no_data")
      /\ fetch' = [fetch EXCEPT ![d] = FetchAt("done")]
      /\ UNCHANGED <<vars, calendar, over, poll, named, left>>
  BY DEF FailSync
<1>3. sync' \in [Dates -> SyncStatus]
  BY <1>1, <1>2, TriedTyped
<1>4. OthersTyped'
  BY <1>1, <1>2, <1>3 DEF OthersTyped
<1>. QED
  BY <1>2, <1>4, FetchAtIs, SyncGivenUp

LEMMA LookListedKeeps ==
    ASSUME DailyInv, NEW d \in Dates, LookListed(d)
    PROVE  DailyInv'
<1>. DEFINE A == {a \in Listed[d] : ~FromSync(a)}
            q == [fetch[d] EXCEPT !.at = "looked", !.add = A]
<1>1. RetryInv /\ OthersTyped /\ Fetches
  BY DEF DailyInv
<1>2. /\ fetch' = [fetch EXCEPT ![d] = q]
      /\ UNCHANGED <<vars, sync, calendar, over, poll, named, left>>
  BY DEF LookListed
<1>3. RetryInv' /\ Len(runs) <= Len(runs') /\ OthersTyped' /\ Len(runs') = Len(runs)
  BY <1>1, <1>2, RetryStutters DEF OthersTyped, vars
<1>4. A \subseteq Accessions /\ IsFiniteSet(A)
  BY DailyParameters, FS_Subset
<1>. HIDE DEF A
<1>5. fetch[d] \in Fetch /\ fetch[d].since <= Len(runs)
  BY <1>1 DEF Fetches
<1>6. q \in Fetch /\ q.since = fetch[d].since /\ q.add = A
  BY <1>4, <1>5 DEF Fetch
<1>. HIDE DEF q
<1>. QED
  BY <1>2, <1>3, <1>4, <1>5, <1>6, FetchSet DEF DailyInv

LEMMA CollideSyncKeeps ==
    ASSUME DailyInv, NEW d \in Dates, CollideSync(d) \/ CompleteSync(d)
    PROVE  DailyInv'
<1>1. OthersTyped
  BY DEF DailyInv
<1>2. /\ \/ fetch' = [fetch EXCEPT ![d] = FetchAt("done")]
         \/ fetch' = [fetch EXCEPT ![d] = NoFetch]
      /\ UNCHANGED <<vars, sync, calendar, over, poll, named, left>>
  BY DEF CollideSync, CompleteSync
<1>3. OthersTyped'
  BY <1>1, <1>2 DEF OthersTyped
<1>. QED
  BY <1>2, <1>3, FetchAtIs, NoFetchIs, SyncGivenUp

LEMMA RequestTyped ==
    ASSUME OthersTyped, Request
    PROVE  left' \in 0..MaxRequests
BY DailyParameters DEF OthersTyped, Request

LEMMA AskRunKeeps ==
    ASSUME DailyInv, AskRun
    PROVE  DailyInv'
<1>1. RetryInv /\ OthersTyped
  BY DEF DailyInv
<1>2. RetryInv' /\ Len(runs) <= Len(runs')
  BY <1>1, OthersTriggerKeeps DEF AskRun
<1>3. OthersTyped'
  BY <1>1, RequestTyped DEF AskRun, OthersTyped
<1>4. Fetches'
  BY <1>2, FetchesStay DEF AskRun
<1>. QED
  BY <1>2, <1>3, <1>4 DEF DailyInv

LEMMA AskedKeeps ==
    ASSUME DailyInv, NEW d \in Dates, UNCHANGED vars,
           TriggerSync(d) \/ EditCalendar(d) \/ CrashSync(d) \/ DayEnds(d)
    PROVE  DailyInv'
<1>1. RetryInv /\ OthersTyped /\ Fetches
  BY DEF DailyInv
<1>2. RetryInv' /\ Len(runs) <= Len(runs') /\ Len(runs') = Len(runs)
  BY <1>1, RetryStutters DEF vars
<1>3. CASE TriggerSync(d)
  <2>. DEFINE q == [fetch[d] EXCEPT !.at = "queued"]
  <2>1. fetch' = [fetch EXCEPT ![d] = q] /\ Request /\ UNCHANGED <<sync, calendar, over, poll, named>>
    BY <1>3 DEF TriggerSync
  <2>2. OthersTyped'
    BY <1>1, <2>1, RequestTyped DEF OthersTyped
  <2>3. fetch[d] \in Fetch /\ fetch[d].since <= Len(runs) /\ IsFiniteSet(fetch[d].add)
    BY <1>1 DEF Fetches
  <2>4. q \in Fetch /\ q.since = fetch[d].since /\ q.add = fetch[d].add
    BY <2>3 DEF Fetch
  <2>. HIDE DEF q
  <2>. QED
    BY <1>2, <2>1, <2>2, <2>3, <2>4, FetchSet DEF DailyInv
<1>4. CASE EditCalendar(d)
  <2>1. OthersTyped'
    BY <1>1, <1>4, RequestTyped DEF EditCalendar, OthersTyped
  <2>2. UNCHANGED fetch
    BY <1>4 DEF EditCalendar
  <2>. QED
    BY <1>2, <2>1, <2>2, FetchesStay DEF DailyInv
<1>5. CASE CrashSync(d)
  <2>1. fetch' = [fetch EXCEPT ![d] = FetchAt("queued")] /\ Request
        /\ UNCHANGED <<sync, calendar, over, poll, named>>
    BY <1>5 DEF CrashSync
  <2>2. OthersTyped'
    BY <1>1, <2>1, RequestTyped DEF OthersTyped
  <2>. QED
    BY <2>1, <2>2, FetchAtIs, SyncGivenUp
<1>6. CASE DayEnds(d)
  <2>1. OthersTyped'
    BY <1>1, <1>6 DEF DayEnds, OthersTyped
  <2>2. UNCHANGED fetch
    BY <1>6 DEF DayEnds
  <2>. QED
    BY <1>2, <2>1, <2>2, FetchesStay DEF DailyInv
<1>. QED
  BY <1>3, <1>4, <1>5, <1>6

-----------------------------------------------------------------------------
(* A sync puts its runs among those that were created during the fetch.     *)

LEMMA SetAsSeq ==
    ASSUME NEW S, IsFiniteSet(S)
    PROVE  SetToSeq(S) \in Seq(S)
<1>1. Cardinality(S) \in Nat /\ ExistsBijection(1..Cardinality(S), S)
  BY FS_CardinalityType
<1>2. \E f \in [1..Cardinality(S) -> S] : IsInjective(f)
  BY <1>1 DEF ExistsBijection, Bijection, Injection, IsInjective
<1>3. SetToSeq(S) \in [1..Cardinality(S) -> S]
  BY <1>2 DEF SetToSeq
<1>. QED
  BY <1>1, <1>3

\* t in s, after the first n.
Insertion(s, t, n) == SubSeq(s, 1, n) \o t \o SubSeq(s, n + 1, Len(s))

HoldsBoth(R, u, s, t, n) ==
    /\ u \in Seq(R) /\ Len(u) = Len(s) + Len(t)
    /\ \A i \in 1..n : u[i] = s[i]
    /\ \A i \in n + 1..Len(s) : u[i + Len(t)] = s[i]
    /\ \A i \in 1..Len(t) : u[n + i] = t[i]

LEMMA Inserted ==
    ASSUME NEW R, NEW s \in Seq(R), NEW t \in Seq(R), NEW n \in Nat, n <= Len(s),
           NEW u, u = Insertion(s, t, n)
    PROVE  HoldsBoth(R, u, s, t, n)
<1>. DEFINE a == SubSeq(s, 1, n)
            b == SubSeq(s, n + 1, Len(s))
            c == a \o t
<1>1. Len(s) \in Nat /\ Len(t) \in Nat /\ \A i \in 1..Len(s) : s[i] \in R
  OBVIOUS
<1>2. /\ a \in Seq(R) /\ Len(a) = n
      /\ \A i \in 1..n : a[i] = s[i]
  <2>1. \A i \in 1..n : s[i] \in R
    BY <1>1
  <2>2. a \in Seq(R) /\ Len(a) = (IF 1 <= n THEN n - 1 + 1 ELSE 0)
    BY <2>1, SubSeqProperties
  <2>3. \A i \in 1..n - 1 + 1 : a[i] = s[1 + i - 1]
    BY <2>1, SubSeqProperties
  <2>. HIDE DEF a
  <2>. QED
    BY <2>2, <2>3
<1>3. /\ b \in Seq(R) /\ Len(b) = Len(s) - n
      /\ \A i \in 1..Len(s) - n : b[i] = s[n + i]
  <2>1. \A i \in n + 1..Len(s) : s[i] \in R
    BY <1>1
  <2>2. b \in Seq(R) /\ Len(b) = (IF n + 1 <= Len(s) THEN Len(s) - (n + 1) + 1 ELSE 0)
    BY <1>1, <2>1, SubSeqProperties
  <2>3. \A i \in 1..Len(s) - (n + 1) + 1 : b[i] = s[n + 1 + i - 1]
    BY <1>1, <2>1, SubSeqProperties
  <2>. HIDE DEF b
  <2>. QED
    BY <1>1, <2>2, <2>3
<1>. HIDE DEF a, b
<1>4. /\ c \in Seq(R) /\ Len(c) = n + Len(t)
      /\ \A i \in 1..n + Len(t) : c[i] = IF i <= n THEN a[i] ELSE t[i - n]
  BY <1>2, ConcatProperties
<1>5. u = c \o b
  BY DEF a, b, Insertion
<1>. HIDE DEF c
<1>6. /\ u \in Seq(R) /\ Len(u) = Len(c) + Len(b)
      /\ \A i \in 1..Len(c) + Len(b) : u[i] = IF i <= Len(c) THEN c[i] ELSE b[i - Len(c)]
  <2>1. c \in Seq(R) /\ b \in Seq(R)
    BY <1>3, <1>4
  <2>2. /\ c \o b \in Seq(R) /\ Len(c \o b) = Len(c) + Len(b)
        /\ \A i \in 1..Len(c) + Len(b) : (c \o b)[i] = IF i <= Len(c) THEN c[i] ELSE b[i - Len(c)]
    BY <2>1, ConcatProperties, Zenon
  <2>. QED
    BY <2>2, <1>5, Zenon
<1>7. ASSUME NEW i \in 1..n PROVE u[i] = s[i]
  <2>1. i \in 1..Len(c) + Len(b) /\ i <= Len(c) /\ i \in 1..n + Len(t) /\ i <= n
    BY <1>1, <1>2, <1>3, <1>4
  <2>. QED
    BY <1>2, <1>3, <1>4, <1>6, <2>1
<1>8. ASSUME NEW i \in n + 1..Len(s) PROVE u[i + Len(t)] = s[i]
  <2>1. /\ i + Len(t) \in 1..Len(c) + Len(b) /\ ~(i + Len(t) <= Len(c))
        /\ (i + Len(t)) - Len(c) = i - n /\ i - n \in 1..Len(s) - n /\ n + (i - n) = i
    BY <1>1, <1>2, <1>3, <1>4
  <2>. QED
    BY <1>2, <1>3, <1>4, <1>6, <2>1
<1>9. ASSUME NEW i \in 1..Len(t) PROVE u[n + i] = t[i]
  <2>1. /\ n + i \in 1..Len(c) + Len(b) /\ n + i <= Len(c)
        /\ n + i \in 1..n + Len(t) /\ ~(n + i <= n) /\ (n + i) - n = i
    BY <1>1, <1>2, <1>3, <1>4
  <2>. QED
    BY <1>2, <1>3, <1>4, <1>6, <2>1
<1>10. Len(u) = Len(s) + Len(t)
  BY <1>1, <1>3, <1>4, <1>6
<1>. QED
  BY <1>6, <1>7, <1>8, <1>9, <1>10 DEF HoldsBoth

\* The runs t are created, as old as what was created after the first n.
Backdated(t, n, m) ==
    /\ t \in Seq(Run) /\ m \in [Nat -> Nat] /\ n \in Nat /\ n <= Len(runs)
    /\ \A i \in Nat : m[i] = IF i > n THEN i + Len(t) ELSE i
    /\ \A x \in DOMAIN t : t[x].key \in Targets /\ ~t[x].retry /\ t[x].targets = {}
    /\ runs' = Insertion(runs, t, n)
    /\ ended' = [x \in DOMAIN ended |-> m[ended[x]]]
    /\ pass' = [p \in Schedulers |->
                  [pass[p] EXCEPT !.left = [x \in DOMAIN pass[p].left |-> m[pass[p].left[x]]]]]
    /\ aged' = aged

LEMMA BackdatedKeeps ==
    ASSUME RetryInv, NEW t, NEW n, NEW m, Backdated(t, n, m)
    PROVE  RetryInv' /\ Len(runs') = Len(runs) + Len(t)
<1>1. TypeOK /\ LeftFailed /\ TargetsNamed /\ \A k \in Targets : Bounded(k)
  BY DEF RetryInv
<1>2. PICK N \in Nat, L \in Nat : N = Len(runs) /\ L = Len(t)
  <2>1. t \in Seq(Run)
    BY DEF Backdated
  <2>2. Len(t) \in Nat /\ Len(runs) \in Nat
    BY <1>1, <2>1, RunsAre
  <2>. QED
    BY <2>2
<1>3. DOMAIN runs = 1..N /\ DOMAIN t = 1..L /\ n <= N /\ n \in Nat
  BY <1>1, <1>2, RunsAre DEF Backdated
<1>4. /\ runs' \in Seq(Run) /\ Len(runs') = N + L /\ DOMAIN runs' = 1..N + L
      /\ \A i \in 1..n : runs'[i] = runs[i]
      /\ \A i \in n + 1..N : runs'[i + L] = runs[i]
      /\ \A i \in 1..L : runs'[n + i] = t[i]
  <2>1. runs \in Seq(Run) /\ t \in Seq(Run) /\ n \in Nat /\ n <= Len(runs) /\ runs' = Insertion(runs, t, n)
    BY <1>1, <1>2, <1>3, RunsAre DEF Backdated
  <2>2. /\ runs' \in Seq(Run) /\ Len(runs') = Len(runs) + Len(t)
        /\ \A i \in 1..n : runs'[i] = runs[i]
        /\ \A i \in n + 1..Len(runs) : runs'[i + Len(t)] = runs[i]
        /\ \A i \in 1..Len(t) : runs'[n + i] = t[i]
    <3>1. HoldsBoth(Run, runs', runs, t, n)
      BY <2>1, Inserted
    <3>. QED
      BY <3>1, Zenon DEF HoldsBoth
  <2>3. Len(runs') = N + L
    BY <1>2, <2>2, Zenon
  <2>4. DOMAIN runs' = 1..N + L
    BY <2>2, <2>3
  <2>. QED
    BY <1>2, <2>2, <2>3, <2>4, Zenon
<1>5. \A i \in Nat : m[i] = IF i > n THEN i + L ELSE i
  BY <1>2 DEF Backdated
<1>6. \A x \in DOMAIN t : t[x].key \in Targets /\ ~t[x].retry /\ t[x].targets = {}
  BY DEF Backdated
<1>7. ASSUME NEW i \in DOMAIN runs PROVE m[i] \in DOMAIN runs' /\ runs'[m[i]] = runs[i]
  <2>1. i \in 1..N
    BY <1>3
  <2>2. CASE i > n
    <3>1. m[i] = i + L /\ i \in n + 1..N /\ i + L \in 1..N + L
      BY <1>3, <1>5, <2>1, <2>2
    <3>. QED
      BY <1>4, <3>1
  <2>3. CASE ~(i > n)
    <3>1. m[i] = i /\ i \in 1..n /\ i \in 1..N + L
      BY <1>3, <1>5, <2>1, <2>3
    <3>. QED
      BY <1>4, <3>1
  <2>. QED
    BY <2>2, <2>3
<1>8. ASSUME NEW i \in DOMAIN runs, NEW j \in DOMAIN runs, i < j PROVE m[i] < m[j]
  <2>1. i \in 1..N /\ j \in 1..N
    BY <1>3
  <2>. QED
    BY <1>3, <1>5, <1>8, <2>1
<1>9. ASSUME NEW i \in DOMAIN runs' PROVE (\E j \in DOMAIN runs : i = m[j]) \/ \E x \in DOMAIN t : runs'[i] = t[x]
  <2>. i \in 1..N + L
    BY <1>4
  <2>1. CASE i <= n
    <3>1. i \in 1..N /\ i = m[i]
      BY <1>3, <1>5, <2>1
    <3>. QED
      BY <1>3, <3>1
  <2>2. CASE i > n /\ i <= n + L
    <3>1. i - n \in 1..L /\ n + (i - n) = i
      BY <1>3, <2>2
    <3>. QED
      BY <1>3, <1>4, <3>1
  <2>3. CASE i > n + L
    <3>1. i - L \in 1..N /\ i - L > n /\ (i - L) + L = i
      BY <1>3, <2>3
    <3>2. m[i - L] = i
      BY <1>3, <1>5, <3>1
    <3>. QED
      BY <1>3, <3>1, <3>2
  <2>. QED
    BY <1>3, <2>1, <2>2, <2>3
<1>10. /\ ended' = [x \in DOMAIN ended |-> m[ended[x]]] /\ aged' = aged
       /\ pass' = [p \in Schedulers |->
                     [pass[p] EXCEPT !.left = [x \in DOMAIN pass[p].left |-> m[pass[p].left[x]]]]]
  BY DEF Backdated
<1>11. /\ ended' \in Seq(DOMAIN runs') /\ Len(ended') = Len(ended) /\ DOMAIN ended' = DOMAIN ended
       /\ \A x \in DOMAIN ended : ended'[x] = m[ended[x]]
  <2>1. \A x \in 1..Len(ended) : m[ended[x]] \in DOMAIN runs'
    BY <1>1, <1>7, RunsAre
  <2>2. Len(ended) \in Nat /\ DOMAIN ended = 1..Len(ended)
    BY <1>1, RunsAre
  <2>3. ended' \in [1..Len(ended) -> DOMAIN runs']
    BY <1>10, <2>1, <2>2
  <2>. QED
    BY <1>10, <2>2, <2>3
<1>12. ASSUME NEW p \in Schedulers
       PROVE  /\ pass'[p] \in Pass /\ pass'[p].chosen = pass[p].chosen
              /\ DOMAIN pass'[p].left = DOMAIN pass[p].left
              /\ \A x \in DOMAIN pass[p].left : pass'[p].left[x] = m[pass[p].left[x]]
  <2>. DEFINE q == [x \in DOMAIN pass[p].left |-> m[pass[p].left[x]]]
  <2>1. /\ pass[p].left \in Seq(Nat) /\ Len(pass[p].left) \in Nat
        /\ DOMAIN pass[p].left = 1..Len(pass[p].left) /\ pass[p] \in Pass
    BY <1>1, PassHas
  <2>2. \A x \in 1..Len(pass[p].left) : m[pass[p].left[x]] \in Nat
    <3>1. m \in [Nat -> Nat]
      BY DEF Backdated
    <3>2. \A x \in 1..Len(pass[p].left) : pass[p].left[x] \in Nat
      BY <2>1
    <3>. QED
      BY <3>1, <3>2
  <2>3. q \in [1..Len(pass[p].left) -> Nat]
    BY <2>1, <2>2
  <2>4. q \in Seq(Nat)
    BY <2>1, <2>3
  <2>5. pass'[p] = [pass[p] EXCEPT !.left = q]
    BY <1>10
  <2>6. DOMAIN q = DOMAIN pass[p].left /\ \A x \in DOMAIN pass[p].left : q[x] = m[pass[p].left[x]]
    OBVIOUS
  <2>. HIDE DEF q
  <2>7. pass'[p] \in Pass /\ pass'[p].chosen = pass[p].chosen /\ pass'[p].left = q
    BY <2>1, <2>4, <2>5 DEF Pass
  <2>. QED
    BY <2>6, <2>7
<1>13. TypeOK'
  <2>1. pass' = [p \in Schedulers |-> pass'[p]]
    BY <1>10
  <2>2. pass' \in [Schedulers -> Pass]
    BY <1>12, <2>1
  <2>3. aged' \in 0..Len(ended')
    BY <1>1, <1>10, <1>11, RunsAre
  <2>. QED
    BY <1>4, <1>11, <2>2, <2>3 DEF TypeOK
<1>14. LeftFailed'
  <2>1. \A x \in DOMAIN ended' : runs'[ended'[x]].status = "failed"
    BY <1>1, <1>7, <1>11, RunsAre DEF LeftFailed
  <2>2. ASSUME NEW p \in Schedulers, NEW x \in DOMAIN pass'[p].left
        PROVE  /\ pass'[p].left[x] \in DOMAIN runs'
               /\ runs'[pass'[p].left[x]].status = "failed"
    <3>1. /\ x \in DOMAIN pass[p].left /\ pass'[p].left[x] = m[pass[p].left[x]]
          /\ pass[p].left[x] \in DOMAIN runs /\ runs[pass[p].left[x]].status = "failed"
      BY <1>1, <1>12, <2>2 DEF LeftFailed
    <3>. QED
      BY <1>7, <3>1
  <2>. QED
    BY <2>1, <2>2 DEF LeftFailed
<1>15. TargetsNamed'
  <2>1. ASSUME NEW i \in DOMAIN runs'
        PROVE  /\ runs'[i].retry \/ runs'[i].whole => runs'[i].key \in Targets
               /\ \A k \in runs'[i].targets :
                     runs'[i].key \in Parents \/ (runs'[i].key = k /\ runs'[i].whole)
    <3>1. CASE \E j \in DOMAIN runs : i = m[j]
      BY <1>1, <1>7, <3>1 DEF TargetsNamed
    <3>2. CASE \E x \in DOMAIN t : runs'[i] = t[x]
      BY <1>6, <3>2
    <3>. QED
      BY <1>9, <3>1, <3>2
  <2>. QED
    BY <2>1 DEF TargetsNamed
<1>16. ASSUME NEW k \in Targets PROVE Bounded(k)'
  <2>1. Wanting(k)' \subseteq Wanting(k)
    BY <1>12 DEF Wanting
  <2>2. PICK f : f = [i \in DOMAIN runs |-> m[i]]
    OBVIOUS
  <2>3. f \in [DOMAIN runs -> DOMAIN runs'] /\ \A i \in DOMAIN runs : f[i] = m[i]
    BY <1>7, <2>2
  <2>4. \A i, j \in DOMAIN runs : i < j => f[i] < f[j]
    BY <1>8, <2>3
  <2>5. \A i \in DOMAIN runs :
          /\ runs'[f[i]].key = runs[i].key /\ runs'[f[i]].whole = runs[i].whole
          /\ runs'[f[i]].retry = runs[i].retry
          /\ runs[i].status = "failed" /\ k \in runs[i].targets
             => runs'[f[i]].status = "failed" /\ k \in runs'[f[i]].targets
    BY <1>7, <2>3
  <2>6. \A i \in DOMAIN runs' : runs'[i].key = k /\ runs'[i].retry => \E j \in DOMAIN runs : i = f[j]
    BY <1>6, <1>9, <2>3
  <2>. QED
    BY <1>1, <1>13, <2>1, <2>3, <2>4, <2>5, <2>6, BoundCarried
<1>. QED
  BY <1>2, <1>4, <1>13, <1>14, <1>15, <1>16 DEF RetryInv

LEMMA PlaceholderIs ==
    ASSUME NEW a \in Accessions
    PROVE  /\ Placeholder(a) \in Run /\ Placeholder(a).key \in Targets
           /\ ~Placeholder(a).retry /\ Placeholder(a).targets = {}
<1>1. a \in Keys /\ a \in Targets
  BY DEF Keys, Targets
<1>. QED
  BY <1>1, NewRunIs DEF Placeholder

LEMMA PlaceholdersAre ==
    ASSUME NEW S, S \subseteq Accessions, IsFiniteSet(S), NEW new, new = SetToSeq(S),
           NEW t, t = [x \in DOMAIN new |-> Placeholder(new[x])]
    PROVE  /\ t \in Seq(Run) /\ Len(t) = Len(new) /\ Len(t) \in Nat
           /\ \A x \in DOMAIN t : t[x].key \in Targets /\ ~t[x].retry /\ t[x].targets = {}
<1>1. new \in Seq(S)
  BY SetAsSeq
<1>2. Len(new) \in Nat /\ DOMAIN new = 1..Len(new) /\ \A x \in 1..Len(new) : new[x] \in Accessions
  BY <1>1
<1>3. \A x \in 1..Len(new) :
         /\ Placeholder(new[x]) \in Run /\ Placeholder(new[x]).key \in Targets
         /\ ~Placeholder(new[x]).retry /\ Placeholder(new[x]).targets = {}
  BY <1>2, PlaceholderIs
<1>4. t \in [1..Len(new) -> Run]
  BY <1>2, <1>3
<1>5. t \in Seq(Run) /\ Len(t) = Len(new)
  BY <1>2, <1>4
<1>. QED
  BY <1>2, <1>3, <1>5

LEMMA CommitBackdates ==
    ASSUME DailyInv, NEW d \in Dates, CommitSync(d)
    PROVE  \E t, n, m :
             /\ Backdated(t, n, m) /\ Len(t) \in Nat
             /\ fetch' = [e \in Dates |-> IF e = d THEN FetchAt("done")
                                          ELSE [fetch[e] EXCEPT !.since = m[fetch[e].since]]]
<1>1. TypeOK /\ Fetches
  BY DEF DailyInv, RetryInv
<1>2. /\ fetch[d] \in Fetch /\ fetch[d].since \in Nat /\ fetch[d].since <= Len(runs)
      /\ fetch[d].add \subseteq Accessions /\ IsFiniteSet(fetch[d].add)
  BY <1>1, FetchHas DEF Fetches
<1>3. PICK n \in Nat : n = fetch[d].since
  BY <1>2
<1>4. PICK new : new = SetToSeq(fetch[d].add)
  OBVIOUS
<1>5. PICK t : t = [x \in DOMAIN new |-> Placeholder(new[x])]
  OBVIOUS
<1>6. /\ t \in Seq(Run) /\ Len(t) = Len(new) /\ Len(t) \in Nat
      /\ \A x \in DOMAIN t : t[x].key \in Targets /\ ~t[x].retry /\ t[x].targets = {}
  BY <1>2, <1>4, <1>5, PlaceholdersAre
<1>7. PICK m : m = [i \in Nat |-> IF i > n THEN i + Len(t) ELSE i]
  OBVIOUS
<1>8. /\ runs' = SubSeq(runs, 1, n) \o t \o SubSeq(runs, n + 1, Len(runs))
      /\ ended' = [x \in DOMAIN ended |-> IF ended[x] > n THEN ended[x] + Len(new) ELSE ended[x]]
      /\ pass' = [p \in Schedulers |->
                    [pass[p] EXCEPT !.left = [x \in DOMAIN pass[p].left |->
                       IF pass[p].left[x] > n THEN pass[p].left[x] + Len(new) ELSE pass[p].left[x]]]]
      /\ fetch' = [e \in Dates |->
                     IF e = d THEN FetchAt("done")
                     ELSE [fetch[e] EXCEPT !.since = IF fetch[e].since > n THEN fetch[e].since + Len(new)
                                                     ELSE fetch[e].since]]
      /\ aged' = aged
  BY <1>3, <1>4, <1>5, Zenon DEF CommitSync
<1>9. \A i \in Nat : m[i] = IF i > n THEN i + Len(new) ELSE i
  BY <1>6, <1>7
<1>10. m \in [Nat -> Nat]
  BY <1>6, <1>7
<1>11. runs' = Insertion(runs, t, n)
  BY <1>8 DEF Insertion
<1>12. ended' = [x \in DOMAIN ended |-> m[ended[x]]]
  <2>1. \A x \in DOMAIN ended : ended[x] \in Nat
    BY <1>1, RunsAre
  <2>. QED
    BY <1>8, <1>9, <2>1
<1>13. pass' = [p \in Schedulers |->
                  [pass[p] EXCEPT !.left = [x \in DOMAIN pass[p].left |-> m[pass[p].left[x]]]]]
  <2>1. \A p \in Schedulers : \A x \in DOMAIN pass[p].left : pass[p].left[x] \in Nat
    BY <1>1, PassHas
  <2>2. \A p \in Schedulers :
          [x \in DOMAIN pass[p].left |->
             IF pass[p].left[x] > n THEN pass[p].left[x] + Len(new) ELSE pass[p].left[x]]
          = [x \in DOMAIN pass[p].left |-> m[pass[p].left[x]]]
    BY <1>9, <2>1
  <2>. QED
    BY <1>8, <2>2
<1>14. fetch' = [e \in Dates |-> IF e = d THEN FetchAt("done")
                                 ELSE [fetch[e] EXCEPT !.since = m[fetch[e].since]]]
  <2>1. \A e \in Dates : fetch[e].since \in Nat
    BY <1>1, FetchHas DEF Fetches
  <2>2. \A e \in Dates : m[fetch[e].since]
                         = IF fetch[e].since > n THEN fetch[e].since + Len(new) ELSE fetch[e].since
    BY <1>9, <2>1
  <2>. QED
    BY <1>8, <2>2
<1>15. Backdated(t, n, m)
  <2>1. n <= Len(runs)
    BY <1>2, <1>3
  <2>. QED
    BY <1>6, <1>8, <1>9, <1>10, <1>11, <1>12, <1>13, <2>1 DEF Backdated
<1>. QED
  BY <1>6, <1>14, <1>15

LEMMA CommitSyncKeeps ==
    ASSUME DailyInv, NEW d \in Dates, CommitSync(d)
    PROVE  DailyInv'
<1>1. RetryInv /\ OthersTyped /\ Fetches /\ TypeOK
  BY DEF DailyInv, RetryInv
<1>2. PICK t, n, m :
        /\ Backdated(t, n, m) /\ Len(t) \in Nat
        /\ fetch' = [e \in Dates |-> IF e = d THEN FetchAt("done")
                                     ELSE [fetch[e] EXCEPT !.since = m[fetch[e].since]]]
  BY CommitBackdates
<1>3. RetryInv' /\ Len(runs') = Len(runs) + Len(t)
  BY <1>1, <1>2, BackdatedKeeps
<1>4. OthersTyped'
  <2>1. /\ Tried(d, "success") /\ named' = named \cup Listed[d]
        /\ UNCHANGED <<calendar, over, poll, left>>
    BY DEF CommitSync
  <2>2. sync' \in [Dates -> SyncStatus]
    BY <1>1, <2>1, TriedTyped
  <2>. QED
    BY <1>1, <2>1, <2>2, DailyParameters DEF OthersTyped
<1>5. PICK N \in Nat, L \in Nat : N = Len(runs) /\ L = Len(t)
  BY <1>1, <1>2, RunsAre
<1>6. n \in Nat /\ \A i \in Nat : m[i] = IF i > n THEN i + L ELSE i
  BY <1>2, <1>5 DEF Backdated
<1>7. ASSUME NEW e \in Dates
      PROVE  /\ fetch'[e] \in Fetch /\ fetch'[e].since <= Len(runs')
             /\ IsFiniteSet(fetch'[e].add)
  <2>1. CASE e = d
    <3>1. fetch'[e] = FetchAt("done")
      BY <1>2, <2>1
    <3>2. 0 <= Len(runs')
      BY <1>3, <1>5
    <3>. QED
      BY <3>1, <3>2, FetchAtIs, FS_EmptySet
  <2>2. CASE e # d
    <3>1. fetch[e] \in Fetch /\ fetch[e].since <= Len(runs) /\ IsFiniteSet(fetch[e].add)
      BY <1>1 DEF Fetches
    <3>2. PICK s \in Nat : s = fetch[e].since
      BY <3>1, FetchHas
    <3>3. m[s] \in Nat /\ m[s] <= N + L
      <4>1. s <= N
        BY <1>5, <3>1, <3>2
      <4>. QED
        BY <1>6, <4>1
    <3>4. fetch'[e] = [fetch[e] EXCEPT !.since = m[s]]
      BY <1>2, <2>2, <3>2
    <3>5. fetch'[e] \in Fetch /\ fetch'[e].since = m[s] /\ fetch'[e].add = fetch[e].add
      BY <3>1, <3>3, <3>4 DEF Fetch
    <3>. QED
      BY <1>3, <1>5, <3>1, <3>3, <3>5
  <2>. QED
    BY <2>1, <2>2
<1>8. fetch' = [e \in Dates |-> fetch'[e]]
  BY <1>2
<1>9. fetch' \in [Dates -> Fetch]
  BY <1>7, <1>8
<1>. QED
  BY <1>3, <1>4, <1>7, <1>9 DEF DailyInv, Fetches

-----------------------------------------------------------------------------
LEMMA DailyStarts == DailyInit => DailyInv
<1>. SUFFICES ASSUME DailyInit PROVE DailyInv
  OBVIOUS
<1>1. RetryInv
  BY RetryStarts DEF DailyInit
<1>2. OthersTyped
  <2>1. NoPass \in HourlyPass
    BY DEF NoPass, HourlyPass
  <2>2. [status |-> "none", attempts |-> 0] \in SyncStatus
    BY DailyParameters DEF SyncStatus
  <2>3. MaxRequests \in 0..MaxRequests
    BY DailyParameters
  <2>. QED
    BY <2>1, <2>2, <2>3 DEF DailyInit, OthersTyped
<1>3. Fetches
  <2>1. Len(runs) \in Nat
    BY <1>1 DEF RetryInv, TypeOK
  <2>2. fetch = [d \in Dates |-> NoFetch]
    BY DEF DailyInit
  <2>3. 0 <= Len(runs)
    BY <2>1
  <2>. QED
    BY <2>2, <2>3, NoFetchIs, FS_EmptySet DEF Fetches
<1>. QED
  BY <1>1, <1>2, <1>3 DEF DailyInv

LEMMA DailyKeeps == DailyInv /\ [DailyNext]_<<vars, dailyVars>> => DailyInv'
<1>. SUFFICES ASSUME DailyInv, [DailyNext]_<<vars, dailyVars>> PROVE DailyInv'
  OBVIOUS
<1>1. ASSUME UNCHANGED dailyVars, RetryInv', Len(runs) <= Len(runs') PROVE DailyInv'
  <2>1. OthersTyped'
    BY <1>1 DEF DailyInv, OthersTyped, dailyVars
  <2>2. Fetches'
    BY <1>1, FetchesStay DEF dailyVars
  <2>. QED
    BY <1>1, <2>1, <2>2 DEF DailyInv
<1>2. CASE Proceed /\ UNCHANGED dailyVars
  BY <1>1, <1>2, ProceedKeeps DEF DailyInv
<1>3. CASE AskRun
  BY <1>3, AskRunKeeps
<1>4. CASE \E p \in Schedulers : Hourly(p) /\ UNCHANGED vars
  BY <1>4, HourlyKeeps
<1>5. ASSUME NEW d \in Dates, Syncs(d) PROVE DailyInv'
  BY <1>5, StartSyncKeeps, LookListedKeeps, FailSyncKeeps, CommitSyncKeeps, CollideSyncKeeps
     DEF Syncs, EndSync
<1>6. ASSUME NEW d \in Dates, UNCHANGED vars,
             TriggerSync(d) \/ EditCalendar(d) \/ CrashSync(d) \/ DayEnds(d)
      PROVE  DailyInv'
  BY <1>6, AskedKeeps
<1>7. CASE UNCHANGED <<vars, dailyVars>>
  BY <1>1, <1>7, RetryStutters DEF DailyInv
<1>. QED
  BY <1>2, <1>3, <1>4, <1>5, <1>6, <1>7 DEF DailyNext

(* The sync status and the calendar of every date, the jobs that fetch an    *)
(* index, the hourly passes and the runs have the shape their definitions    *)
(* give them; what a sync was to put its runs after is there.                *)
THEOREM DailyTypes == DailySpec => []SyncTypeOK
<1>1. DailyInv => SyncTypeOK
  BY DEF DailyInv, RetryInv, OthersTyped, Fetches, SyncTypeOK
<1>. QED
  BY <1>1, DailyStarts, DailyKeeps, PTL DEF DailySpec

(* A target that only its parents name is tried MAX_SMART_RETRY_ATTEMPTS      *)
(* times after the last run that named it, and once more for each further     *)
(* scheduler (smart_retry_failed_jobs), although syncs create runs which are  *)
(* older than those that others created during the fetch (run_daily_index_sync). *)
THEOREM NightsEnd == DailySpec => []NamedEnds
<1>1. DailyInv => NamedEnds
  BY RetryBounds DEF DailyInv
<1>. QED
  BY <1>1, DailyStarts, DailyKeeps, PTL DEF DailySpec
=============================================================================
