-------------------------- MODULE RateGuardProofs --------------------------
(***************************************************************************)
(* RateGuard keeps its pace for any number of threads, any burst and any   *)
(* lateness. The argument is the time at which the bucket will be full:    *)
(* each turn moves it on by an interval at least, it is never less than an *)
(* interval after the turn, and the next turn comes at most Burst - 1      *)
(* intervals before it.                                                    *)
(***************************************************************************)
EXTENDS RateGuard, FiniteSetTheorems, TLAPS

\* When the bucket will be full
FullAt == updated + Burst * Interval - tokens

\* It is full an interval later for each turn that came after this one.
Debt ==
    \A i \in 1..Len(turns) : FullAt >= turns[i] + (Len(turns) - i + 1) * Interval

Spaced ==
    \A j \in 1..Len(turns) : \A i \in 1..(j - Burst) :
        turns[j] >= turns[i] + (j - i - Burst + 1) * Interval

\* A thread waits for its turn.
OwnTurn == \A r \in Callers :
    caller[r].at = "waiting" => caller[r].until = turns[caller[r].turn]

PauseBounded == pause <= now + Pause

Barred == \A r \in Callers :
    /\ caller[r].barred <= pause
    /\ caller[r].at \in {"paused", "waiting"} => caller[r].barred <= caller[r].until

\* The turns given for the interval before t and for later, and when the next one is due
Since(t) == {n \in 1..Len(turns) : turns[n] > t - Interval}
NextTurn == FullAt - (Burst - 1) * Interval

\* Whenever it is looked at, the wait is owed to turns that were given.
Used == \A t \in Nat : t >= now => NextTurn - t <= Interval * Cardinality(Since(t))

IInv == TypeOK /\ Debt /\ Spaced /\ OwnTurn /\ PauseBounded /\ Barred /\ Used

-----------------------------------------------------------------------------
\* A product grows by the interval with each factor.
LEMMA Distribute ==
    ASSUME NEW a \in Int, NEW b \in Int, NEW c \in Int
    PROVE  /\ (a + b) * c = a * c + b * c
           /\ (a - b) * c = a * c - b * c
           /\ (a + 1) * c = a * c + c
  BY SMT

\* The bucket holds an interval at least, and everything about it is an integer.
LEMMA Sizes ==
    ASSUME RateGuardAssumption
    PROVE  /\ Interval \in Nat /\ Interval > 0 /\ Burst \in Nat /\ Burst > 0
           /\ Burst * Interval \in Int
           /\ Burst * Interval = (Burst - 1) * Interval + Interval
           /\ (Burst - 1) * Interval >= 0
  <1>1. Interval \in Nat /\ Interval > 0 /\ Burst \in Nat /\ Burst > 0
    BY DEF RateGuardAssumption
  <1>2. (Burst - 1) \in Nat
    BY <1>1
  <1>3. (Burst - 1) * Interval >= 0
    BY <1>1, <1>2
  <1>4. ((Burst - 1) + 1) * Interval = (Burst - 1) * Interval + Interval
    BY <1>1, <1>2, Distribute
  <1> QED
    BY <1>1, <1>2, <1>3, <1>4

\* What a thread gets from the bucket, and what it leaves behind.
LEMMA Turn ==
    ASSUME RateGuardAssumption, now \in Nat, updated \in Int, updated <= now, tokens \in Int
    PROVE  /\ Refilled \in Int /\ Refilled <= Burst * Interval
           /\ Wait \in Nat
           /\ now + Burst * Interval - (Refilled - Interval) >= FullAt + Interval
           /\ now + Burst * Interval - (Refilled - Interval) >= now + Wait + Interval
           /\ now + Wait >= FullAt - (Burst - 1) * Interval
  <1> DEFINE K == Burst * Interval
             L == (Burst - 1) * Interval
  <1>1. Interval \in Nat /\ Interval > 0 /\ K \in Int /\ K = L + Interval /\ L \in Int /\ L >= 0
    BY Sizes
  <1>2. Refilled = IF K <= tokens + (now - updated) THEN K ELSE tokens + (now - updated)
    BY DEF Refilled, Least
  <1>3. FullAt = updated + K - tokens
    BY DEF FullAt
  <1> HIDE DEF K, L
  <1>4. Refilled \in Int /\ Refilled <= K
    BY <1>1, <1>2
  <1>5. Wait = IF Refilled >= Interval THEN 0 ELSE Interval - Refilled
    BY DEF Wait
  <1>6. Wait \in Nat
    BY <1>1, <1>4, <1>5
  <1>7. now + K - (Refilled - Interval) >= FullAt + Interval
    BY <1>1, <1>2, <1>3
  <1>8. now + K - (Refilled - Interval) >= now + Wait + Interval
    BY <1>1, <1>4, <1>5
  <1>9. now + Wait >= FullAt - L
    BY <1>1, <1>2, <1>3, <1>5
  <1> QED
    BY <1>4, <1>6, <1>7, <1>8, <1>9 DEF K, L

-----------------------------------------------------------------------------
\* The backoff of any attempt is one of those configured.
LEMMA BackoffType ==
    ASSUME RateGuardAssumption, NEW n \in Nat, n > 0
    PROVE  BackoffOf(n) \in Nat
  <1>1. Len(Backoff) \in Nat /\ Len(Backoff) > 0 /\ Backoff \in [1..Len(Backoff) -> Nat]
    BY DEF RateGuardAssumption
  <1>2. Least(n, Len(Backoff)) \in 1..Len(Backoff)
    BY <1>1 DEF Least
  <1> QED
    BY <1>1, <1>2 DEF BackoffOf

LEMMA InitInv == RateGuardAssumption /\ Init => IInv
  <1> SUFFICES ASSUME RateGuardAssumption, Init PROVE IInv
    OBVIOUS
  <1>1. Len(turns) = 0 /\ turns \in Seq(Nat)
    BY DEF Init
  <1>2. Idle \in CallerState
    BY DEF Idle, CallerState, RateGuardAssumption
  <1>3. TypeOK
    BY <1>1, <1>2, Sizes DEF Init, TypeOK, Idle, RateGuardAssumption
  <1>4. Debt /\ Spaced
    BY <1>1 DEF Debt, Spaced
  <1>5. OwnTurn /\ PauseBounded /\ Barred
    BY DEF Init, OwnTurn, PauseBounded, Barred, Idle, RateGuardAssumption
  <1>6. Used
    <2>1. FullAt = 0 /\ (Burst - 1) * Interval >= 0 /\ (Burst - 1) * Interval \in Int
      BY Sizes DEF Init, FullAt
    <2>2. NextTurn \in Int /\ NextTurn <= 0
      BY <2>1 DEF NextTurn
    <2>3. ASSUME NEW t \in Nat PROVE NextTurn - t <= Interval * Cardinality(Since(t))
      <3>1. Since(t) = {}
        BY <1>1 DEF Since
      <3>2. Cardinality(Since(t)) = 0 /\ Interval * 0 = 0
        BY <3>1, FS_EmptySet, Sizes
      <3> QED
        BY <2>2, <3>2
    <2> QED
      BY <2>3 DEF Used
  <1> QED
    BY <1>3, <1>4, <1>5, <1>6 DEF IInv

-----------------------------------------------------------------------------
\* One turn more, and the bucket is full an interval later.
LEMMA OneMore ==
    ASSUME NEW f \in Int, NEW g \in Int, NEW t \in Int, NEW m \in Int, NEW d \in Int,
           g >= f + d, f >= t + m * d
    PROVE  g >= t + (m + 1) * d
  <1>1. (m + 1) * d = m * d + d /\ m * d \in Int
    BY Distribute
  <1> QED
    BY <1>1

\* b intervals before the bucket is full.
LEMMA Before ==
    ASSUME NEW s \in Int, NEW f \in Int, NEW t \in Int, NEW m \in Int, NEW b \in Int,
           NEW d \in Int, s >= f - b * d, f >= t + m * d
    PROVE  s >= t + (m - b) * d
  <1>1. (m - b) * d = m * d - b * d /\ m * d \in Int /\ b * d \in Int
    BY Distribute
  <1> QED
    BY <1>1

\* The next turn and the wait for it, by the time the bucket will be full
LEMMA Due ==
    ASSUME RateGuardAssumption, now \in Nat, updated \in Int, updated <= now, tokens \in Int
    PROVE  /\ FullAt \in Int /\ NextTurn \in Int /\ Wait \in Nat
           /\ Wait = Greatest(0, NextTurn - now)
           /\ now + Burst * Interval - (Refilled - Interval) = Greatest(now, FullAt) + Interval
  <1> DEFINE K == Burst * Interval
             L == (Burst - 1) * Interval
  <1>1. Interval \in Nat /\ Interval > 0 /\ K \in Int /\ K = L + Interval /\ L \in Int /\ L >= 0
    BY Sizes
  <1>2. Refilled = IF K <= tokens + (now - updated) THEN K ELSE tokens + (now - updated)
    BY DEF Refilled, Least
  <1>3. FullAt = updated + K - tokens /\ NextTurn = FullAt - L
    BY DEF FullAt, NextTurn
  <1> HIDE DEF K, L
  <1>4. FullAt \in Int /\ NextTurn \in Int
    BY <1>1, <1>3
  <1>5. Wait = IF Refilled >= Interval THEN 0 ELSE Interval - Refilled
    BY DEF Wait
  <1>6. Wait \in Nat /\ Wait = Greatest(0, NextTurn - now)
    BY <1>1, <1>2, <1>3, <1>5 DEF Greatest
  <1>7. now + K - (Refilled - Interval) = Greatest(now, FullAt) + Interval
    BY <1>1, <1>2, <1>3 DEF Greatest
  <1> QED
    BY <1>4, <1>6, <1>7 DEF K

\* The turns since an instant are so many, and a new one counts if it is later.
LEMMA SinceAppend ==
    ASSUME RateGuardAssumption, turns \in Seq(Nat), NEW slot \in Nat, NEW t \in Nat,
           turns' = Append(turns, slot)
    PROVE  /\ Cardinality(Since(t)) \in Nat
           /\ Cardinality(Since(t)') = IF slot > t - Interval THEN Cardinality(Since(t)) + 1
                                                            ELSE Cardinality(Since(t))
  <1> DEFINE n == Len(turns)
  <1>1. n \in Nat /\ Interval \in Nat
    BY Sizes
  <1>2. Len(turns') = n + 1 /\ turns'[n + 1] = slot
        /\ \A i \in 1..n : turns'[i] = turns[i] /\ turns[i] \in Nat
    <2>1. Len(turns') = n + 1 /\ turns'[n + 1] = slot
      OBVIOUS
    <2>2. ASSUME NEW i \in 1..n PROVE turns'[i] = turns[i] /\ turns[i] \in Nat
      OBVIOUS
    <2> QED
      BY <2>1, <2>2
  <1>3. IsFiniteSet(Since(t)) /\ n + 1 \notin Since(t)
    <2>1. IsFiniteSet(1..n) /\ Since(t) \subseteq 1..n
      BY <1>1, FS_Interval DEF Since
    <2> QED
      BY <1>1, <2>1, FS_Subset
  <1>4. Since(t)' = {i \in 1..(n + 1) : turns'[i] > t - Interval}
    BY <1>2 DEF Since
  <1>5. CASE slot > t - Interval
    <2>1. Since(t)' = Since(t) \cup {n + 1}
      BY <1>1, <1>2, <1>4, <1>5 DEF Since
    <2> QED
      BY <1>3, <1>5, <2>1, FS_AddElement, FS_CardinalityType
  <1>6. CASE ~(slot > t - Interval)
    <2>1. Since(t)' = Since(t)
      BY <1>1, <1>2, <1>4, <1>6 DEF Since
    <2> QED
      BY <1>3, <1>6, <2>1, FS_CardinalityType
  <1> QED
    BY <1>5, <1>6

\* A turn that is given is used: if it is soon, it counts for those after it.
LEMMA AcquireUsed ==
    ASSUME RateGuardAssumption, TypeOK, Used, NEW r \in Callers, Acquire(r)
    PROVE  Used'
  <1> DEFINE slot == now + Wait
             L == (Burst - 1) * Interval
  <1>1. /\ now \in Nat /\ updated \in Int /\ updated <= now /\ tokens \in Int
        /\ turns \in Seq(Nat)
    BY DEF TypeOK
  <1>2. /\ tokens' = Refilled - Interval /\ updated' = now /\ now' = now
        /\ turns' = Append(turns, slot)
    BY DEF Acquire
  <1>3. /\ FullAt \in Int /\ Wait \in Nat /\ Wait = Greatest(0, NextTurn - now)
        /\ now + Burst * Interval - (Refilled - Interval) = Greatest(now, FullAt) + Interval
        /\ Interval \in Nat /\ Interval > 0 /\ L \in Int /\ L >= 0
    BY <1>1, Due, Sizes
  <1>4. NextTurn = FullAt - L /\ NextTurn' = Greatest(now, FullAt) + Interval - L
    <2>1. FullAt' = now + Burst * Interval - (Refilled - Interval)
      BY <1>2 DEF FullAt
    <2>2. NextTurn = FullAt - L /\ NextTurn' = FullAt' - L
      BY DEF NextTurn
    <2>3. FullAt' = Greatest(now, FullAt) + Interval
      BY <1>3, <2>1, Zenon
    <2>4. Greatest(now, FullAt) \in Int
      BY <1>1, <1>3 DEF Greatest
    <2> HIDE DEF L
    <2> QED
      BY <1>3, <2>2, <2>3, <2>4
  <1>s. slot = now + Wait
    OBVIOUS
  <1> HIDE DEF slot, L
  <1>5. slot \in Nat /\ slot = Greatest(now, FullAt - L)
    BY <1>1, <1>3, <1>4, <1>s DEF Greatest
  <1>6. ASSUME NEW t \in Nat, t >= now
        PROVE  NextTurn' - t <= Interval * Cardinality(Since(t)')
    <2> DEFINE c == Cardinality(Since(t))
               owed == Interval * c
    <2>1. /\ c \in Nat
          /\ Cardinality(Since(t)') = IF slot > t - Interval THEN c + 1 ELSE c
      BY <1>1, <1>2, <1>5, SinceAppend
    <2>2. FullAt - L - t <= owed
      BY <1>4, <1>6 DEF Used
    <2> HIDE DEF c
    <2>3. owed \in Nat /\ Interval * (c + 1) = owed + Interval
      BY <1>3, <2>1
    <2> HIDE DEF owed
    <2>4. NextTurn' - t <= IF slot > t - Interval THEN owed + Interval ELSE owed
      BY <1>1, <1>3, <1>4, <1>5, <1>6, <2>2, <2>3 DEF Greatest
    <2> QED
      BY <2>1, <2>3, <2>4 DEF owed
  <1> QED
    BY <1>2, <1>6 DEF Used

\* A thread at the bucket: the only step that touches it.
LEMMA AcquireInv ==
    ASSUME RateGuardAssumption, IInv, NEW r \in Callers, Acquire(r)
    PROVE  IInv'
  <1> DEFINE n == Len(turns)
             slot == now + Wait
             full == Burst * Interval
             me == [caller[r] EXCEPT !.at = "waiting", !.until = slot, !.turn = n + 1]
  <1>1. /\ TypeOK /\ Debt /\ Spaced /\ OwnTurn /\ PauseBounded /\ Barred /\ Used
    BY DEF IInv
  <1>2. /\ now \in Nat /\ updated \in Int /\ updated <= now /\ tokens \in Int
        /\ turns \in Seq(Nat) /\ n \in Nat
        /\ caller \in [Callers -> CallerState]
    BY <1>1 DEF TypeOK
  <1>3. /\ caller[r].at = "paused" /\ caller[r].until <= now
        /\ tokens' = Refilled - Interval /\ updated' = now
        /\ turns' = Append(turns, slot)
        /\ caller' = [caller EXCEPT ![r] = me]
        /\ now' = now /\ pause' = pause /\ left' = left
    BY DEF Acquire
  <1>4. /\ Refilled \in Int /\ Refilled <= full /\ Wait \in Nat
        /\ now + full - (Refilled - Interval) >= FullAt + Interval
        /\ now + full - (Refilled - Interval) >= slot + Interval
        /\ slot >= FullAt - (Burst - 1) * Interval
    BY <1>2, Turn
  <1>s. /\ Interval \in Nat /\ Interval > 0 /\ Burst \in Nat /\ Burst > 0 /\ full \in Int
    BY Sizes
  <1>f. FullAt = updated + full - tokens /\ FullAt' = updated' + full - tokens'
    BY DEF FullAt
  <1>w. slot = now + Wait
    OBVIOUS
  <1>6. /\ turns' \in Seq(Nat) /\ Len(turns') = n + 1 /\ turns'[n + 1] = slot
        /\ \A i \in 1..n : turns'[i] = turns[i] /\ turns[i] \in Nat
    <2>1. slot \in Nat
      BY <1>2, <1>4
    <2>2. turns' = Append(turns, slot)
      BY <1>3
    <2> HIDE DEF slot
    <2>3. turns' \in Seq(Nat) /\ Len(turns') = n + 1 /\ turns'[n + 1] = slot
      BY <1>2, <2>1, <2>2
    <2>4. ASSUME NEW i \in 1..n
          PROVE  turns'[i] = turns[i] /\ turns[i] \in Nat
      BY <1>2, <2>1, <2>2
    <2> QED
      BY <2>3, <2>4
  <1>7. me \in CallerState /\ me.at = "waiting" /\ me.until = slot /\ me.turn = n + 1
        /\ me.barred = caller[r].barred
    <2>1. slot \in Nat /\ n + 1 \in Nat
      BY <1>2, <1>4
    <2> HIDE DEF slot, n
    <2>2. caller[r] \in CallerState
      BY <1>2
    <2> QED
      BY <2>1, <2>2 DEF CallerState
  <1>d. Debt = \A i \in 1..n : FullAt >= turns[i] + (n - i + 1) * Interval
    BY DEF Debt
  <1>p. Spaced = \A j \in 1..n : \A i \in 1..(j - Burst) :
                    turns[j] >= turns[i] + (j - i - Burst + 1) * Interval
    BY DEF Spaced
  <1>t. \A s \in Callers : caller[s].at = "waiting" => caller[s].turn \in 1..n
    BY <1>1 DEF TypeOK
  <1> HIDE DEF me, slot, full, n
  <1>8. \A s \in Callers : caller'[s] = IF s = r THEN me ELSE caller[s]
    BY <1>2, <1>3
  <1>5. /\ slot \in Nat /\ FullAt \in Int
        /\ FullAt' = now + full - (Refilled - Interval)
        /\ FullAt' >= FullAt + Interval /\ FullAt' >= slot + Interval /\ FullAt' \in Int
    BY <1>2, <1>3, <1>4, <1>s, <1>f, <1>w
  <1>9. TypeOK'
    <2>1. caller' \in [Callers -> CallerState]
      BY <1>2, <1>3, <1>7
    <2>2. \A s \in Callers : caller'[s].at = "waiting" => caller'[s].turn \in 1..Len(turns')
      BY <1>2, <1>6, <1>7, <1>8, <1>t
    <2>3. tokens' \in Int /\ tokens' <= Burst * Interval
      BY <1>3, <1>4, <1>s DEF full
    <2>4. now' \in Nat /\ updated' \in 0..now' /\ pause' \in Nat /\ left' \in 0..MaxFetches
      BY <1>1, <1>3 DEF TypeOK
    <2> QED
      BY <1>6, <2>1, <2>2, <2>3, <2>4 DEF TypeOK
  <1>10. Debt'
    <2>1. ASSUME NEW i \in 1..n
          PROVE  FullAt' >= turns'[i] + ((n + 1) - i + 1) * Interval
      <3>1. FullAt >= turns[i] + (n - i + 1) * Interval
        BY <1>1, <1>d
      <3>2. turns'[i] = turns[i] /\ turns[i] \in Int /\ n - i + 1 \in Int
            /\ (n - i + 1) + 1 = (n + 1) - i + 1
        BY <1>2, <1>6
      <3> DEFINE k == n - i + 1
                 g == FullAt'
                 t == turns[i]
      <3>4. k \in Int /\ g \in Int /\ t \in Int /\ FullAt >= t + k * Interval
            /\ g >= FullAt + Interval
        BY <1>5, <3>1, <3>2
      <3> HIDE DEF k, g, t
      <3>5. g >= t + (k + 1) * Interval
        BY <1>5, <1>s, <3>4, OneMore
      <3>3. FullAt' >= turns[i] + ((n - i + 1) + 1) * Interval
        BY <3>5 DEF k, g, t
      <3> QED
        BY <3>2, <3>3
    <2>2. FullAt' >= turns'[n + 1] + ((n + 1) - (n + 1) + 1) * Interval
      <3>1. (n + 1) - (n + 1) + 1 = 1 /\ 1 * Interval = Interval
        BY <1>2, <1>s
      <3> QED
        BY <1>5, <1>6, <3>1
    <2>3. \A i \in 1..(n + 1) : i \in 1..n \/ i = n + 1
      BY <1>2
    <2>4. \A i \in 1..(n + 1) : FullAt' >= turns'[i] + ((n + 1) - i + 1) * Interval
      BY <2>1, <2>2, <2>3, Zenon
    <2> QED
      BY <1>6, <2>4 DEF Debt
  <1>11. Spaced'
    <2>1. ASSUME NEW j \in 1..(n + 1), j = n + 1, NEW i \in 1..(j - Burst)
          PROVE  turns'[j] >= turns'[i] + (j - i - Burst + 1) * Interval
      <3>1. i \in 1..n
        BY <1>2, <1>s, <2>1
      <3>2. FullAt >= turns[i] + (n - i + 1) * Interval
        BY <1>1, <1>d, <3>1
      <3>3. turns'[i] = turns[i] /\ turns[i] \in Int /\ n - i + 1 \in Int /\ Burst - 1 \in Int
            /\ (n - i + 1) - (Burst - 1) = j - i - Burst + 1
        BY <1>2, <1>6, <1>s, <2>1, <3>1
      <3> DEFINE k == n - i + 1
                 b == Burst - 1
                 t == turns[i]
      <3>5. k \in Int /\ b \in Int /\ t \in Int /\ FullAt >= t + k * Interval
            /\ slot >= FullAt - b * Interval
        BY <1>4, <3>2, <3>3
      <3> HIDE DEF k, b, t
      <3>6. slot >= t + (k - b) * Interval
        BY <1>5, <1>s, <3>5, Before
      <3>4. slot >= turns[i] + ((n - i + 1) - (Burst - 1)) * Interval
        BY <3>6 DEF k, b, t
      <3> QED
        BY <1>6, <2>1, <3>3, <3>4
    <2>2. ASSUME NEW j \in 1..n, NEW i \in 1..(j - Burst)
          PROVE  turns'[j] >= turns'[i] + (j - i - Burst + 1) * Interval
      <3>1. i \in 1..n
        BY <1>2, <1>s
      <3>2. turns[j] >= turns[i] + (j - i - Burst + 1) * Interval
        BY <1>1, <1>p
      <3> QED
        BY <1>6, <3>1, <3>2
    <2>4. ASSUME NEW j \in 1..(n + 1), NEW i \in 1..(j - Burst)
          PROVE  turns'[j] >= turns'[i] + (j - i - Burst + 1) * Interval
      <3>1. CASE j = n + 1
        BY <2>1, <3>1
      <3>2. CASE j # n + 1
        <4>1. j \in 1..n
          BY <1>2, <3>2
        <4> QED
          BY <2>2, <4>1
      <3> QED
        BY <3>1, <3>2
    <2> QED
      BY <1>6, <2>4 DEF Spaced
  <1>12. OwnTurn'
    <2>1. ASSUME NEW s \in Callers, caller'[s].at = "waiting"
          PROVE  caller'[s].until = turns'[caller'[s].turn]
      <3>1. CASE s = r
        BY <1>6, <1>7, <1>8, <3>1
      <3>2. CASE s # r
        <4>1. caller'[s] = caller[s] /\ caller[s].turn \in 1..n
          BY <1>8, <1>t, <2>1, <3>2
        <4> QED
          BY <1>1, <1>6, <2>1, <4>1 DEF OwnTurn
      <3> QED
        BY <3>1, <3>2
    <2> QED
      BY <2>1 DEF OwnTurn
  <1>13. PauseBounded'
    BY <1>1, <1>3 DEF PauseBounded
  <1>14. Barred'
    <2>1. caller[r].barred <= caller[r].until /\ caller[r].barred <= pause
      BY <1>1, <1>3 DEF Barred
    <2>2. caller[r].barred \in Nat /\ caller[r].until \in Nat
      BY <1>2 DEF CallerState
    <2>5. caller[r].until <= now /\ now \in Nat /\ now <= slot /\ slot \in Nat
      BY <1>2, <1>3, <1>4, <1>5, <1>w
    <2>3. caller[r].barred <= slot
      BY <2>1, <2>2, <2>5
    <2>4. ASSUME NEW s \in Callers
          PROVE  /\ caller'[s].barred <= pause'
                 /\ caller'[s].at \in {"paused", "waiting"}
                      => caller'[s].barred <= caller'[s].until
      <3>1. CASE s = r
        BY <1>3, <1>7, <1>8, <2>1, <2>3, <3>1
      <3>2. CASE s # r
        BY <1>1, <1>3, <1>8, <3>2 DEF Barred
      <3> QED
        BY <3>1, <3>2
    <2> QED
      BY <2>4 DEF Barred
  <1>15. Used'
    BY <1>1, AcquireUsed
  <1> QED
    BY <1>9, <1>10, <1>11, <1>12, <1>13, <1>14, <1>15 DEF IInv

-----------------------------------------------------------------------------
\* The steps of a thread that leave the bucket and the pause alone
LEMMA ThreadInv ==
    ASSUME RateGuardAssumption, IInv, NEW r \in Callers, NEW c \in CallerState,
           caller' = [caller EXCEPT ![r] = c],
           UNCHANGED <<now, tokens, updated, turns>>,
           pause <= pause', pause' \in Nat, pause' <= now + Pause,
           left' \in 0..MaxFetches,
           c.at = "waiting" => c.turn = caller[r].turn /\ c.until = caller[r].until
                                 /\ caller[r].at = "waiting",
           c.barred <= pause',
           c.at \in {"paused", "waiting"} => c.barred <= c.until
    PROVE  IInv'
  <1>1. /\ TypeOK /\ Debt /\ Spaced /\ OwnTurn /\ PauseBounded /\ Barred /\ Used
    BY DEF IInv
  <1>2. caller \in [Callers -> CallerState]
    BY <1>1 DEF TypeOK
  <1>3. /\ \A s \in Callers : caller'[s] = IF s = r THEN c ELSE caller[s]
        /\ caller' \in [Callers -> CallerState]
    BY <1>2
  <1>4. TypeOK'
    <2>1. \A s \in Callers : caller'[s].at = "waiting" => caller'[s].turn \in 1..Len(turns)
      BY <1>1, <1>3 DEF TypeOK
    <2> QED
      BY <1>1, <1>3, <2>1 DEF TypeOK
  <1>5. Debt' /\ Spaced' /\ Used'
    BY <1>1 DEF Debt, Spaced, Used, NextTurn, Since, FullAt
  <1>6. OwnTurn'
    BY <1>1, <1>3 DEF OwnTurn
  <1>7. PauseBounded'
    BY DEF PauseBounded
  <1>8. Barred'
    <2>1. ASSUME NEW s \in Callers
          PROVE  /\ caller'[s].barred <= pause'
                 /\ caller'[s].at \in {"paused", "waiting"}
                      => caller'[s].barred <= caller'[s].until
      <3>1. CASE s = r
        BY <1>3, <3>1
      <3>2. CASE s # r
        <4>1. caller[s].barred \in Nat /\ caller[s].barred <= pause /\ pause \in Nat
          BY <1>1, <1>2 DEF Barred, TypeOK, CallerState
        <4> QED
          BY <1>1, <1>3, <3>2, <4>1 DEF Barred
      <3> QED
        BY <3>1, <3>2
    <2> QED
      BY <2>1 DEF Barred
  <1> QED
    BY <1>4, <1>5, <1>6, <1>7, <1>8 DEF IInv

\* A thread that retries or gives up is well formed.
LEMMA RetryingType ==
    ASSUME RateGuardAssumption, TypeOK, NEW r \in Callers, NEW b \in Nat
    PROVE  /\ Retrying(r, b) \in CallerState
           /\ Retrying(r, b).at \in {"idle", "trying"}
           /\ Retrying(r, b).barred \in {0, b}
  <1>1. caller[r] \in CallerState /\ now \in Nat /\ MaxRetries \in Nat
    BY DEF TypeOK, RateGuardAssumption
  <1>2. CASE caller[r].attempt = MaxRetries
    BY <1>1, <1>2 DEF Retrying, Idle, CallerState
  <1>3. CASE caller[r].attempt # MaxRetries
    <2> DEFINE k == caller[r].attempt + 1
               u == now + BackoffOf(k)
    <2>1. k \in 0..MaxRetries /\ k > 0 /\ k \in Nat
      BY <1>1, <1>3 DEF CallerState
    <2> HIDE DEF k
    <2>4. BackoffOf(k) \in Nat
      BY <2>1, BackoffType
    <2>2. u \in Nat
      BY <1>1, <2>4
    <2>3. Retrying(r, b) = [caller[r] EXCEPT !.at = "trying", !.attempt = k,
                                             !.until = u, !.barred = b]
      BY <1>3 DEF Retrying, k
    <2> HIDE DEF u
    <2> QED
      BY <1>1, <2>1, <2>2, <2>3 DEF CallerState
  <1> QED
    BY <1>2, <1>3

LEMMA NextInv == RateGuardAssumption /\ IInv /\ [Next]_vars => IInv'
  <1> SUFFICES ASSUME RateGuardAssumption, IInv, [Next]_vars PROVE IInv'
    OBVIOUS
  <1>1. /\ TypeOK /\ Debt /\ Spaced /\ OwnTurn /\ PauseBounded /\ Barred /\ Used
    BY DEF IInv
  <1>2. /\ now \in Nat /\ pause \in Nat /\ pause <= now + Pause /\ left \in 0..MaxFetches
        /\ Pause \in Nat /\ MaxPauseWait \in Nat /\ Pause <= MaxPauseWait
        /\ MaxRetries \in Nat /\ MaxFetches \in Nat
    BY <1>1 DEF TypeOK, PauseBounded, RateGuardAssumption
  <1>3. \A r \in Callers : caller[r] \in CallerState
    BY <1>1 DEF TypeOK
  <1>4. Idle \in CallerState /\ Idle.at = "idle" /\ Idle.barred = 0
    BY <1>2 DEF Idle, CallerState
  <1>5. ASSUME NEW r \in Callers, Fetch(r) PROVE IInv'
    <2> DEFINE c == [Idle EXCEPT !.at = "trying", !.until = now]
    <2>1. c \in CallerState /\ c.at = "trying" /\ c.barred = 0
      BY <1>2, <1>4 DEF CallerState
    <2>2. caller' = [caller EXCEPT ![r] = c] /\ UNCHANGED <<now, tokens, updated, turns>>
      BY <1>5 DEF Fetch
    <2>3. pause' = pause /\ left' \in 0..MaxFetches
      BY <1>2, <1>5 DEF Fetch
    <2>4. pause <= pause' /\ pause' \in Nat /\ pause' <= now + Pause /\ c.barred <= pause'
      BY <1>2, <2>1, <2>3
    <2> HIDE DEF c
    <2> QED
      BY <2>1, <2>2, <2>3, <2>4, ThreadInv
  <1>6. ASSUME NEW r \in Callers, RespectPause(r) PROVE IInv'
    <2> DEFINE u == now + PauseSeen(r)
               c == [caller[r] EXCEPT !.at = "paused", !.until = u]
    <2>1. u \in Nat /\ pause <= u
      BY <1>2 DEF PauseSeen, Least
    <2>2. caller[r] \in CallerState /\ caller[r].barred <= pause /\ caller[r].barred \in Nat
      BY <1>1, <1>3 DEF Barred, CallerState
    <2>3. caller' = [caller EXCEPT ![r] = c] /\ UNCHANGED <<now, tokens, updated, turns>>
          /\ pause' = pause /\ left' = left
      BY <1>6 DEF RespectPause
    <2> HIDE DEF u
    <2>4. c \in CallerState /\ c.at = "paused" /\ c.barred = caller[r].barred /\ c.until = u
      BY <2>1, <2>2 DEF CallerState
    <2> HIDE DEF c
    <2>5. c.barred <= c.until
      BY <1>2, <2>1, <2>2, <2>4
    <2>6. /\ pause <= pause' /\ pause' \in Nat /\ pause' <= now + Pause
          /\ c.barred <= pause' /\ left' \in 0..MaxFetches
      BY <1>2, <2>2, <2>3, <2>4
    <2> QED
      BY <2>3, <2>4, <2>5, <2>6, ThreadInv
  <1>7. ASSUME NEW r \in Callers, Acquire(r) PROVE IInv'
    BY <1>7, AcquireInv
  <1>8. ASSUME NEW r \in Callers, Send(r) PROVE IInv'
    <2> DEFINE c == [caller[r] EXCEPT !.at = "asking", !.until = 0, !.turn = 0]
    <2>1. c \in CallerState /\ c.at = "asking" /\ c.barred = caller[r].barred
      BY <1>3 DEF CallerState
    <2>2. caller' = [caller EXCEPT ![r] = c] /\ UNCHANGED <<now, tokens, updated, turns>>
          /\ pause' = pause /\ left' = left
      BY <1>8 DEF Send
    <2>3. caller[r].barred <= pause
      BY <1>1 DEF Barred
    <2> HIDE DEF c
    <2>4. /\ pause <= pause' /\ pause' \in Nat /\ pause' <= now + Pause
          /\ c.barred <= pause' /\ left' \in 0..MaxFetches
      BY <1>2, <2>1, <2>2, <2>3
    <2> QED
      BY <2>1, <2>2, <2>4, ThreadInv
  <1>9. ASSUME NEW r \in Callers, Settled(r) PROVE IInv'
    <2>1. caller' = [caller EXCEPT ![r] = Idle] /\ UNCHANGED <<now, tokens, updated, turns>>
          /\ pause' = pause /\ left' = left
      BY <1>9 DEF Settled
    <2>2. /\ pause <= pause' /\ pause' \in Nat /\ pause' <= now + Pause
          /\ Idle.barred <= pause' /\ left' \in 0..MaxFetches
      BY <1>2, <1>4, <2>1
    <2> QED
      BY <1>4, <2>1, <2>2, ThreadInv
  <1>10. ASSUME NEW r \in Callers, Throttled(r) PROVE IInv'
    <2>1. pause' \in Nat /\ pause <= pause' /\ pause' <= now + Pause /\ now + Pause <= pause'
      BY <1>2, <1>10 DEF Throttled, Greatest
    <2>2. now + Pause \in Nat
      BY <1>2
    <2>3. /\ Retrying(r, now + Pause) \in CallerState
          /\ Retrying(r, now + Pause).at \in {"idle", "trying"}
          /\ Retrying(r, now + Pause).barred \in {0, now + Pause}
      BY <1>1, <2>2, RetryingType
    <2>4. Retrying(r, now + Pause).barred <= pause'
      BY <1>2, <2>1, <2>3
    <2>5. caller' = [caller EXCEPT ![r] = Retrying(r, now + Pause)]
          /\ UNCHANGED <<now, tokens, updated, turns>> /\ left' = left
      BY <1>10 DEF Throttled
    <2> QED
      BY <1>2, <2>1, <2>3, <2>4, <2>5, ThreadInv
  <1>11. ASSUME NEW r \in Callers, Failed(r) PROVE IInv'
    <2> DEFINE b == caller[r].barred
    <2>1. b \in Nat /\ b <= pause
      BY <1>1, <1>3 DEF Barred, CallerState
    <2>2. caller' = [caller EXCEPT ![r] = Retrying(r, b)]
          /\ UNCHANGED <<now, tokens, updated, turns>> /\ pause' = pause /\ left' = left
      BY <1>11 DEF Failed
    <2> HIDE DEF b
    <2>3. /\ Retrying(r, b) \in CallerState /\ Retrying(r, b).at \in {"idle", "trying"}
          /\ Retrying(r, b).barred \in {0, b}
      BY <1>1, <2>1, RetryingType
    <2>4. /\ pause <= pause' /\ pause' \in Nat /\ pause' <= now + Pause
          /\ Retrying(r, b).barred <= pause' /\ left' \in 0..MaxFetches
      BY <1>2, <2>1, <2>2, <2>3
    <2> QED
      BY <2>2, <2>3, <2>4, ThreadInv
  <1>12. ASSUME Tick PROVE IInv'
    <2>1. now' = now + 1 /\ UNCHANGED <<tokens, updated, pause, caller, turns, left>>
      BY <1>12 DEF Tick
    <2>2. TypeOK'
      BY <1>1, <2>1 DEF TypeOK
    <2>3. Debt' /\ Spaced' /\ OwnTurn' /\ Barred'
      BY <1>1, <2>1 DEF Debt, Spaced, FullAt, OwnTurn, Barred
    <2>4. PauseBounded'
      BY <1>2, <2>1 DEF PauseBounded
    <2>5. Used'
      <3>1. ASSUME NEW t \in Nat, t >= now'
            PROVE  NextTurn' - t <= Interval * Cardinality(Since(t)')
        <4>1. t >= now
          BY <1>2, <2>1, <3>1
        <4>2. NextTurn' = NextTurn /\ Since(t)' = Since(t)
          BY <2>1 DEF NextTurn, FullAt, Since
        <4> QED
          BY <1>1, <4>1, <4>2 DEF Used
      <3> QED
        BY <3>1 DEF Used
    <2> QED
      BY <2>2, <2>3, <2>4, <2>5 DEF IInv
  <1>13. CASE UNCHANGED vars
    BY <1>1, <1>13 DEF vars, IInv, TypeOK, Debt, Spaced, FullAt, OwnTurn, PauseBounded, Barred,
                       Used, NextTurn, Since
  <1> QED
    BY <1>5, <1>6, <1>7, <1>8, <1>9, <1>10, <1>11, <1>12, <1>13 DEF Next

LEMMA Invariant == ASSUME RateGuardAssumption PROVE Spec => []IInv
  <1>1. Init => IInv
    BY InitInv
  <1>2. IInv /\ [Next]_vars => IInv'
    BY NextInv
  <1> QED
    BY <1>1, <1>2, PTL DEF Spec

\* The state is well typed: no thread makes more than MaxRetries retries, and the bucket
\* never holds more than Burst tokens.
THEOREM TypeCorrect == ASSUME RateGuardAssumption PROVE Spec => []TypeOK
  <1>1. IInv => TypeOK
    BY DEF IInv
  <1> QED
    BY <1>1, Invariant, PTL

-----------------------------------------------------------------------------
\* What a thread that sends has waited for
LEMMA SendStep ==
    ASSUME RateGuardAssumption, IInv, NEW r \in Callers, [Next]_vars, Sends(r)
    PROVE  /\ caller[r].until <= now /\ caller[r].at = "waiting"
           /\ now \in Nat /\ caller[r] \in CallerState
  <1>1. caller \in [Callers -> CallerState] /\ now \in Nat
    BY DEF IInv, TypeOK
  <1>2. caller[r].at = "waiting" /\ caller'[r].at = "asking"
    BY DEF Sends
  <1>3. ASSUME NEW s \in Callers,
               Fetch(s) \/ RespectPause(s) \/ Acquire(s) \/ Settled(s)
        PROVE  FALSE
    BY <1>1, <1>2, <1>3
       DEF Fetch, RespectPause, Acquire, Settled, Idle, CallerState
  <1>4. ASSUME NEW s \in Callers, Throttled(s) \/ Failed(s) PROVE FALSE
    <2>1. PICK b \in Nat : caller' = [caller EXCEPT ![s] = Retrying(s, b)]
      BY <1>1, <1>4 DEF Throttled, Failed, CallerState, RateGuardAssumption
    <2>2. Retrying(s, b).at # "asking"
      BY RetryingType DEF IInv
    <2> QED
      BY <1>1, <1>2, <2>1, <2>2
  <1>5. ASSUME NEW s \in Callers, Send(s) PROVE caller[r].until <= now
    <2>1. s = r
      BY <1>1, <1>2, <1>5 DEF Send
    <2> QED
      BY <1>5, <2>1 DEF Send
  <1>6. ~Tick /\ ~UNCHANGED vars
    BY <1>2 DEF Tick, vars
  <1> QED
    BY <1>1, <1>2, <1>3, <1>4, <1>5, <1>6 DEF Next

\* The gateway keeps its pace whatever the number of threads and whatever the burst: no
\* request leaves in the time of the turns before its own.
THEOREM KeepsPace == ASSUME RateGuardAssumption PROVE Spec => Paced
  <1>1. ASSUME IInv, [Next]_vars, NEW r \in Callers, Sends(r),
               NEW i \in 1..(caller[r].turn - Burst)
        PROVE  now >= turns[i] + (caller[r].turn - i - Burst + 1) * Interval
    <2> DEFINE j == caller[r].turn
    <2>1. caller[r].until <= now /\ caller[r].at = "waiting"
      BY <1>1, SendStep
    <2>2. j \in 1..Len(turns) /\ caller[r].until = turns[j]
      BY <1>1, <2>1 DEF IInv, TypeOK, OwnTurn
    <2>3. turns[j] >= turns[i] + (j - i - Burst + 1) * Interval
      BY <1>1, <2>2 DEF IInv, Spaced
    <2>4. /\ turns[j] \in Int /\ turns[i] \in Int /\ now \in Int
          /\ (j - i - Burst + 1) * Interval \in Int
      <3>1. turns \in Seq(Nat) /\ now \in Nat
        BY <1>1 DEF IInv, TypeOK
      <3>4. Len(turns) \in Nat
        BY <3>1
      <3>5. i \in 1..(j - Burst)
        OBVIOUS
      <3> HIDE DEF j
      <3>6. Burst \in Nat /\ Burst > 0 /\ Interval \in Int /\ j \in 1..Len(turns)
        BY <2>2, Sizes
      <3>2. i \in 1..Len(turns) /\ j - i - Burst + 1 \in Int /\ Interval \in Int
        BY <3>4, <3>5, <3>6
      <3>3. (j - i - Burst + 1) * Interval \in Int
        BY <3>2
      <3>7. turns[j] \in Nat /\ turns[i] \in Nat
        BY <3>1, <3>2, <3>6
      <3> QED
        BY <3>1, <3>3, <3>7
    <2> DEFINE d == (j - i - Burst + 1) * Interval
    <2>5. turns[j] <= now /\ turns[j] >= turns[i] + d /\ d \in Int
      BY <2>1, <2>2, <2>3, <2>4
    <2> HIDE DEF d, j
    <2>6. now >= turns[i] + d
      BY <2>4, <2>5
    <2> QED
      BY <2>6 DEF d, j
  <1>2. IInv /\ [Next]_vars
          => [\A r \in Callers : Sends(r) =>
                 \A i \in 1..(caller[r].turn - Burst) :
                     now >= turns[i] + (caller[r].turn - i - Burst + 1) * Interval]_vars
    BY <1>1
  <1> QED
    BY <1>2, Invariant, PTL DEF Spec, Paced

\* No thread asks again before the pause it caused is over.
THEOREM WaitsOutItsPause == ASSUME RateGuardAssumption PROVE Spec => OwnPauseWaited
  <1>1. ASSUME IInv, [Next]_vars, NEW r \in Callers, Sends(r)
        PROVE  now >= caller[r].barred
    <2>1. /\ caller[r].until <= now /\ caller[r].at = "waiting" /\ now \in Nat
          /\ caller[r].until \in Nat /\ caller[r].barred \in Nat
      BY <1>1, SendStep DEF CallerState
    <2>2. caller[r].barred <= caller[r].until
      BY <1>1, <2>1 DEF IInv, Barred
    <2> QED
      BY <2>1, <2>2
  <1>2. IInv /\ [Next]_vars
          => [\A r \in Callers : Sends(r) => now >= caller[r].barred]_vars
    BY <1>1
  <1> QED
    BY <1>2, Invariant, PTL DEF Spec, OwnPauseWaited

\* Nothing is wasted either: whoever comes now waits an interval at most for each turn
\* given for the last interval or for later.
THEOREM WastesNothing == ASSUME RateGuardAssumption PROVE Spec => []NothingWasted
  <1>1. ASSUME IInv PROVE NothingWasted
    <2> DEFINE c == Cardinality(Since(now))
    <2>1. /\ now \in Nat /\ updated \in Int /\ updated <= now /\ tokens \in Int
          /\ turns \in Seq(Nat)
      BY <1>1 DEF IInv, TypeOK
    <2>2. c \in Nat
      <3>1. Len(turns) \in Nat /\ Since(now) \subseteq 1..Len(turns)
        BY <2>1 DEF Since
      <3>2. IsFiniteSet(1..Len(turns))
        BY <3>1, FS_Interval
      <3> QED
        BY <3>1, <3>2, FS_Subset, FS_CardinalityType
    <2>3. Interval \in Nat /\ NextTurn \in Int /\ Wait = Greatest(0, NextTurn - now)
      BY <2>1, Due, Sizes
    <2>4. NextTurn - now <= Interval * c
      BY <1>1, <2>1 DEF IInv, Used
    <2> HIDE DEF c
    <2>5. Interval * c \in Nat
      BY <2>2, <2>3
    <2>6. Wait <= Interval * c
      BY <2>1, <2>3, <2>4, <2>5 DEF Greatest
    <2> QED
      BY <2>6 DEF c, Since, NothingWasted
  <1> QED
    BY <1>1, Invariant, PTL
=============================================================================
