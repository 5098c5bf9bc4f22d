------------------------------ MODULE Digests ------------------------------
(***************************************************************************)
(* What one user is told about one family of events at one destination:    *)
(* the sessions that produce notifications, the user who edits the         *)
(* subscription, and the schedulers that make digests of what is past.     *)
(*                                                                         *)
(* created_at and updated_at are the instant a transaction begins, ids are *)
(* drawn when a row is inserted, and others see it when it commits: three  *)
(* orders that need not agree. An instant is the number of transactions    *)
(* begun so far; a day is the instant of its midnight, user's time.        *)
(***************************************************************************)
EXTENDS Integers, Sequences, FiniteSets

CONSTANTS
    Keys,       \* what there is to notify about: logical key and source version
    Producers,  \* sessions that produce notifications
    Replicas,   \* schedulers, one per API process
    Week,       \* days in a week
    Straddling, \* may a transaction that inserts a notification span midnight?
    SlowEdits,  \* may notifications be produced while an edit is being written?
    MaxDays,    \* bound: midnights
    MaxBegun    \* bound: transactions that produce or edit

ASSUME DigestsAssumption ==
    /\ Week \in Nat \ {0}
    /\ {Straddling, SlowEdits} \subseteq BOOLEAN
    /\ {MaxDays, MaxBegun} \subseteq Nat

VARIABLES
    clock,      \* the next instant
    midnights,  \* the midnights that have passed
    morning,    \* has it been eight o'clock since the last of them?
    nextId,     \* the sequence ids are drawn from
    note,       \* the notification of each key
    prod,       \* the producers' transactions
    sub,        \* the subscription as committed
    edit,       \* the subscription as a user is about to commit it
    latest,     \* the last id covered by the latest digest of each frequency
    made,       \* the digests: frequency, period and last id covered
    rep         \* the schedulers

vars == <<clock, midnights, morning, nextId, note, prod, sub, edit, latest, made, rep>>
time == <<clock, midnights, morning>>
digests == <<latest, made, rep>>

DigestFrequencies == {"daily", "weekly"}
Frequencies == DigestFrequencies \cup {"immediate", "off"}
NoKey == "no key"

\* told: how often the notification, or a digest of it, is queued for the destination.
Note == [at : {"none", "written", "stored"}, created : Nat, id : Nat, told : Nat]
NoNote == [at |-> "none", created |-> 0, id |-> 0, told |-> 0]

Tx == [at : {"idle", "begun", "written"}, began : Nat, key : Keys \cup {NoKey},
       queued : 0..1]
NoTx == [at |-> "idle", began |-> 0, key |-> NoKey, queued |-> 0]

Subscription == [frequency : Frequencies, updated : Nat]
NoEdit == [frequency |-> "off", updated |-> 0]

\* end: the day whose midnight ends the period.
Replica == [end : Nat, frequency : DigestFrequencies \cup {"off"}, sources : SUBSET Keys]
Asleep == [end |-> 0, frequency |-> "off", sources |-> {}]

TypeOK ==
    /\ clock \in Nat \ {0} /\ morning \in BOOLEAN /\ nextId \in Nat \ {0}
    /\ midnights \in Seq(1..clock)
    /\ note \in [Keys -> Note]
    /\ prod \in [Producers -> Tx]
    /\ {sub, edit} \subseteq Subscription
    /\ latest \in [DigestFrequencies -> 0..(nextId - 1)]
    /\ made \subseteq [frequency : DigestFrequencies, day : 0..Len(midnights),
                       through : 1..(nextId - 1)]
    /\ rep \in [Replicas -> Replica]

Init ==
    /\ clock = 1 /\ midnights = <<>> /\ morning = TRUE /\ nextId = 1
    /\ note = [k \in Keys |-> NoNote]
    /\ prod = [p \in Producers |-> NoTx]
    /\ sub \in [frequency : Frequencies \ {"off"}, updated : {0}]
    /\ edit = NoEdit
    /\ latest = [f \in DigestFrequencies |-> 0]
    /\ made = {}
    /\ rep = [r \in Replicas |-> Asleep]

Day == Len(midnights)
Editing == edit # NoEdit

\* A transaction begins.
Instant == clock <= MaxBegun /\ clock' = clock + 1 /\ UNCHANGED <<midnights, morning>>

-----------------------------------------------------------------------------
(* produce_notification, in a transaction its caller may have begun long    *)
(* before: the advisory lock of the key, the look-up, the row, the attempts *)
(* of the subscriptions that are immediate now.                             *)

Begin(p) ==
    /\ prod[p].at = "idle"
    /\ SlowEdits \/ ~Editing
    /\ \E k \in Keys : note[k].at = "none"
    /\ Instant
    /\ prod' = [prod EXCEPT ![p] = [NoTx EXCEPT !.at = "begun", !.began = clock]]
    /\ UNCHANGED <<nextId, note, sub, edit, digests>>

LockedKeys == {prod[p].key : p \in Producers}

Write(p, k) ==
    /\ prod[p].at = "begun"
    /\ k \notin LockedKeys /\ note[k].at = "none"
    /\ note' = [note EXCEPT ![k] = [at |-> "written", created |-> prod[p].began,
                                    id |-> nextId, told |-> 0]]
    /\ nextId' = nextId + 1
    /\ prod' = [prod EXCEPT ![p] = [@ EXCEPT
                  !.at = "written", !.key = k,
                  !.queued = IF sub.frequency = "immediate" THEN 1 ELSE 0]]
    /\ UNCHANGED <<time, sub, edit, digests>>

Store(p) ==
    /\ prod[p].at = "written"
    /\ note' = [note EXCEPT ![prod[p].key] = [@ EXCEPT !.at = "stored",
                                                       !.told = prod[p].queued]]
    /\ prod' = [prod EXCEPT ![p] = NoTx]
    /\ UNCHANGED <<time, nextId, sub, edit, digests>>

\* Nothing to produce, an error, or a crash: what was written is gone, but not its id.
RollBack(p) ==
    /\ prod[p].at # "idle"
    /\ note' = IF prod[p].at = "written" THEN [note EXCEPT ![prod[p].key] = NoNote] ELSE note
    /\ prod' = [prod EXCEPT ![p] = NoTx]
    /\ UNCHANGED <<time, nextId, sub, edit, digests>>

-----------------------------------------------------------------------------
(* upsert_subscription under the advisory lock of user and family. Whatever *)
(* column changes, updated_at becomes the instant the edit began; so it does *)
(* when the edit of a sibling destination copies its thresholds here.       *)
BeginEdit(f) ==
    /\ ~Editing
    /\ SlowEdits \/ \A p \in Producers : prod[p].at = "idle"
    /\ Instant
    /\ edit' = [frequency |-> f, updated |-> clock]
    /\ UNCHANGED <<nextId, note, prod, sub, digests>>

CommitEdit ==
    /\ Editing
    /\ sub' = edit
    /\ edit' = NoEdit
    /\ UNCHANGED <<time, nextId, note, prod, digests>>

-----------------------------------------------------------------------------
(* materialize_scheduled_digests, by the time its caller's batch began,      *)
(* which is less than eight hours ago.                                      *)

Now == [day |-> Day, morning |-> morning]
Before == IF morning THEN [day |-> Day, morning |-> FALSE]
          ELSE [day |-> Day - 1, morning |-> TRUE]

\* _scheduled_digest_window: a period ends at midnight, and is digested from eight
\* o'clock on.
PeriodEnd(f, asof) == IF f = "daily" THEN asof.day ELSE asof.day - (asof.day % Week)

\* Mutant: only on the days that follow.
EligibleLater(f, asof) == PeriodEnd(f, asof) < asof.day

Eligible(f, asof) == PeriodEnd(f, asof) < asof.day \/ asof.morning
Midnight(d) == IF d = 0 THEN 0 ELSE midnights[d]

\* Mutant: what happened before the subscription was edited counts as well.
SourcesSinceEver(end) ==
    {k \in Keys : /\ note[k].at = "stored"
                  /\ note[k].id > latest[sub.frequency]
                  /\ note[k].created < Midnight(end)}

Sources(end) ==
    {k \in Keys : /\ note[k].at = "stored"
                  /\ note[k].id > latest[sub.frequency]
                  /\ note[k].created >= sub.updated
                  /\ note[k].created < Midnight(end)}

\* Mutant: the query does not ask for a digest's frequency.
CollectAny(r, asof) ==
    LET end == PeriodEnd(sub.frequency, asof) IN
    /\ rep[r] = Asleep
    /\ Eligible(sub.frequency, asof)
    /\ rep' = [rep EXCEPT ![r] = [end |-> end, frequency |-> sub.frequency, sources |-> {}]]
    /\ UNCHANGED <<time, nextId, note, prod, sub, edit, latest, made>>

(* The subscription, its latest digest and the sources since then. An edit   *)
(* between these reads is as one after them: what it would change about the *)
(* sources has been stored for hours.                                       *)
Collect(r, asof) ==
    LET end == PeriodEnd(sub.frequency, asof) IN
    /\ rep[r] = Asleep
    /\ sub.frequency \in DigestFrequencies /\ Eligible(sub.frequency, asof)
    /\ Sources(end) # {}
    /\ rep' = [rep EXCEPT ![r] = [end |-> end, frequency |-> sub.frequency,
                                  sources |-> Sources(end)]]
    /\ UNCHANGED <<time, nextId, note, prod, sub, edit, latest, made>>

\* Mutant: the last id there is, instead of the last one covered.
ThroughLast(r) == nextId - 1

Through(r) == CHOOSE i \in {note[k].id : k \in rep[r].sources} :
                 \A k \in rep[r].sources : note[k].id <= i

\* The advisory lock of the period, the look-up, the digest and its attempt.
Digest(r) ==
    LET f == rep[r].frequency
        d == [frequency |-> f, day |-> rep[r].end, through |-> Through(r)]
    IN /\ rep[r] # Asleep
       /\ \/ /\ d \notin made
             /\ made' = made \cup {d}
             /\ latest' = [latest EXCEPT ![f] = Through(r)]
             /\ note' = [k \in Keys |-> IF k \in rep[r].sources
                                        THEN [note[k] EXCEPT !.told = @ + 1] ELSE note[k]]
          \/ /\ d \in made
             /\ UNCHANGED <<made, latest, note>>
       /\ rep' = [rep EXCEPT ![r] = Asleep]
       /\ UNCHANGED <<time, nextId, prod, sub, edit>>

-----------------------------------------------------------------------------
(* Time. No scheduler or edit transaction spans midnight or eight o'clock,  *)
(* though its batch may have begun before; a producer's may span midnight   *)
(* if Straddling. Neither takes eight hours.                                *)
AllAsleep == \A r \in Replicas : rep[r] = Asleep

MidnightStrikes ==
    /\ morning /\ Day < MaxDays
    /\ AllAsleep /\ ~Editing
    /\ Straddling \/ \A p \in Producers : prod[p].at = "idle"
    /\ midnights' = Append(midnights, clock)
    /\ morning' = FALSE
    /\ UNCHANGED <<clock, nextId, note, prod, sub, edit, digests>>

EightOClock ==
    /\ ~morning
    /\ AllAsleep /\ ~Editing
    /\ \A p \in Producers : prod[p].at # "idle" => prod[p].began >= Midnight(Day)
    /\ morning' = TRUE
    /\ UNCHANGED <<clock, midnights, nextId, note, prod, sub, edit, digests>>

-----------------------------------------------------------------------------
Produce(p) == Begin(p) \/ (\E k \in Keys : Write(p, k)) \/ Store(p) \/ RollBack(p)

Schedule(r) == (\E asof \in {Before, Now} : Collect(r, asof)) \/ Digest(r)

Next ==
    \/ \E p \in Producers : Produce(p)
    \/ (\E f \in Frequencies : BeginEdit(f)) \/ CommitEdit
    \/ \E r \in Replicas : Schedule(r)
    \/ MidnightStrikes \/ EightOClock

Spec == Init /\ [][Next]_vars

\* Schedulers run again and again, transactions end, and the morning comes.
Fairness ==
    /\ WF_vars(EightOClock) /\ WF_vars(CommitEdit)
    /\ \A p \in Producers : WF_vars(Store(p) \/ RollBack(p))
    /\ \A r \in Replicas : WF_vars(Collect(r, Now)) /\ WF_vars(Digest(r))

FairSpec == Spec /\ Fairness

-----------------------------------------------------------------------------
\* Stored, wanted in a digest by the subscription as it is, and in none yet.
Untold(k) ==
    /\ note[k].at = "stored" /\ note[k].told = 0
    /\ sub.frequency \in DigestFrequencies
    /\ note[k].created >= sub.updated

\* A user is told once of what happened: not at once and again in a digest, not in two
\* digests of one or of two frequencies, whichever schedulers race and whatever edits
\* come in between. "Replays are idempotent".
ToldOnce == \A k \in Keys : note[k].told <= 1

\* "The next due digest catches up source events since the last digest": what is still
\* untold is still within reach of the next digest.
WithinReach == \A k \in Keys : Untold(k) => note[k].id > latest[sub.frequency]

\* The period of a frequency ends at some midnights only.
PeriodEnded(k) ==
    \E d \in 1..Day : /\ sub.frequency = "daily" \/ d % Week = 0
                      /\ note[k].created < midnights[d]

\* "so scheduler downtime does not silently discard them": when its period is over, what
\* is untold is told in the end, unless the user edits the subscription before.
CaughtUp ==
    \A k \in Keys :
        Untold(k) /\ PeriodEnded(k) ~> note[k].told > 0 \/ note[k].created < sub.updated
=============================================================================
