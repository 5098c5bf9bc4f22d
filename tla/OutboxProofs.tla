---------------------------- MODULE OutboxProofs ----------------------------
(***************************************************************************)
(* Proofs about Outbox, for any number of workers, attempts, destinations  *)
(* and events, and batches of any length: the types, that a lease is       *)
(* exclusive, that no attempt is accepted twice, and that no rotation      *)
(* brings an old secret back.                                              *)
(***************************************************************************)
EXTENDS Outbox, TLAPS

Holds(w) == wk[w].at \in {"sending", "answered"}

\* An attempt that waits has retries left,
RetriesLeft == \A a \in Attempts : att[a].status \in Waiting => att[a].count < MaxAttempts

\* one that is locked waits, and is locked by one worker,
PickedWaits ==
    \A w \in Workers : wk[w].at = "picked"
        => wk[w].on \in Attempts /\ att[wk[w].on].status \in Waiting
PickedAlone ==
    \A v, w \in Workers :
        wk[v].at = "picked" /\ wk[w].at = "picked" /\ wk[v].on = wk[w].on => v = w

\* and one that is being sent is leased, or given up by an earlier clock.
HeldLeased ==
    \A w \in Workers : Holds(w)
        => /\ wk[w].on \in Attempts
           /\ att[wk[w].on].status \in {"leased", "permanent_failure"}
           /\ att[wk[w].on].count > 0

HeldAlone == \A v, w \in Workers : Holds(v) /\ Holds(w) /\ wk[v].on = wk[w].on => v = w

Leases == RetriesLeft /\ PickedWaits /\ PickedAlone /\ HeldLeased /\ HeldAlone
LInv == TypeOK /\ Leases

-----------------------------------------------------------------------------
LEMMA Parameters ==
    /\ To \in [Attempts -> Destinations]
    /\ MaxAttempts \in Nat /\ MaxAttempts > 0
    /\ Lease \in Nat /\ Deferral \in Nat /\ MaxLag \in Nat /\ MaxEvents \in Nat
BY OutboxAssumption DEF OutboxAssumption

LEMMA PowerOfTwo == ASSUME NEW n \in Nat, n > 0 PROVE Backoff(n) \in Int
<1>1. n - 1 \in Nat
  OBVIOUS
<1>2. \A k \in Nat : 2 ^ k \in Int
  OBVIOUS
<1>. QED
  BY <1>1, <1>2 DEF Backoff

\* Steps that give attempts back, and take none, keep the leases.
LEMMA LeasesKept ==
    ASSUME Leases, att' = att,
           \A w \in Workers : wk'[w] = wk[w] \/ wk'[w].at \in {"idle", "started", "ready"}
    PROVE  Leases'
<1>1. \A w \in Workers : wk'[w].at \in {"picked", "sending", "answered"} => wk'[w] = wk[w]
  OBVIOUS
<1>2. \A w \in Workers : Holds(w)' => Holds(w) /\ wk'[w] = wk[w]
  BY <1>1 DEF Holds
<1>3. RetriesLeft'
  BY DEF Leases, RetriesLeft
<1>4. PickedWaits'
  BY <1>1 DEF Leases, PickedWaits
<1>5. PickedAlone'
  BY <1>1 DEF Leases, PickedAlone
<1>6. HeldLeased'
  BY <1>2 DEF Leases, HeldLeased
<1>7. HeldAlone'
  BY <1>2 DEF Leases, HeldAlone
<1>. QED
  BY <1>3, <1>4, <1>5, <1>6, <1>7 DEF Leases

-----------------------------------------------------------------------------
(* Types.                                                                   *)

AttOK == att \in [Attempts -> Attempt]
WkOK == wk \in [Workers -> WorkerState]
DstOK ==
    /\ dst \in [Destinations -> Destination]
    /\ sub \subseteq Destinations
    /\ given \in [Destinations -> Nat]
    /\ tx \in [Clients -> TxState]
    /\ rot \in [at : {"idle", "running", "stale"}, rows : SUBSET Destinations,
                read : [Destinations -> Destination]]
    /\ key \in Nat

LEMMA TypeParts ==
    TypeOK <=> AttOK /\ WkOK /\ DstOK /\ accepted \in [Attempts -> Nat] /\ left \in 0..MaxEvents
BY DEF TypeOK, AttOK, WkOK, DstOK

LEMMA BecameOK ==
    ASSUME AttOK, NEW a \in Attempts, NEW s \in {"retry_scheduled"} \cup Final
    PROVE  Became(a, s) \in Attempt
<1>1. att[a] \in Attempt
  BY DEF AttOK
<1>2. Became(a, s) = [status |-> s, count |-> att[a].count, due |-> 0, lease |-> 0]
  BY <1>1 DEF Became, Attempt
<1>3. att[a].count \in 0..MaxAttempts
  BY <1>1 DEF Attempt
<1>. QED
  BY <1>2, <1>3 DEF Attempt, Final, Waiting

LEMMA DestinationOK ==
    ASSUME NEW r, r.status \in {"pending_verification", "enabled", "revoked", "configuration_blocked"},
           r.secret \in Nat, r.key \in Nat, r.challenge \in BOOLEAN,
           r = [status |-> r.status, secret |-> r.secret, key |-> r.key, challenge |-> r.challenge]
    PROVE  r \in Destination
BY DEF Destination

LEMMA IntendedOK ==
    ASSUME DstOK, NEW d \in Destinations, NEW r \in Destination,
           NEW op \in {"update", "revoke", "verify"}
    PROVE  Intended(op, d, r) \in Destination
<1>1. given[d] + 1 \in Nat /\ key \in Nat
  BY DEF DstOK
<1>. QED
  BY <1>1 DEF Intended, Destination

LEMMA WrittenOK ==
    ASSUME NEW new \in Destination, NEW old \in Destination, NEW now \in Destination
    PROVE  Written(new, old, now) \in Destination
<1>1. DOMAIN now = {"status", "secret", "key", "challenge"}
  BY DEF Destination
<1>2. \A c \in DOMAIN now : Written(new, old, now)[c] \in {new[c], now[c]}
  BY DEF Written
<1>3. /\ Written(new, old, now).status \in {new.status, now.status}
      /\ Written(new, old, now).secret \in {new.secret, now.secret}
      /\ Written(new, old, now).key \in {new.key, now.key}
      /\ Written(new, old, now).challenge \in {new.challenge, now.challenge}
  BY <1>1, <1>2
<1>4. Written(new, old, now) = [status |-> Written(new, old, now).status,
                                secret |-> Written(new, old, now).secret,
                                key |-> Written(new, old, now).key,
                                challenge |-> Written(new, old, now).challenge]
  BY <1>1 DEF Written
<1>. QED
  BY <1>3, <1>4, DestinationOK DEF Destination

LEMMA DeliveryTypes ==
    ASSUME LInv, NEW w \in Workers, Deliver(w) \/ Crash(w)
    PROVE  TypeOK'
<1>0. ASSUME AttOK', WkOK', DstOK',
             accepted' \in [Attempts -> Nat], left' \in 0..MaxEvents
      PROVE  TypeOK'
  BY <1>0 DEF TypeOK, AttOK, WkOK, DstOK
<1>1. /\ AttOK /\ WkOK /\ DstOK
      /\ accepted \in [Attempts -> Nat] /\ left \in 0..MaxEvents
      /\ MaxEvents \in Nat
  BY TypeParts, Parameters DEF LInv
<1>2. wk[w] \in WorkerState /\ wk[w].lag \in 0..MaxLag /\ wk[w].lag \in Int /\ Off \in WorkerState
  BY <1>1, Parameters DEF WkOK, WorkerState, Off
<1>3. Continue(w) \in WorkerState
  BY <1>2 DEF Continue, Off, WorkerState
<1>4. UNCHANGED secrets => DstOK'
  BY <1>1 DEF DstOK, secrets
<1>5. ASSUME NEW r \in WorkerState, wk' = [wk EXCEPT ![w] = r] PROVE WkOK'
  BY <1>1, <1>5 DEF WkOK
<1>6. ASSUME NEW a \in Attempts, NEW r \in Attempt, att' = [att EXCEPT ![a] = r] PROVE AttOK'
  BY <1>1, <1>6 DEF AttOK
<1>7. Holds(w) \/ wk[w].at = "picked" => wk[w].on \in Attempts
  BY DEF LInv, Leases, PickedWaits, HeldLeased
<1>8. CASE StartBatch(w)
  <2>1. [Off EXCEPT !.at = "started"] \in WorkerState
    BY <1>2 DEF WorkerState
  <2>. QED
    BY <1>1, <1>4, <1>5, <1>8, <2>1, <1>0 DEF StartBatch, AttOK
<1>9. CASE Expire(w)
  <2>1. [wk[w] EXCEPT !.at = "ready"] \in WorkerState
    BY <1>2 DEF WorkerState
  <2>2. WkOK'
    BY <1>5, <1>9, <2>1 DEF Expire
  <2>3. \A a \in Attempts : GiveUp(a) \in Attempt /\ att[a] \in Attempt
    BY <1>1, BecameOK DEF GiveUp, Final, AttOK
  <2>4. AttOK'
    BY <1>9, <2>3 DEF Expire, AttOK
  <2>. QED
    BY <1>1, <1>4, <1>9, <2>2, <2>4, <1>0 DEF Expire
<1>10. CASE EndBatch(w)
  BY <1>1, <1>2, <1>4, <1>5, <1>10, <1>0 DEF EndBatch, AttOK
<1>11. CASE \E a \in Attempts : Pick(w, a)
  <2>1. PICK a \in Attempts : Pick(w, a)
    BY <1>11
  <2>2. \A e, s, r \in BOOLEAN :
          [wk[w] EXCEPT !.at = "picked", !.on = a, !.enabled = e,
                        !.subscribed = s, !.readable = r] \in WorkerState
    BY <1>2 DEF WorkerState
  <2>. DEFINE e == dst[To[a]].status = "enabled"
              s == To[a] \in sub
              r == Readable(dst[To[a]])
  <2>3. e \in BOOLEAN /\ s \in BOOLEAN /\ r \in BOOLEAN
    BY DEF Readable
  <2>4. wk' = [wk EXCEPT ![w] = [wk[w] EXCEPT !.at = "picked", !.on = a, !.enabled = e,
                                              !.subscribed = s, !.readable = r]]
    BY <2>1 DEF Pick
  <2>. HIDE DEF e, s, r
  <2>5. WkOK'
    BY <1>5, <2>2, <2>3, <2>4
  <2>. QED
    BY <1>1, <1>4, <2>1, <2>5, <1>0 DEF Pick, AttOK
<1>12. CASE Block(w)
  <2>1. AttOK'
    BY <1>1, <1>6, <1>7, <1>12, BecameOK DEF Block, Final
  <2>. QED
    BY <1>1, <1>3, <1>4, <1>5, <1>12, <2>1, <1>0 DEF Block
<1>13. CASE Defer(w)
  <2>1. Deferral - wk[w].lag \in Int /\ att[wk[w].on] \in Attempt
    BY <1>1, <1>2, <1>7, <1>13, Parameters DEF Defer, AttOK
  <2>2. [att[wk[w].on] EXCEPT !.due = Deferral - wk[w].lag] \in Attempt
    BY <2>1 DEF Attempt
  <2>3. AttOK'
    BY <1>6, <1>7, <1>13, <2>2 DEF Defer
  <2>. QED
    BY <1>1, <1>3, <1>4, <1>5, <1>13, <2>3, <1>0 DEF Defer
<1>14. CASE BlockUnreadable(w)
  <2>1. AttOK'
    BY <1>1, <1>6, <1>7, <1>14, BecameOK DEF BlockUnreadable, Final
  <2>2. To[wk[w].on] \in Destinations /\ dst[To[wk[w].on]] \in Destination
    BY <1>1, <1>7, <1>14, Parameters DEF BlockUnreadable, DstOK
  <2>3. [dst[To[wk[w].on]] EXCEPT !.status = "configuration_blocked"] \in Destination
    BY <2>2 DEF Destination
  <2>4. DstOK'
    BY <1>1, <1>14, <2>2, <2>3 DEF BlockUnreadable, DstOK
  <2>. QED
    BY <1>1, <1>3, <1>5, <1>14, <2>1, <2>4, <1>0 DEF BlockUnreadable
<1>15. CASE TakeLease(w)
  <2>. DEFINE a == wk[w].on
  <2>1. a \in Attempts /\ att[a] \in Attempt /\ att[a].count < MaxAttempts
    BY <1>1, <1>7, <1>15 DEF TakeLease, AttOK, LInv, Leases, RetriesLeft, PickedWaits
  <2>2. att[a].count + 1 \in 0..MaxAttempts /\ Lease - wk[w].lag \in Int /\ att[a].due \in Int
    BY <1>2, <2>1, Parameters DEF Attempt
  <2>3. [status |-> "leased", count |-> att[a].count + 1,
         due |-> att[a].due, lease |-> Lease - wk[w].lag] \in Attempt
    BY <2>2 DEF Attempt
  <2>4. AttOK'
    BY <1>6, <1>15, <2>1, <2>3 DEF TakeLease
  <2>5. [wk[w] EXCEPT !.at = "sending"] \in WorkerState
    BY <1>2 DEF WorkerState
  <2>6. WkOK'
    BY <1>5, <1>15, <2>5 DEF TakeLease
  <2>. QED
    BY <1>1, <1>4, <1>15, <2>4, <2>6, <1>0 DEF TakeLease
<1>16. CASE \E answer \in Answers : Send(w, answer)
  <2>1. PICK answer \in Answers : Send(w, answer)
    BY <1>16
  <2>2. wk[w].on \in Attempts
    BY <1>7, <2>1 DEF Send, Holds
  <2>3. PICK n \in MayBeAccepted(answer) :
          accepted' = [accepted EXCEPT ![wk[w].on] = accepted[wk[w].on] + n]
    BY <2>1 DEF Send
  <2>4. n \in Nat
    BY <2>3 DEF MayBeAccepted
  <2>5. accepted' \in [Attempts -> Nat]
    BY <1>1, <2>2, <2>3, <2>4
  <2>6. [wk[w] EXCEPT !.at = "answered", !.answer = answer] \in WorkerState
    BY <1>2 DEF WorkerState
  <2>7. WkOK'
    BY <1>5, <2>1, <2>6 DEF Send
  <2>. QED
    BY <1>1, <1>4, <2>1, <2>5, <2>7, <1>0 DEF Send, AttOK
<1>17. CASE Record(w)
  <2>. DEFINE a == wk[w].on
              n == att[a].count
  <2>1. a \in Attempts /\ att[a] \in Attempt /\ n > 0 /\ n \in 0..MaxAttempts /\ n \in Nat
    BY <1>1, <1>7, <1>17, Parameters DEF Record, Holds, AttOK, Attempt, LInv, Leases, HeldLeased
  <2>2. Backoff(n) - wk[w].lag \in Int
    BY <1>2, <2>1, PowerOfTwo
  <2>3. [status |-> "retry_scheduled", count |-> n,
         due |-> Backoff(n) - wk[w].lag, lease |-> 0] \in Attempt
    BY <2>1, <2>2 DEF Attempt, Waiting
  <2>4. \A s \in Final : Became(a, s) \in Attempt
    BY <1>1, <2>1, BecameOK
  <2>5. Outcome(a, wk[w].answer, wk[w].lag) \in Attempt
    BY <2>3, <2>4 DEF Outcome, Final
  <2>6. AttOK'
    BY <1>6, <1>17, <2>1, <2>5 DEF Record
  <2>. QED
    BY <1>1, <1>3, <1>4, <1>5, <1>17, <2>6, <1>0 DEF Record
<1>18. CASE Crash(w)
  <2>1. left' \in 0..MaxEvents
    BY <1>1, <1>18 DEF Crash, Event
  <2>2. WkOK'
    BY <1>2, <1>5, <1>18 DEF Crash
  <2>. QED
    BY <1>1, <1>4, <1>18, <2>1, <2>2, <1>0 DEF Crash, AttOK
<1>. QED
  BY <1>8, <1>9, <1>10, <1>11, <1>12, <1>13, <1>14, <1>15, <1>16, <1>17, <1>18 DEF Deliver

LEMMA ManageTypes ==
    ASSUME TypeOK, Manage \/ Tick
    PROVE  TypeOK'
<1>0. ASSUME AttOK', WkOK', DstOK',
             accepted' \in [Attempts -> Nat], left' \in 0..MaxEvents
      PROVE  TypeOK'
  BY <1>0 DEF TypeOK, AttOK, WkOK, DstOK
<1>1. /\ AttOK /\ WkOK /\ DstOK
      /\ accepted \in [Attempts -> Nat] /\ left \in 0..MaxEvents
      /\ MaxEvents \in Nat /\ MaxLag \in Nat
  BY TypeParts, Parameters
<1>2. UNCHANGED delivery => AttOK' /\ WkOK' /\ accepted' \in [Attempts -> Nat]
  BY <1>1 DEF AttOK, WkOK, delivery
<1>3. Event => left' \in 0..MaxEvents
  BY <1>1 DEF Event
<1>4. Gone \in Destination /\ NoTx \in TxState /\ Off \in WorkerState
  BY <1>1 DEF Gone, Destination, NoTx, TxState, Off, WorkerState
<1>5. \A x \in {"idle", "stale"} :
        [NoRotation EXCEPT !.at = x] \in [at : {"idle", "running", "stale"},
           rows : SUBSET Destinations, read : [Destinations -> Destination]]
  BY <1>4 DEF NoRotation
<1>6. NoRotation \in [at : {"idle", "running", "stale"},
                      rows : SUBSET Destinations, read : [Destinations -> Destination]]
  BY <1>4 DEF NoRotation
<1>7. CASE \E c \in Clients, op \in {"update", "revoke", "verify"}, d \in Destinations :
             Begin(c, op, d)
  <2>1. PICK c \in Clients, op \in {"update", "revoke", "verify"}, d \in Destinations :
          Begin(c, op, d)
    BY <1>7
  <2>2. [op |-> op, on |-> d, read |-> dst[d]] \in TxState
    BY <1>1 DEF TxState, DstOK
  <2>3. DstOK'
    BY <1>1, <2>1, <2>2 DEF Begin, DstOK
  <2>. QED
    BY <1>0, <1>2, <1>3, <2>1, <2>3 DEF Begin
<1>8. CASE \E c \in Clients : Commit(c)
  <2>1. PICK c \in Clients : Commit(c)
    BY <1>8
  <2>. DEFINE d == tx[c].on
              new == Intended(tx[c].op, d, tx[c].read)
  <2>2. tx[c] \in TxState
    BY <1>1 DEF DstOK
  <2>3. tx[c].op \in {"update", "revoke", "verify"} /\ tx[c].read \in Destination
    BY <2>1, <2>2 DEF Commit, TxState
  <2>4. CASE d \in Destinations
    <3>1. new \in Destination /\ dst[d] \in Destination
      BY <1>1, <2>3, <2>4, IntendedOK DEF DstOK
    <3>2. Written(new, tx[c].read, dst[d]) \in Destination
      BY <2>3, <3>1, WrittenOK
    <3>3. dst' \in [Destinations -> Destination]
      BY <1>1, <2>1, <3>2 DEF Commit, DstOK
    <3>4. given' \in [Destinations -> Nat]
      BY <1>1, <2>1, <2>4 DEF Commit, DstOK
    <3>5. sub' \subseteq Destinations
      BY <1>1, <2>1 DEF Commit, DstOK
    <3>6. tx' \in [Clients -> TxState]
      BY <1>1, <1>4, <2>1 DEF Commit, DstOK
    <3>. QED
      BY <1>0, <1>1, <1>2, <2>1, <3>3, <3>4, <3>5, <3>6 DEF Commit, DstOK
  <2>5. CASE d \notin Destinations
    <3>1. dst' = dst /\ given' = given
      BY <1>1, <2>1, <2>5 DEF Commit, DstOK
    <3>2. sub' \subseteq Destinations
      BY <1>1, <2>1 DEF Commit, DstOK
    <3>3. tx' \in [Clients -> TxState]
      BY <1>1, <1>4, <2>1 DEF Commit, DstOK
    <3>. QED
      BY <1>0, <1>1, <1>2, <2>1, <3>1, <3>2, <3>3 DEF Commit, DstOK
  <2>. QED
    BY <2>4, <2>5
<1>9. CASE \E d \in Destinations : Subscribe(d)
  BY <1>0, <1>1, <1>2, <1>3, <1>9 DEF Subscribe, DstOK
<1>10. CASE RotateRead
  <2>1. rot' \in [at : {"idle", "running", "stale"}, rows : SUBSET Destinations,
                 read : [Destinations -> Destination]]
    BY <1>1, <1>10 DEF RotateRead, OldKeys, DstOK
  <2>. QED
    BY <1>0, <1>1, <1>2, <1>10, <2>1 DEF RotateRead, DstOK
<1>11. CASE RotateWrite
  <2>1. ASSUME NEW d \in Destinations PROVE Reencrypted(d) \in Destination
    <3>1. /\ rot.read[d] \in Destination /\ dst[d] \in Destination /\ key \in Nat
      BY <1>1 DEF DstOK
    <3>2. [dst[d] EXCEPT !.secret = rot.read[d].secret, !.key = key] \in Destination
      BY <3>1 DEF Destination
    <3>3. [dst[d] EXCEPT !.status = "configuration_blocked"] \in Destination
      BY <3>1 DEF Destination
    <3>. QED
      BY <3>2, <3>3 DEF Reencrypted
  <2>2. dst' \in [Destinations -> Destination]
    BY <1>1, <1>11, <2>1 DEF RotateWrite, DstOK
  <2>. QED
    BY <1>0, <1>1, <1>2, <1>6, <1>11, <2>2 DEF RotateWrite, DstOK
<1>12. CASE RotateCrash
  BY <1>0, <1>1, <1>2, <1>3, <1>5, <1>12 DEF RotateCrash, DstOK
<1>13. CASE Watchdog
  BY <1>0, <1>1, <1>2, <1>6, <1>13 DEF Watchdog, DstOK
<1>14. CASE NewKey
  <2>1. DstOK'
    BY <1>1, <1>4, <1>5, <1>14 DEF NewKey, DstOK
  <2>. QED
    BY <1>0, <1>1, <1>3, <1>4, <1>14, <2>1 DEF NewKey, AttOK, WkOK
<1>15. CASE Tick
  <2>1. ASSUME NEW w \in Workers, wk[w].at # "idle"
        PROVE  [wk[w] EXCEPT !.lag = wk[w].lag + 1] \in WorkerState
    <3>1. wk[w] \in WorkerState /\ wk[w].lag \in 0..MaxLag
      BY <1>1 DEF WkOK, WorkerState
    <3>2. wk[w].lag < MaxLag
      BY <1>15, <2>1 DEF Tick
    <3>3. wk[w].lag + 1 \in 0..MaxLag
      BY <1>1, <3>1, <3>2
    <3>. QED
      BY <3>1, <3>3 DEF WorkerState
  <2>2. WkOK'
    BY <1>1, <1>15, <2>1 DEF Tick, WkOK
  <2>3. ASSUME NEW a \in Attempts
        PROVE  [att[a] EXCEPT !.due = Down(att[a].due, -MaxLag),
                              !.lease = Down(att[a].lease, -MaxLag - 1)] \in Attempt
    <3>1. att[a] \in Attempt
      BY <1>1 DEF AttOK
    <3>2. Down(att[a].due, -MaxLag) \in Int /\ Down(att[a].lease, -MaxLag - 1) \in Int
      BY <1>1, <3>1 DEF Down, Attempt
    <3>. QED
      BY <3>1, <3>2 DEF Attempt
  <2>4. AttOK'
    BY <1>1, <1>15, <2>3 DEF Tick, AttOK
  <2>. QED
    BY <1>0, <1>1, <1>15, <2>2, <2>4 DEF Tick, DstOK, secrets
<1>. QED
  BY <1>7, <1>8, <1>9, <1>10, <1>11, <1>12, <1>13, <1>14, <1>15 DEF Manage

-----------------------------------------------------------------------------
(* Leases.                                                                  *)

\* What a step leaves of the others.
LEMMA OthersStay ==
    ASSUME TypeOK, NEW w \in Workers, NEW r, wk' = [wk EXCEPT ![w] = r]
    PROVE  wk'[w] = r /\ \A v \in Workers \ {w} : wk'[v] = wk[v]
BY DEF TypeOK

\* Whoever holds an attempt may change it, if it is let go of afterwards.
LEMMA LetGo ==
    ASSUME LInv, NEW w \in Workers, Holds(w) \/ wk[w].at = "picked",
           wk' = [wk EXCEPT ![w] = Continue(w)],
           NEW r, att' = [att EXCEPT ![wk[w].on] = r],
           r.status \in Waiting => r.count < MaxAttempts
    PROVE  Leases'
<1>. DEFINE a == wk[w].on
<1>1. TypeOK /\ Leases
  BY DEF LInv
<1>2. wk'[w].at = "ready" /\ \A v \in Workers \ {w} : wk'[v] = wk[v]
  <2>1. wk'[w] = Continue(w) /\ \A v \in Workers \ {w} : wk'[v] = wk[v]
    BY <1>1, OthersStay
  <2>2. Continue(w).at = "ready"
    BY DEF Continue, Off
  <2>. QED
    BY <2>1, <2>2
<1>3. a \in Attempts /\ att'[a] = r /\ \A b \in Attempts \ {a} : att'[b] = att[b]
  BY <1>1 DEF TypeOK, Leases, PickedWaits, HeldLeased
<1>4. \A v \in Workers \ {w} : Holds(v) \/ wk[v].at = "picked" => wk[v].on # a
  <2>1. TAKE v \in Workers \ {w}
  <2>2. Holds(w) => att[a].status \notin Waiting
    BY <1>1 DEF Leases, HeldLeased, Waiting
  <2>3. wk[w].at = "picked" => att[a].status \in Waiting /\ ~Holds(w)
    BY <1>1 DEF Leases, PickedWaits, Holds
  <2>4. Holds(v) => att[wk[v].on].status \notin Waiting
    BY <1>1 DEF Leases, HeldLeased, Waiting
  <2>5. wk[v].at = "picked" => att[wk[v].on].status \in Waiting
    BY <1>1 DEF Leases, PickedWaits
  <2>. QED
    BY <1>1, <2>2, <2>3, <2>4, <2>5 DEF Leases, HeldAlone, PickedAlone
<1>5. \A v \in Workers : Holds(v)' => v # w /\ Holds(v)
  BY <1>2 DEF Holds
<1>6. \A v \in Workers : wk'[v].at = "picked" => v # w /\ wk[v].at = "picked"
  BY <1>2
<1>7. RetriesLeft'
  BY <1>1, <1>3 DEF Leases, RetriesLeft
<1>8. PickedWaits'
  BY <1>1, <1>2, <1>3, <1>4, <1>6 DEF Leases, PickedWaits
<1>9. PickedAlone'
  BY <1>1, <1>2, <1>6 DEF Leases, PickedAlone
<1>10. HeldLeased'
  BY <1>1, <1>2, <1>3, <1>4, <1>5 DEF Leases, HeldLeased
<1>11. HeldAlone'
  BY <1>1, <1>2, <1>5 DEF Leases, HeldAlone
<1>. QED
  BY <1>7, <1>8, <1>9, <1>10, <1>11 DEF Leases

\* What happens to every attempt at once: time passes, or expired leases are given up.
LEMMA LeasesPass ==
    ASSUME LInv,
           \A a \in Attempts :
              /\ att'[a].count = att[a].count
              /\ \/ att'[a].status = att[a].status
                 \/ att[a].status = "leased" /\ att'[a].status = "permanent_failure",
           \A w \in Workers : wk'[w].on = wk[w].on
              /\ (wk'[w].at = wk[w].at \/ (wk[w].at = "started" /\ wk'[w].at = "ready"))
    PROVE  Leases'
<1>1. Leases
  BY DEF LInv
<1>2. \A w \in Workers : Holds(w)' => Holds(w) /\ wk'[w].on = wk[w].on
  BY DEF Holds
<1>3. \A w \in Workers : wk'[w].at = "picked" => wk[w].at = "picked" /\ wk'[w].on = wk[w].on
  OBVIOUS
<1>4. RetriesLeft'
  BY <1>1 DEF Leases, RetriesLeft, Waiting
<1>5. PickedWaits'
  <2>1. ASSUME NEW w \in Workers, wk'[w].at = "picked"
        PROVE  wk'[w].on \in Attempts /\ att'[wk'[w].on].status \in Waiting
    <3>1. wk'[w].on = wk[w].on /\ wk[w].on \in Attempts /\ att[wk[w].on].status \in Waiting
      BY <1>1, <1>3, <2>1 DEF Leases, PickedWaits
    <3>2. att[wk[w].on].status # "leased"
      BY <3>1 DEF Waiting
    <3>. QED
      BY <3>1, <3>2
  <2>. QED
    BY <2>1 DEF PickedWaits
<1>6. PickedAlone'
  BY <1>1, <1>3 DEF Leases, PickedAlone
<1>7. HeldLeased'
  BY <1>1, <1>2 DEF Leases, HeldLeased
<1>8. HeldAlone'
  BY <1>1, <1>2 DEF Leases, HeldAlone
<1>. QED
  BY <1>4, <1>5, <1>6, <1>7, <1>8 DEF Leases

LEMMA DeliveryLeases ==
    ASSUME LInv, NEW w \in Workers, Deliver(w) \/ Crash(w)
    PROVE  Leases'
<1>1. TypeOK /\ Leases
  BY DEF LInv
<1>2. \A a \in Attempts, s \in Final : Became(a, s).status \notin Waiting
  BY DEF Became, Final, Waiting
<1>3. ASSUME NEW r, wk' = [wk EXCEPT ![w] = r] /\ att' = att,
             r.at \in {"idle", "started", "ready"}
      PROVE  Leases'
  <2>1. wk'[w] = r /\ \A v \in Workers \ {w} : wk'[v] = wk[v]
    BY <1>1, <1>3, OthersStay
  <2>2. \A v \in Workers : wk'[v] = wk[v] \/ wk'[v].at \in {"idle", "started", "ready"}
    BY <1>3, <2>1
  <2>. QED
    BY <1>1, <1>3, <2>2, LeasesKept
<1>. DEFINE begun == [Off EXCEPT !.at = "started"]
<1>0. begun.at = "started" /\ Off.at = "idle"
  BY DEF Off
<1>. HIDE DEF begun
<1>4. CASE StartBatch(w)
  <2>1. wk' = [wk EXCEPT ![w] = begun] /\ att' = att
    BY <1>4 DEF StartBatch, begun
  <2>. QED
    BY <1>0, <1>3, <2>1
<1>5. CASE Expire(w)
  <2>1. \A a \in Attempts :
          /\ att'[a].count = att[a].count
          /\ \/ att'[a].status = att[a].status
             \/ att[a].status = "leased" /\ att'[a].status = "permanent_failure"
    BY <1>5 DEF Expire, Expired, GiveUp, Became
  <2>2. \A v \in Workers : wk'[v].on = wk[v].on
          /\ (wk'[v].at = wk[v].at \/ (wk[v].at = "started" /\ wk'[v].at = "ready"))
    <3>1. wk[w] \in WorkerState
      BY <1>1 DEF TypeOK
    <3>2. wk'[w] = [wk[w] EXCEPT !.at = "ready"] /\ \A v \in Workers \ {w} : wk'[v] = wk[v]
      BY <1>1, <1>5, OthersStay DEF Expire
    <3>3. wk[w].at = "started" /\ wk'[w].at = "ready" /\ wk'[w].on = wk[w].on
      BY <1>5, <3>1, <3>2 DEF Expire, WorkerState
    <3>. QED
      BY <3>2, <3>3
  <2>. QED
    BY <2>1, <2>2, LeasesPass
<1>6. CASE EndBatch(w)
  BY <1>0, <1>3, <1>6 DEF EndBatch
<1>7. CASE \E a \in Attempts : Pick(w, a)
  <2>1. PICK a \in Attempts : Pick(w, a)
    BY <1>7
  <2>2. /\ wk'[w].at = "picked" /\ wk'[w].on = a
        /\ \A v \in Workers \ {w} : wk'[v] = wk[v]
    <3>1. wk[w] \in WorkerState
      BY <1>1 DEF TypeOK
    <3>2. /\ wk'[w] = [wk[w] EXCEPT !.at = "picked", !.on = a,
                                   !.enabled = dst[To[a]].status = "enabled",
                                   !.subscribed = To[a] \in sub,
                                   !.readable = Readable(dst[To[a]])]
          /\ \A v \in Workers \ {w} : wk'[v] = wk[v]
      BY <1>1, <2>1, OthersStay DEF Pick
    <3>. QED
      BY <3>1, <3>2 DEF WorkerState
  <2>3. a \notin Locked /\ att[a].status \in Waiting /\ att' = att
    BY <2>1 DEF Pick, Available
  <2>4. \A v \in Workers : wk[v].at = "picked" => wk[v].on # a
    BY <2>3 DEF Locked
  <2>5. \A v \in Workers : Holds(v)' => v # w /\ Holds(v)
    BY <2>2 DEF Holds
  <2>6. RetriesLeft'
    BY <1>1, <2>3 DEF Leases, RetriesLeft
  <2>7. PickedWaits'
    BY <1>1, <2>2, <2>3 DEF Leases, PickedWaits
  <2>8. PickedAlone'
    BY <1>1, <2>2, <2>4 DEF Leases, PickedAlone
  <2>9. HeldLeased'
    BY <1>1, <2>2, <2>3, <2>5 DEF Leases, HeldLeased
  <2>10. HeldAlone'
    BY <1>1, <2>2, <2>5 DEF Leases, HeldAlone
  <2>. QED
    BY <2>6, <2>7, <2>8, <2>9, <2>10 DEF Leases
<1>8. CASE Block(w)
  <2>1. wk[w].on \in Attempts
    BY <1>1, <1>8 DEF Block, Leases, PickedWaits
  <2>. QED
    BY <1>2, <1>8, <2>1, LetGo DEF Block, Final
<1>9. CASE Defer(w)
  <2>. DEFINE a == wk[w].on
              r == [att[a] EXCEPT !.due = Deferral - wk[w].lag]
  <2>1. a \in Attempts /\ att[a] \in Attempt
    BY <1>1, <1>9 DEF Defer, Leases, PickedWaits, TypeOK
  <2>2. r.status = att[a].status /\ r.count = att[a].count
    BY <2>1 DEF Attempt
  <2>3. r.status \in Waiting => r.count < MaxAttempts
    BY <1>1, <2>1, <2>2 DEF Leases, RetriesLeft
  <2>4. att' = [att EXCEPT ![a] = r]
    BY <1>9 DEF Defer
  <2>5. wk[w].at = "picked" /\ wk' = [wk EXCEPT ![w] = Continue(w)]
    BY <1>9 DEF Defer
  <2>. HIDE DEF r
  <2>. QED
    BY <2>3, <2>4, <2>5, LetGo
<1>10. CASE BlockUnreadable(w)
  <2>1. wk[w].on \in Attempts
    BY <1>1, <1>10 DEF BlockUnreadable, Leases, PickedWaits
  <2>. QED
    BY <1>2, <1>10, <2>1, LetGo DEF BlockUnreadable, Final
<1>11. CASE TakeLease(w)
  <2>. DEFINE a == wk[w].on
  <2>1. a \in Attempts /\ att[a].status \in Waiting /\ att[a].count \in Nat
    BY <1>1, <1>11, Parameters DEF TakeLease, Leases, PickedWaits, TypeOK, Attempt
  <2>2. /\ att'[a].status = "leased" /\ att'[a].count = att[a].count + 1
        /\ \A b \in Attempts \ {a} : att'[b] = att[b]
    BY <1>1, <1>11, <2>1 DEF TakeLease, TypeOK
  <2>3. /\ wk'[w].at = "sending" /\ wk'[w].on = a
        /\ \A v \in Workers \ {w} : wk'[v] = wk[v]
    <3>1. wk[w] \in WorkerState
      BY <1>1 DEF TypeOK
    <3>2. wk'[w] = [wk[w] EXCEPT !.at = "sending"] /\ \A v \in Workers \ {w} : wk'[v] = wk[v]
      BY <1>1, <1>11, OthersStay DEF TakeLease
    <3>. QED
      BY <3>1, <3>2 DEF WorkerState
  <2>4. \A v \in Workers \ {w} : Holds(v) \/ wk[v].at = "picked" => wk[v].on # a
    <3>1. \A v \in Workers \ {w} : Holds(v) => att[wk[v].on].status \notin Waiting
      BY <1>1 DEF Leases, HeldLeased, Waiting
    <3>2. \A v \in Workers \ {w} : wk[v].at = "picked" => wk[v].on # a
      BY <1>1, <1>11 DEF TakeLease, Leases, PickedAlone
    <3>. QED
      BY <2>1, <3>1, <3>2
  <2>5. RetriesLeft'
    BY <1>1, <2>1, <2>2 DEF Leases, RetriesLeft, Waiting
  <2>6. PickedWaits'
    BY <1>1, <2>2, <2>3, <2>4 DEF Leases, PickedWaits
  <2>7. PickedAlone'
    BY <1>1, <2>3 DEF Leases, PickedAlone
  <2>8. HeldLeased'
    BY <1>1, <2>1, <2>2, <2>3, <2>4 DEF Leases, HeldLeased, Holds
  <2>9. HeldAlone'
    BY <1>1, <2>3, <2>4 DEF Leases, HeldAlone, Holds
  <2>. QED
    BY <2>5, <2>6, <2>7, <2>8, <2>9 DEF Leases
<1>12. CASE \E answer \in Answers : Send(w, answer)
  <2>1. PICK answer \in Answers : Send(w, answer)
    BY <1>12
  <2>2. /\ wk'[w].at = "answered" /\ wk'[w].on = wk[w].on
        /\ \A v \in Workers \ {w} : wk'[v] = wk[v]
    <3>1. wk[w] \in WorkerState
      BY <1>1 DEF TypeOK
    <3>2. /\ wk'[w] = [wk[w] EXCEPT !.at = "answered", !.answer = answer]
          /\ \A v \in Workers \ {w} : wk'[v] = wk[v]
      BY <1>1, <2>1, OthersStay DEF Send
    <3>. QED
      BY <3>1, <3>2 DEF WorkerState
  <2>3. att' = att /\ Holds(w)
    BY <2>1 DEF Send, Holds
  <2>4. \A v \in Workers : wk'[v].on = wk[v].on /\ (Holds(v)' => Holds(v))
                            /\ (wk'[v].at = "picked" => wk[v].at = "picked")
    BY <2>2, <2>3 DEF Holds
  <2>. QED
    BY <1>1, <2>3, <2>4
       DEF Leases, RetriesLeft, PickedWaits, PickedAlone, HeldLeased, HeldAlone
<1>13. CASE Record(w)
  <2>. DEFINE a == wk[w].on
              r == Outcome(a, wk[w].answer, wk[w].lag)
  <2>1. a \in Attempts /\ Holds(w)
    BY <1>1, <1>13 DEF Record, Leases, HeldLeased, Holds
  <2>2. r.status \in Waiting => r.count < MaxAttempts
    BY <1>2, <2>1 DEF Outcome, Retries, Final
  <2>3. att' = [att EXCEPT ![a] = r] /\ wk' = [wk EXCEPT ![w] = Continue(w)]
    BY <1>13 DEF Record
  <2>. HIDE DEF r
  <2>. QED
    BY <2>1, <2>2, <2>3, LetGo
<1>14. CASE Crash(w)
  BY <1>0, <1>3, <1>14 DEF Crash
<1>. QED
  BY <1>4, <1>5, <1>6, <1>7, <1>8, <1>9, <1>10, <1>11, <1>12, <1>13, <1>14 DEF Deliver

LEMMA ManageLeases ==
    ASSUME LInv, Manage \/ Tick
    PROVE  Leases'
<1>1. TypeOK /\ Leases
  BY DEF LInv
<1>2. UNCHANGED delivery => Leases'
  BY <1>1, LeasesKept DEF delivery
<1>3. CASE NewKey
  BY <1>1, <1>3, LeasesKept DEF NewKey, Off
<1>4. CASE Tick
  <2>1. \A a \in Attempts : att'[a].count = att[a].count /\ att'[a].status = att[a].status
    BY <1>1, <1>4 DEF Tick, TypeOK, Attempt
  <2>2. ASSUME NEW w \in Workers PROVE wk'[w].on = wk[w].on /\ wk'[w].at = wk[w].at
    <3>1. wk[w] \in WorkerState
      BY <1>1 DEF TypeOK
    <3>2. wk'[w] \in {wk[w], [wk[w] EXCEPT !.lag = wk[w].lag + 1]}
      BY <1>4 DEF Tick
    <3>. QED
      BY <3>1, <3>2 DEF WorkerState
  <2>3. \A a \in Attempts :
          /\ att'[a].count = att[a].count
          /\ \/ att'[a].status = att[a].status
             \/ att[a].status = "leased" /\ att'[a].status = "permanent_failure"
    BY <2>1
  <2>4. \A w \in Workers : wk'[w].on = wk[w].on
          /\ (wk'[w].at = wk[w].at \/ (wk[w].at = "started" /\ wk'[w].at = "ready"))
    BY <2>2
  <2>. QED
    BY <2>3, <2>4, LeasesPass
<1>. QED
  BY <1>2, <1>3, <1>4 DEF Manage, Begin, Commit, Subscribe, RotateRead, RotateWrite,
                          RotateCrash, Watchdog

LEMMA LeasesStep == LInv /\ [Next]_vars => LInv'
<1>. SUFFICES ASSUME LInv, [Next]_vars PROVE LInv'
  OBVIOUS
<1>1. TypeOK
  BY DEF LInv
<1>2. CASE \E w \in Workers : Deliver(w) \/ Crash(w)
  BY <1>2, DeliveryTypes, DeliveryLeases DEF LInv
<1>3. CASE Manage \/ Tick
  BY <1>1, <1>3, ManageTypes, ManageLeases DEF LInv
<1>4. CASE UNCHANGED vars
  <2>1. TypeOK'
    BY <1>1, <1>4 DEF vars, TypeOK
  <2>2. Leases'
    BY <1>4, LeasesKept DEF vars, LInv
  <2>. QED
    BY <2>1, <2>2 DEF LInv
<1>. QED
  BY <1>2, <1>3, <1>4 DEF Next

LEMMA LeasesInit == Init => LInv
<1>. SUFFICES ASSUME Init PROVE LInv
  OBVIOUS
<1>1. AttOK
  BY Parameters DEF Init, AttOK, Attempt, Waiting
<1>2. WkOK
  BY Parameters DEF Init, WkOK, WorkerState, Off
<1>3. Gone \in Destination /\ \A d \in Destinations : New(d) \in Destination
  BY DEF Gone, New, Destination
<1>4. NoTx \in TxState /\ NoRotation \in [at : {"idle", "running", "stale"},
                        rows : SUBSET Destinations, read : [Destinations -> Destination]]
  BY <1>3 DEF NoTx, TxState, NoRotation
<1>5. DstOK
  BY <1>3, <1>4 DEF Init, DstOK
<1>6. TypeOK
  BY <1>1, <1>2, <1>5, TypeParts, Parameters DEF Init
<1>7. \A w \in Workers : wk[w].at = "idle"
  BY DEF Init, Off
<1>8. Leases
  BY <1>7, Parameters
     DEF Init, Leases, RetriesLeft, PickedWaits, PickedAlone, HeldLeased, HeldAlone, Holds
<1>. QED
  BY <1>6, <1>8 DEF LInv

\* The rows of the outbox are what the schema allows, and no attempt is made more than
\* MaxAttempts times: deliver_pending_attempts.
THEOREM TypeCorrect == Spec => []TypeOK
<1>1. LInv => TypeOK
  BY DEF LInv
<1>. QED
  BY LeasesInit, LeasesStep, <1>1, PTL DEF Spec

\* A lease is exclusive: no two workers have one attempt at a provider at once, whatever
\* the batches' clocks say and whatever crashes.
THEOREM ExclusiveLease == Spec => []OneSender
<1>1. LInv => OneSender
  BY DEF LInv, Leases, HeldAlone, Holds, OneSender
<1>. QED
  BY LeasesInit, LeasesStep, <1>1, PTL DEF Spec

-----------------------------------------------------------------------------
(* Acceptance.                                                              *)

\* What waits or is about to be sent has not been accepted, and a transient answer
\* says so.
NotYet == \A a \in Attempts : att[a].status \in Waiting => accepted[a] = 0
UnsentYet == \A w \in Workers : wk[w].at = "sending" => accepted[wk[w].on] = 0
AnsweredTruly ==
    \A w \in Workers :
        wk[w].at = "answered" /\ wk[w].answer = "transient" => accepted[wk[w].on] = 0

Acceptance == AcceptedOnce /\ NotYet /\ UnsentYet /\ AnsweredTruly

LEMMA AcceptanceKept ==
    ASSUME Acceptance, accepted' = accepted,
           \A a \in Attempts : att'[a].status \in Waiting => att[a].status \in Waiting,
           \A w \in Workers : Holds(w)' => /\ wk'[w].at = wk[w].at /\ wk'[w].on = wk[w].on
                                           /\ wk'[w].answer = wk[w].answer
    PROVE  Acceptance'
BY DEF Acceptance, AcceptedOnce, NotYet, UnsentYet, AnsweredTruly, Holds

LEMMA DeliveryAcceptance ==
    ASSUME ~LostAnswers, LInv, Acceptance, NEW w \in Workers, Deliver(w) \/ Crash(w)
    PROVE  Acceptance'
<1>1. TypeOK /\ Leases /\ wk[w] \in WorkerState /\ Off.at = "idle" /\ Continue(w).at = "ready"
  BY DEF LInv, TypeOK, Off, Continue
<1>2. ASSUME NEW r, wk' = [wk EXCEPT ![w] = r] /\ accepted' = accepted,
             r.at \notin {"sending", "answered"},
             \A a \in Attempts : att'[a].status \in Waiting => att[a].status \in Waiting
      PROVE  Acceptance'
  <2>1. wk'[w] = r /\ \A v \in Workers \ {w} : wk'[v] = wk[v]
    BY <1>1, <1>2, OthersStay
  <2>2. \A v \in Workers : Holds(v)' => v # w
    BY <1>2, <2>1 DEF Holds
  <2>. QED
    BY <1>2, <2>1, <2>2, AcceptanceKept
<1>3. \A a \in Attempts, s \in Final : Became(a, s).status \notin Waiting
  BY DEF Became, Final, Waiting
<1>4. ASSUME NEW a \in Attempts, NEW r, att' = [att EXCEPT ![a] = r],
             r.status \in Waiting => att[a].status \in Waiting,
             NEW b \in Attempts, att'[b].status \in Waiting
      PROVE  att[b].status \in Waiting
  BY <1>1, <1>4 DEF TypeOK
<1>5. CASE StartBatch(w)
  <2>. DEFINE r == [Off EXCEPT !.at = "started"]
  <2>1. r.at = "started" /\ wk' = [wk EXCEPT ![w] = r] /\ accepted' = accepted /\ att' = att
    BY <1>5 DEF StartBatch, Off
  <2>. HIDE DEF r
  <2>. QED
    BY <1>2, <2>1
<1>6. CASE Expire(w)
  <2>. DEFINE r == [wk[w] EXCEPT !.at = "ready"]
  <2>1. r.at = "ready" /\ wk' = [wk EXCEPT ![w] = r] /\ accepted' = accepted
    BY <1>1, <1>6 DEF Expire, WorkerState
  <2>2. \A a \in Attempts : att'[a].status \in Waiting => att[a].status \in Waiting
    BY <1>3, <1>6 DEF Expire, GiveUp, Final
  <2>. HIDE DEF r
  <2>. QED
    BY <1>2, <2>1, <2>2
<1>7. CASE EndBatch(w)
  BY <1>1, <1>2, <1>7 DEF EndBatch
<1>8. CASE \E a \in Attempts : Pick(w, a)
  <2>1. PICK a \in Attempts : Pick(w, a)
    BY <1>8
  <2>. DEFINE r == [wk[w] EXCEPT !.at = "picked", !.on = a,
                                 !.enabled = dst[To[a]].status = "enabled",
                                 !.subscribed = To[a] \in sub,
                                 !.readable = Readable(dst[To[a]])]
  <2>2. wk' = [wk EXCEPT ![w] = r] /\ accepted' = accepted /\ att' = att
    BY <2>1 DEF Pick
  <2>3. r.at = "picked"
    BY <1>1 DEF WorkerState
  <2>. HIDE DEF r
  <2>. QED
    BY <1>2, <2>2, <2>3
<1>9. CASE Block(w) \/ BlockUnreadable(w)
  <2>1. wk[w].on \in Attempts
    BY <1>1, <1>9 DEF Block, BlockUnreadable, Leases, PickedWaits
  <2>2. \A b \in Attempts : att'[b].status \in Waiting => att[b].status \in Waiting
    BY <1>3, <1>4, <1>9, <2>1 DEF Block, BlockUnreadable, Final
  <2>. QED
    BY <1>1, <1>2, <1>9, <2>2 DEF Block, BlockUnreadable
<1>10. CASE Defer(w)
  <2>1. wk[w].on \in Attempts /\ att[wk[w].on].status \in Waiting
    BY <1>1, <1>10 DEF Defer, Leases, PickedWaits
  <2>2. \A b \in Attempts : att'[b].status \in Waiting => att[b].status \in Waiting
    BY <1>1, <1>10, <2>1 DEF Defer, TypeOK
  <2>. QED
    BY <1>1, <1>2, <1>10, <2>2 DEF Defer
<1>11. CASE TakeLease(w)
  <2>. DEFINE a == wk[w].on
  <2>1. a \in Attempts /\ att[a].status \in Waiting /\ accepted[a] = 0
    BY <1>1, <1>11 DEF TakeLease, Leases, PickedWaits, Acceptance, NotYet
  <2>2. /\ wk'[w].at = "sending" /\ wk'[w].on = a
        /\ \A v \in Workers \ {w} : wk'[v] = wk[v]
    <3>1. wk'[w] = [wk[w] EXCEPT !.at = "sending"] /\ \A v \in Workers \ {w} : wk'[v] = wk[v]
      BY <1>1, <1>11, OthersStay DEF TakeLease
    <3>. QED
      BY <1>1, <3>1 DEF WorkerState
  <2>3. \A b \in Attempts : att'[b].status \in Waiting => att[b].status \in Waiting
    BY <1>1, <1>11, <2>1 DEF TakeLease, TypeOK
  <2>4. accepted' = accepted
    BY <1>11 DEF TakeLease
  <2>5. AcceptedOnce' /\ NotYet'
    BY <2>3, <2>4 DEF Acceptance, AcceptedOnce, NotYet
  <2>6. UnsentYet'
    BY <2>1, <2>2, <2>4 DEF Acceptance, UnsentYet
  <2>7. AnsweredTruly'
    BY <2>2, <2>4 DEF Acceptance, AnsweredTruly
  <2>. QED
    BY <2>5, <2>6, <2>7 DEF Acceptance
<1>12. CASE \E answer \in Answers : Send(w, answer)
  <2>1. PICK answer \in Answers : Send(w, answer)
    BY <1>12
  <2>. DEFINE a == wk[w].on
  <2>2. /\ a \in Attempts /\ att[a].status \notin Waiting /\ accepted[a] = 0
        /\ \A v \in Workers \ {w} : Holds(v) => wk[v].on # a
    BY <1>1, <2>1
       DEF Send, Holds, Leases, HeldLeased, HeldAlone, Waiting, Acceptance, UnsentYet
  <2>3. PICK n \in MayBeAccepted(answer) :
          accepted' = [accepted EXCEPT ![a] = accepted[a] + n]
    BY <2>1 DEF Send
  <2>4. n \in {0, 1} /\ (answer = "transient" => n = 0)
    BY <2>3 DEF MayBeAccepted
  <2>5. accepted'[a] = n /\ \A b \in Attempts \ {a} : accepted'[b] = accepted[b]
    BY <1>1, <2>2, <2>3, <2>4 DEF TypeOK
  <2>6. /\ wk'[w].at = "answered" /\ wk'[w].on = a /\ wk'[w].answer = answer
        /\ \A v \in Workers \ {w} : wk'[v] = wk[v]
    <3>1. /\ wk'[w] = [wk[w] EXCEPT !.at = "answered", !.answer = answer]
          /\ \A v \in Workers \ {w} : wk'[v] = wk[v]
      BY <1>1, <2>1, OthersStay DEF Send
    <3>. QED
      BY <1>1, <3>1 DEF WorkerState
  <2>7. att' = att
    BY <2>1 DEF Send
  <2>8. \A v \in Workers \ {w} : Holds(v) => wk[v].on \in Attempts \ {a}
    BY <1>1, <2>2 DEF Leases, HeldLeased
  <2>9. AcceptedOnce'
    BY <2>4, <2>5 DEF Acceptance, AcceptedOnce
  <2>10. NotYet'
    BY <2>2, <2>5, <2>7 DEF Acceptance, NotYet
  <2>11. UnsentYet'
    BY <2>5, <2>6, <2>8 DEF Acceptance, UnsentYet, Holds
  <2>12. AnsweredTruly'
    BY <2>4, <2>5, <2>6, <2>8 DEF Acceptance, AnsweredTruly, Holds
  <2>. QED
    BY <2>9, <2>10, <2>11, <2>12 DEF Acceptance
<1>13. CASE Record(w)
  <2>. DEFINE a == wk[w].on
              r == Outcome(a, wk[w].answer, wk[w].lag)
  <2>1. a \in Attempts /\ att' = [att EXCEPT ![a] = r] /\ accepted' = accepted
    BY <1>1, <1>13 DEF Record, Leases, HeldLeased, Holds
  <2>2. r.status \in Waiting => wk[w].answer = "transient"
    BY <1>3, <2>1 DEF Outcome, Retries, Final
  <2>3. wk[w].answer = "transient" => accepted[a] = 0
    BY <1>13 DEF Record, Acceptance, AnsweredTruly
  <2>4. wk'[w].at = "ready" /\ \A v \in Workers \ {w} : wk'[v] = wk[v]
    <3>1. wk'[w] = Continue(w) /\ \A v \in Workers \ {w} : wk'[v] = wk[v]
      BY <1>1, <1>13, OthersStay DEF Record
    <3>. QED
      BY <1>1, <3>1
  <2>. HIDE DEF r
  <2>5. NotYet'
    BY <1>1, <2>1, <2>2, <2>3 DEF Acceptance, NotYet, TypeOK
  <2>. QED
    BY <2>1, <2>4, <2>5 DEF Acceptance, AcceptedOnce, UnsentYet, AnsweredTruly
<1>14. CASE Crash(w)
  BY <1>1, <1>2, <1>14 DEF Crash
<1>. QED
  BY <1>5, <1>6, <1>7, <1>8, <1>9, <1>10, <1>11, <1>12, <1>13, <1>14 DEF Deliver

LEMMA AcceptanceStep ==
    ASSUME ~LostAnswers
    PROVE  LInv /\ Acceptance /\ [Next]_vars => Acceptance'
<1>. SUFFICES ASSUME LInv, Acceptance, [Next]_vars PROVE Acceptance'
  OBVIOUS
<1>1. CASE \E w \in Workers : Deliver(w) \/ Crash(w)
  BY <1>1, DeliveryAcceptance
<1>2. UNCHANGED delivery => Acceptance'
  BY AcceptanceKept DEF delivery, Holds
<1>3. CASE NewKey
  <2>1. \A w \in Workers : ~Holds(w)'
    BY <1>3 DEF NewKey, Off, Holds
  <2>. QED
    BY <1>3, <2>1, AcceptanceKept DEF NewKey
<1>4. CASE Tick
  <2>1. \A a \in Attempts : att'[a].status = att[a].status
    BY <1>4 DEF Tick, LInv, TypeOK, Attempt
  <2>2. ASSUME NEW w \in Workers
        PROVE  wk'[w].on = wk[w].on /\ wk'[w].at = wk[w].at /\ wk'[w].answer = wk[w].answer
    <3>1. wk[w] \in WorkerState
      BY DEF LInv, TypeOK
    <3>2. wk'[w] \in {wk[w], [wk[w] EXCEPT !.lag = wk[w].lag + 1]}
      BY <1>4 DEF Tick
    <3>. QED
      BY <3>1, <3>2 DEF WorkerState
  <2>. QED
    BY <1>4, <2>1, <2>2, AcceptanceKept DEF Tick
<1>. QED
  BY <1>1, <1>2, <1>3, <1>4
     DEF Next, Manage, Begin, Commit, Subscribe, RotateRead, RotateWrite, RotateCrash,
         Watchdog, vars, delivery

\* "An expired lease or unexpected adapter exception is not blindly resent": while a
\* transient answer means that nothing was accepted, no attempt is accepted twice.
THEOREM DeliveredOnce ==
    ASSUME ~LostAnswers
    PROVE  Spec => []AcceptedOnce
<1>1. Init => Acceptance
  BY DEF Init, Acceptance, AcceptedOnce, NotYet, UnsentYet, AnsweredTruly, Off
<1>2. Acceptance => AcceptedOnce
  BY DEF Acceptance
<1>. QED
  BY LeasesInit, LeasesStep, AcceptanceStep, <1>1, <1>2, PTL DEF Spec

-----------------------------------------------------------------------------
(* Secrets.                                                                 *)

\* What a request has read is no newer than what its destination was given, and what
\* the rotation holds locked is as the rotation has read it.
ReadBefore ==
    \A c \in Clients : tx[c].op # NoOne =>
        tx[c].on \in Destinations /\ tx[c].read.secret <= given[tx[c].on]

RotatesLatest ==
    /\ rot.at # "running" => rot.rows = {}
    /\ \A d \in rot.rows : rot.read[d].secret = dst[d].secret

Secrets == SecretIsLatest /\ ReadBefore /\ RotatesLatest

\* A new secret is unlike any that was read before, so it is written; a verification
\* writes none.
LEMMA SecretWritten ==
    ASSUME DstOK, NEW d \in Destinations, NEW r \in Destination, r.secret <= given[d],
           NEW op \in {"update", "revoke", "verify"}, dst[d].secret = given[d]
    PROVE  Written(Intended(op, d, r), r, dst[d]).secret
             = IF op = "verify" THEN given[d] ELSE given[d] + 1
<1>1. dst[d] \in Destination /\ given[d] \in Nat /\ r.secret \in Nat
  BY DEF DstOK, Destination
<1>2. "secret" \in DOMAIN dst[d]
  BY <1>1 DEF Destination
<1>3. Written(Intended(op, d, r), r, dst[d]).secret
        = IF Intended(op, d, r).secret # r.secret THEN Intended(op, d, r).secret
          ELSE dst[d].secret
  BY <1>2 DEF Written
<1>4. Intended(op, d, r).secret = IF op = "verify" THEN r.secret ELSE given[d] + 1
  BY DEF Intended, Destination
<1>. QED
  BY <1>1, <1>3, <1>4

\* A step that leaves secrets and the rotation alone, and reads nothing
LEMMA SecretsKept ==
    ASSUME Secrets, given' = given, rot' = rot,
           \A d \in Destinations : dst'[d].secret = dst[d].secret,
           rot.rows \subseteq Destinations,
           \A c \in Clients : tx'[c] = tx[c] \/ tx'[c].op = NoOne
    PROVE  Secrets'
<1>1. SecretIsLatest' /\ RotatesLatest'
  BY DEF Secrets, SecretIsLatest, RotatesLatest
<1>2. ReadBefore'
  BY DEF Secrets, ReadBefore
<1>. QED
  BY <1>1, <1>2 DEF Secrets

LEMMA SecretsCommit ==
    ASSUME LInv, Secrets, NEW c \in Clients, Commit(c)
    PROVE  Secrets'
<1>. DEFINE d == tx[c].on
            op == tx[c].op
            r == tx[c].read
<1>1. DstOK
  BY DEF LInv, TypeOK, DstOK
<1>2. /\ d \in Destinations /\ op \in {"update", "revoke", "verify"} /\ r \in Destination
      /\ r.secret <= given[d] /\ dst[d].secret = given[d] /\ d \notin rot.rows
      /\ given[d] \in Nat
  BY <1>1 DEF Commit, Rotating, DstOK, TxState, Secrets, ReadBefore, SecretIsLatest
<1>3. /\ dst' = [dst EXCEPT ![d] = Written(Intended(op, d, r), r, dst[d])]
      /\ given' = [given EXCEPT ![d] = IF op = "verify" THEN given[d] ELSE given[d] + 1]
      /\ tx' = [tx EXCEPT ![c] = NoTx] /\ rot' = rot
  BY DEF Commit
<1>4. Written(Intended(op, d, r), r, dst[d]).secret
        = IF op = "verify" THEN given[d] ELSE given[d] + 1
  BY <1>1, <1>2, SecretWritten
<1>. HIDE DEF d, op, r
<1>5. /\ dst'[d].secret = given'[d] /\ given[d] <= given'[d]
      /\ \A e \in Destinations : e # d => dst'[e] = dst[e] /\ given'[e] = given[e]
  BY <1>1, <1>2, <1>3, <1>4 DEF DstOK
<1>6. SecretIsLatest'
  BY <1>5 DEF Secrets, SecretIsLatest
<1>7. RotatesLatest'
  BY <1>1, <1>2, <1>3, <1>5 DEF Secrets, RotatesLatest, DstOK
<1>8. ASSUME NEW e \in Clients, tx'[e].op # NoOne
      PROVE  tx'[e].on \in Destinations /\ tx'[e].read.secret <= given'[tx'[e].on]
  <2>1. tx'[e] = tx[e]
    BY <1>1, <1>3, <1>8 DEF DstOK, NoTx
  <2>2. /\ tx[e].on \in Destinations /\ tx[e].read.secret <= given[tx[e].on]
    BY <1>8, <2>1 DEF Secrets, ReadBefore
  <2>3. tx[e].read.secret \in Nat /\ given[tx[e].on] \in Nat /\ given'[tx[e].on] \in Nat
    BY <1>1, <1>2, <1>3, <2>2 DEF DstOK, TxState, Destination
  <2>4. given[tx[e].on] <= given'[tx[e].on]
    BY <1>5, <2>2, <2>3
  <2>. QED
    BY <2>1, <2>2, <2>3, <2>4
<1>9. ReadBefore'
  BY <1>8 DEF ReadBefore
<1>. QED
  BY <1>6, <1>7, <1>9 DEF Secrets

LEMMA SecretsStep == LInv /\ Secrets /\ [Next]_vars => Secrets'
<1>. SUFFICES ASSUME LInv, Secrets, [Next]_vars PROVE Secrets'
  OBVIOUS
<1>1. DstOK /\ WkOK /\ rot.rows \subseteq Destinations
  BY DEF LInv, TypeOK, DstOK, WkOK
<1>2. UNCHANGED <<dst, given, tx, rot>> => Secrets'
  BY <1>1, SecretsKept
<1>3. ASSUME NEW w \in Workers, BlockUnreadable(w) PROVE Secrets'
  <2>1. \A d \in Destinations : dst'[d].secret = dst[d].secret
    BY <1>1, <1>3 DEF BlockUnreadable, DstOK, Destination
  <2>. QED
    BY <1>1, <1>3, <2>1, SecretsKept DEF BlockUnreadable
<1>4. ASSUME NEW c \in Clients, NEW op \in {"update", "revoke", "verify"},
             NEW d \in Destinations, Begin(c, op, d)
      PROVE  Secrets'
  <2>1. /\ tx' = [tx EXCEPT ![c] = [op |-> op, on |-> d, read |-> dst[d]]]
        /\ UNCHANGED <<dst, given, rot>>
    BY <1>4 DEF Begin
  <2>2. dst[d].secret = given[d] /\ given[d] \in Nat
    BY <1>1 DEF Secrets, SecretIsLatest, DstOK
  <2>3. ReadBefore'
    BY <1>1, <2>1, <2>2 DEF Secrets, ReadBefore, DstOK
  <2>. QED
    BY <2>1, <2>3 DEF Secrets, SecretIsLatest, RotatesLatest
<1>5. ASSUME NEW c \in Clients, Commit(c) PROVE Secrets'
  BY <1>5, SecretsCommit
<1>6. CASE RotateRead
  <2>1. rot'.at = "running" /\ rot'.read = dst /\ UNCHANGED <<dst, given, tx>>
    BY <1>6 DEF RotateRead
  <2>. QED
    BY <2>1 DEF Secrets, SecretIsLatest, ReadBefore, RotatesLatest
<1>7. CASE RotateWrite
  <2>1. ASSUME NEW d \in Destinations PROVE dst'[d].secret = dst[d].secret
    <3>1. dst[d] \in Destination
      BY <1>1 DEF DstOK
    <3>2. d \in rot.rows => Reencrypted(d).secret \in {rot.read[d].secret, dst[d].secret}
      BY <3>1 DEF Reencrypted, Destination
    <3>3. d \in rot.rows => rot.read[d].secret = dst[d].secret
      BY DEF Secrets, RotatesLatest
    <3>. QED
      BY <1>7, <3>2, <3>3 DEF RotateWrite
  <2>2. rot'.rows = {} /\ UNCHANGED <<given, tx>>
    BY <1>7 DEF RotateWrite, NoRotation
  <2>. QED
    BY <2>1, <2>2 DEF Secrets, SecretIsLatest, ReadBefore, RotatesLatest
<1>8. CASE RotateCrash \/ Watchdog
  <2>1. rot'.rows = {} /\ UNCHANGED <<dst, given, tx>>
    BY <1>8 DEF RotateCrash, Watchdog, NoRotation
  <2>. QED
    BY <2>1 DEF Secrets, SecretIsLatest, ReadBefore, RotatesLatest
<1>9. CASE NewKey
  <2>1. rot'.rows = {} /\ UNCHANGED <<dst, given>> /\ \A c \in Clients : tx'[c].op = NoOne
    BY <1>9 DEF NewKey, NoRotation, NoTx
  <2>. QED
    BY <2>1 DEF Secrets, SecretIsLatest, ReadBefore, RotatesLatest
<1>10. CASE \E w \in Workers : Deliver(w) \/ Crash(w)
  BY <1>2, <1>3, <1>10
     DEF Deliver, StartBatch, Expire, EndBatch, Pick, Block, Defer, TakeLease, Send, Record,
         Crash, secrets
<1>11. CASE Tick \/ UNCHANGED vars \/ \E d \in Destinations : Subscribe(d)
  BY <1>2, <1>11 DEF Tick, Subscribe, secrets, vars
<1>. QED
  BY <1>4, <1>5, <1>6, <1>7, <1>8, <1>9, <1>10, <1>11 DEF Next, Manage

\* A rotation that re-encrypts what it has read never brings back a secret its user has
\* replaced or revoked, and of the requests that overlap the last to commit counts: for any
\* number of requests and destinations, any keys and any crashes.
THEOREM NothingBroughtBack == Spec => []SecretIsLatest
<1>1. Init => Secrets
  BY DEF Init, Secrets, SecretIsLatest, ReadBefore, RotatesLatest, New, NoTx, NoRotation
<1>2. Secrets => SecretIsLatest
  BY DEF Secrets
<1>. QED
  BY LeasesInit, LeasesStep, SecretsStep, <1>1, <1>2, PTL DEF Spec
=============================================================================
