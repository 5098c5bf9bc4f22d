------------------------------- MODULE Outbox -------------------------------
(***************************************************************************)
(* The outbox of research notifications: delivery attempts, the workers    *)
(* that lease and send them through providers without idempotency keys,    *)
(* and the destinations, whose secrets users replace and revoke while a    *)
(* rotation re-encrypts them.                                              *)
(*                                                                         *)
(* Times are kept relative to now, in ticks of the lease's two minutes. A  *)
(* worker goes by the time its batch began, lag ticks ago.                 *)
(***************************************************************************)
EXTENDS Integers, FiniteSets

CONSTANTS
    Workers,       \* schedulers and API requests that deliver
    Clients,       \* requests that change destinations
    Attempts,      \* delivery attempts, each created queued
    Destinations,
    To,            \* the destination of each attempt
    Tests,         \* the attempts a user asked for as a test
    EmailDests,    \* destinations that are verified by a code; the others are Slack's
    MaxAttempts,
    LostAnswers,   \* may the answer of a provider that accepted be lost?
    SlowCalls,     \* may time pass during a single call of a provider?
    Lease, Deferral,
    MaxLag,        \* bound: how long a batch takes
    MaxEvents      \* bound: user requests, key changes and crashes

ASSUME OutboxAssumption ==
    /\ To \in [Attempts -> Destinations]
    /\ Tests \subseteq Attempts /\ EmailDests \subseteq Destinations
    /\ MaxAttempts \in Nat \ {0}
    /\ {LostAnswers, SlowCalls} \subseteq BOOLEAN
    /\ {Lease, Deferral} \subseteq Nat \ {0}
    /\ {MaxLag, MaxEvents} \subseteq Nat

VARIABLES
    att,       \* the delivery attempts
    dst,       \* the destinations
    sub,       \* the destinations with an enabled subscription
    given,     \* history: how many secrets each destination has had, the random
               \* ones of its revocations included
    accepted,  \* history: how often a provider has accepted each attempt
    wk,        \* the workers
    tx,        \* what each client has read and will write
    rot,       \* the rotation job
    key,       \* the current encryption key; the one before can still be read
    left       \* the events still to come, of MaxEvents

vars == <<att, dst, sub, given, accepted, wk, tx, rot, key, left>>
delivery == <<att, accepted, wk>>
secrets == <<dst, sub, given, tx, rot, key>>

NoOne == "none"
Waiting == {"queued", "retry_scheduled"}
Final == {"succeeded", "permanent_failure", "configuration_blocked"}
Answers == {"accepted", "transient", "rejected", "unconfigured", "unknown"}

\* next_attempt_at and lease_expires_at
Attempt == [status : Waiting \cup {"leased"} \cup Final, count : 0..MaxAttempts,
            due : Int, lease : Int]

\* key 0 is that of a revoked secret, which no key reads.
Destination == [status : {"pending_verification", "enabled", "revoked", "configuration_blocked"},
                secret : Nat, key : Nat, challenge : BOOLEAN]

WorkerState == [at : {"idle", "started", "ready", "picked", "sending", "answered"},
                on : Attempts \cup {NoOne}, lag : 0..MaxLag,
                enabled : BOOLEAN, subscribed : BOOLEAN, readable : BOOLEAN,
                answer : Answers \cup {NoOne}]

Off == [at |-> "idle", on |-> NoOne, lag |-> 0, enabled |-> FALSE, subscribed |-> FALSE,
        readable |-> FALSE, answer |-> NoOne]

TxState == [op : {NoOne, "update", "revoke", "verify"}, on : Destinations \cup {NoOne},
            read : Destination]

Gone == [status |-> "revoked", secret |-> 0, key |-> 0, challenge |-> FALSE]
NoTx == [op |-> NoOne, on |-> NoOne, read |-> Gone]
NoRotation == [at |-> "idle", rows |-> {}, read |-> [d \in Destinations |-> Gone]]

TypeOK ==
    /\ att \in [Attempts -> Attempt]
    /\ dst \in [Destinations -> Destination]
    /\ sub \subseteq Destinations
    /\ given \in [Destinations -> Nat]
    /\ accepted \in [Attempts -> Nat]
    /\ wk \in [Workers -> WorkerState]
    /\ tx \in [Clients -> TxState]
    /\ rot \in [at : {"idle", "running", "stale"}, rows : SUBSET Destinations,
                read : [Destinations -> Destination]]
    /\ key \in Nat
    /\ left \in 0..MaxEvents

New(d) == [status |-> IF d \in EmailDests THEN "pending_verification" ELSE "enabled",
           secret |-> 1, key |-> 1, challenge |-> d \in EmailDests]

Init ==
    /\ att = [a \in Attempts |-> [status |-> "queued", count |-> 0, due |-> 0, lease |-> 0]]
    /\ dst = [d \in Destinations |-> New(d)]
    /\ sub = Destinations
    /\ given = [d \in Destinations |-> 1]
    /\ accepted = [a \in Attempts |-> 0]
    /\ wk = [w \in Workers |-> Off]
    /\ tx = [c \in Clients |-> NoTx]
    /\ rot = NoRotation
    /\ key = 1
    /\ left = MaxEvents

Event == left > 0 /\ left' = left - 1

-----------------------------------------------------------------------------
(* deliver_pending_attempts, by the clock of its caller.                    *)

StartBatch(w) ==
    /\ wk[w].at = "idle"
    /\ wk' = [wk EXCEPT ![w] = [Off EXCEPT !.at = "started"]]
    /\ UNCHANGED <<att, accepted, secrets, left>>

IsDue(w, a) == att[a].due + wk[w].lag <= 0

\* Mutant: only what could be retried is looked for.
ExpiredRetryable(w) == {a \in Attempts : /\ att[a].status = "leased"
                                         /\ att[a].count < MaxAttempts
                                         /\ att[a].lease + wk[w].lag < 0
                                         /\ IsDue(w, a)}

Expired(w) == {a \in Attempts : /\ att[a].status = "leased"
                                /\ att[a].lease + wk[w].lag < 0
                                /\ IsDue(w, a)}

Became(a, s) == [status |-> s, count |-> att[a].count, due |-> 0, lease |-> 0]

\* Mutant: an expired lease is retried.
RetryExpired(a) == Became(a, "retry_scheduled")

\* The outcome of an expired lease is unknown, and a resend might be a second one.
GiveUp(a) == Became(a, "permanent_failure")

Expire(w) ==
    /\ wk[w].at = "started"
    /\ att' = [a \in Attempts |-> IF a \in Expired(w) THEN GiveUp(a) ELSE att[a]]
    /\ wk' = [wk EXCEPT ![w].at = "ready"]
    /\ UNCHANGED <<accepted, secrets, left>>

\* Mutant: no FOR UPDATE.
NoneLocked == {}

\* The attempts others have selected FOR UPDATE.
Locked == {wk[v].on : v \in {u \in Workers : wk[u].at = "picked"}}

Available(w) == {a \in Attempts \ Locked : att[a].status \in Waiting /\ IsDue(w, a)}

Readable(r) == r.key \in {key - 1, key} /\ r.key # 0

\* SKIP LOCKED, the longest due first; the rows it points to are read with it.
Pick(w, a) ==
    /\ wk[w].at = "ready"
    /\ a \in Available(w) /\ \A b \in Available(w) : att[a].due <= att[b].due
    /\ wk' = [wk EXCEPT ![w] =
                [@ EXCEPT !.at = "picked", !.on = a,
                          !.enabled = dst[To[a]].status = "enabled",
                          !.subscribed = To[a] \in sub,
                          !.readable = Readable(dst[To[a]])]]
    /\ UNCHANGED <<att, accepted, secrets, left>>

EndBatch(w) ==
    /\ wk[w].at = "ready" /\ Available(w) = {}
    /\ wk' = [wk EXCEPT ![w] = Off]
    /\ UNCHANGED <<att, accepted, secrets, left>>

\* The batch goes on with the next attempt.
Continue(w) == [Off EXCEPT !.at = "ready", !.lag = wk[w].lag]

Wanted(w) == wk[w].enabled /\ (wk[w].subscribed \/ wk[w].on \in Tests)

Block(w) ==
    /\ wk[w].at = "picked" /\ ~Wanted(w)
    /\ att' = [att EXCEPT ![wk[w].on] = Became(wk[w].on, "configuration_blocked")]
    /\ wk' = [wk EXCEPT ![w] = Continue(w)]
    /\ UNCHANGED <<accepted, secrets, left>>

\* Quiet hours
Defer(w) ==
    /\ wk[w].at = "picked" /\ wk[w].enabled /\ wk[w].subscribed
    /\ att' = [att EXCEPT ![wk[w].on].due = Deferral - wk[w].lag]
    /\ wk' = [wk EXCEPT ![w] = Continue(w)]
    /\ UNCHANGED <<accepted, secrets, left>>

BlockUnreadable(w) ==
    LET d == To[wk[w].on] IN
    /\ wk[w].at = "picked" /\ Wanted(w) /\ ~wk[w].readable
    /\ d \notin rot.rows
    /\ att' = [att EXCEPT ![wk[w].on] = Became(wk[w].on, "configuration_blocked")]
    /\ dst' = [dst EXCEPT ![d].status = "configuration_blocked"]
    /\ wk' = [wk EXCEPT ![w] = Continue(w)]
    /\ UNCHANGED <<accepted, sub, given, tx, rot, key, left>>

TakeLease(w) ==
    LET a == wk[w].on IN
    /\ wk[w].at = "picked" /\ Wanted(w) /\ wk[w].readable
    /\ att' = [att EXCEPT ![a] = [status |-> "leased", count |-> att[a].count + 1,
                                  due |-> att[a].due, lease |-> Lease - wk[w].lag]]
    /\ wk' = [wk EXCEPT ![w].at = "sending"]
    /\ UNCHANGED <<accepted, secrets, left>>

(* The provider. What an adapter calls transient is a timeout as well: then *)
(* the provider may have accepted. So it may when the adapter raises.       *)
MayBeAccepted(answer) ==
    CASE answer = "accepted" -> {1}
      [] answer = "unknown" -> {0, 1}
      [] answer = "transient" -> IF LostAnswers THEN {0, 1} ELSE {0}
      [] OTHER -> {0}

Send(w, answer) ==
    /\ wk[w].at = "sending"
    /\ \E n \in MayBeAccepted(answer) :
          accepted' = [accepted EXCEPT ![wk[w].on] = accepted[wk[w].on] + n]
    /\ wk' = [wk EXCEPT ![w] = [@ EXCEPT !.at = "answered", !.answer = answer]]
    /\ UNCHANGED <<att, secrets, left>>

\* Mutant: an unknown outcome is retried.
RetriesUnknown(a, answer) ==
    answer \in {"transient", "unknown"} /\ att[a].count < MaxAttempts

Retries(a, answer) == answer = "transient" /\ att[a].count < MaxAttempts

\* 2 ** attempt_count minutes
Backoff(n) == 2 ^ (n - 1)

Outcome(a, answer, lag) ==
    CASE answer = "accepted" -> Became(a, "succeeded")
      [] Retries(a, answer) ->
           [status |-> "retry_scheduled", count |-> att[a].count,
            due |-> Backoff(att[a].count) - lag, lease |-> 0]
      [] answer = "unconfigured" -> Became(a, "configuration_blocked")
      [] OTHER -> Became(a, "permanent_failure")

Record(w) ==
    LET a == wk[w].on IN
    /\ wk[w].at = "answered"
    /\ att' = [att EXCEPT ![a] = Outcome(a, wk[w].answer, wk[w].lag)]
    /\ wk' = [wk EXCEPT ![w] = Continue(w)]
    /\ UNCHANGED <<accepted, secrets, left>>

Crash(w) ==
    /\ Event
    /\ wk[w].at # "idle"
    /\ wk' = [wk EXCEPT ![w] = Off]
    /\ UNCHANGED <<att, accepted, secrets>>

Down(t, floor) == IF t > floor THEN t - 1 ELSE floor

Tick ==
    /\ \A w \in Workers : wk[w].at # "idle" => wk[w].lag < MaxLag
    /\ SlowCalls \/ \A w \in Workers : wk[w].at \notin {"picked", "sending", "answered"}
    /\ wk' = [w \in Workers |-> IF wk[w].at = "idle" THEN wk[w]
                                ELSE [wk[w] EXCEPT !.lag = wk[w].lag + 1]]
    /\ att' = [a \in Attempts |->
                 IF att[a].status \in Final THEN att[a]
                 ELSE [att[a] EXCEPT !.due = Down(att[a].due, -MaxLag),
                                     !.lease = Down(att[a].lease, -MaxLag - 1)]]
    /\ UNCHANGED <<accepted, secrets, left>>

-----------------------------------------------------------------------------
(* What users do with a destination: the row is read without a lock, and    *)
(* the columns that change are written over whatever it has become.         *)
Begin(c, op, d) ==
    /\ Event
    /\ tx[c].op = NoOne
    /\ CASE op = "update" -> d \notin EmailDests
         [] op = "verify" -> /\ d \in EmailDests /\ dst[d].challenge
                             /\ \A e \in Clients : tx[e].on = d => tx[e].op # "verify"
         [] OTHER -> TRUE
    /\ tx' = [tx EXCEPT ![c] = [op |-> op, on |-> d, read |-> dst[d]]]
    /\ UNCHANGED <<delivery, dst, sub, given, rot, key>>

\* create_or_update_slack_destination, revoke_destination, verify_email_destination
Intended(op, d, r) ==
    CASE op = "update" ->
           [r EXCEPT !.status = "enabled", !.secret = given[d] + 1, !.key = key]
      [] op = "revoke" ->
           [r EXCEPT !.status = "revoked", !.secret = given[d] + 1, !.key = 0]
      [] op = "verify" -> [r EXCEPT !.status = "enabled", !.challenge = FALSE]

Written(new, old, now) ==
    [c \in DOMAIN now |-> IF new[c] # old[c] THEN new[c] ELSE now[c]]

\* Mutant: the rotation selects without FOR UPDATE.
NothingRotating == {}

Rotating == rot.rows

Commit(c) ==
    LET d == tx[c].on
        new == Intended(tx[c].op, d, tx[c].read)
    IN /\ tx[c].op # NoOne
       /\ d \notin Rotating
       /\ dst' = [dst EXCEPT ![d] = Written(new, tx[c].read, dst[d])]
       /\ given' = [given EXCEPT ![d] = IF tx[c].op = "verify" THEN @ ELSE @ + 1]
       /\ sub' = IF tx[c].op = "revoke" THEN sub \ {d} ELSE sub
       /\ tx' = [tx EXCEPT ![c] = NoTx]
       /\ UNCHANGED <<delivery, rot, key, left>>

\* upsert_subscription: only an enabled destination can be subscribed.
Subscribe(d) ==
    /\ Event
    /\ dst[d].status = "enabled"
    /\ \E s \in {sub \cup {d}, sub \ {d}} : s # sub /\ sub' = s
    /\ UNCHANGED <<delivery, dst, given, tx, rot, key>>

-----------------------------------------------------------------------------
(* run_destination_secret_rotation, one at a time by its job row; a crash   *)
(* leaves the row running until the watchdog fails it.                      *)
OldKeys == {d \in Destinations : dst[d].status # "revoked" /\ dst[d].key # key}

RotateRead ==
    /\ rot.at = "idle" /\ OldKeys # {}
    /\ rot' = [at |-> "running", rows |-> OldKeys, read |-> dst]
    /\ UNCHANGED <<delivery, dst, sub, given, tx, key, left>>

Reencrypted(d) ==
    IF Readable(rot.read[d])
    THEN [dst[d] EXCEPT !.secret = rot.read[d].secret, !.key = key]
    ELSE [dst[d] EXCEPT !.status = "configuration_blocked"]

RotateWrite ==
    /\ rot.at = "running"
    /\ dst' = [d \in Destinations |-> IF d \in rot.rows THEN Reencrypted(d) ELSE dst[d]]
    /\ rot' = NoRotation
    /\ UNCHANGED <<delivery, sub, given, tx, key, left>>

RotateCrash ==
    /\ Event
    /\ rot.at = "running"
    /\ rot' = [NoRotation EXCEPT !.at = "stale"]
    /\ UNCHANGED <<delivery, dst, sub, given, tx, key>>

Watchdog ==
    /\ rot.at = "stale"
    /\ rot' = NoRotation
    /\ UNCHANGED <<delivery, dst, sub, given, tx, key, left>>

\* The keyring is configuration: a new key comes with a restart of everything.
NewKey ==
    /\ Event
    /\ key' = key + 1
    /\ wk' = [w \in Workers |-> Off]
    /\ tx' = [c \in Clients |-> NoTx]
    /\ rot' = [NoRotation EXCEPT !.at = IF rot.at = "idle" THEN "idle" ELSE "stale"]
    /\ UNCHANGED <<att, accepted, dst, sub, given>>

-----------------------------------------------------------------------------
Deliver(w) ==
    \/ StartBatch(w) \/ Expire(w) \/ EndBatch(w)
    \/ \E a \in Attempts : Pick(w, a)
    \/ Block(w) \/ Defer(w) \/ BlockUnreadable(w) \/ TakeLease(w)
    \/ \E answer \in Answers : Send(w, answer)
    \/ Record(w)

Manage ==
    \/ \E c \in Clients, op \in {"update", "revoke", "verify"}, d \in Destinations :
          Begin(c, op, d)
    \/ \E c \in Clients : Commit(c)
    \/ \E d \in Destinations : Subscribe(d)
    \/ RotateRead \/ RotateWrite \/ RotateCrash \/ Watchdog
    \/ NewKey

Next == (\E w \in Workers : Deliver(w) \/ Crash(w)) \/ Manage \/ Tick

Spec == Init /\ [][Next]_vars

\* The scheduler starts batches for ever, they and time go on, row locks are granted
\* in turn, and quiet hours end.
Fairness ==
    /\ WF_vars(Tick)
    /\ WF_vars(RotateWrite)
    /\ \A w \in Workers :
          /\ WF_vars(Deliver(w)) /\ SF_vars(BlockUnreadable(w))
          /\ \A a \in Attempts : SF_vars(wk[w].on = a /\ TakeLease(w))

FairSpec == Spec /\ Fairness

-----------------------------------------------------------------------------
\* A lease is exclusive: two workers never have one attempt at a provider at once,
\* however slow a batch, whatever crashes.
OneSender ==
    \A v, w \in Workers :
        {wk[v].at, wk[w].at} \subseteq {"sending", "answered"} /\ wk[v].on = wk[w].on => v = w

\* "an expired lease or unexpected adapter exception [...] is not blindly resent": no
\* attempt is accepted twice, as long as a transient answer means that it was not.
AcceptedOnce == \A a \in Attempts : accepted[a] <= 1

\* A rotation never brings back a secret its user has replaced or revoked.
SecretIsLatest == \A d \in Destinations : dst[d].secret = given[d]

\* Every attempt that waits or is leased is settled in the end, also when its
\* worker crashed before it recorded the answer.
Settles ==
    \A a \in Attempts : att[a].status \in Waiting \cup {"leased"} ~> att[a].status \in Final

\* "permanent failures stop retrying and remain visible"
FailuresRemain ==
    [][\A a \in Attempts : att[a].status = "permanent_failure"
                            => att'[a].status = "permanent_failure"]_vars
=============================================================================
