----------------------------- MODULE PriceAlerts -----------------------------
(***************************************************************************)
(* What a user is told when the price of one stock crosses the value the   *)
(* user gave it: the requests that refresh prices, the user's case, value  *)
(* and threshold, and the schedulers, each of which evaluates the crossing *)
(* in its batch before it makes digests. An alert is a notification of     *)
(* Digests like any other. Time is that of the market, in ticks; a session *)
(* closes every SessionLength ticks.                                       *)
(***************************************************************************)
EXTENDS Digests

CONSTANTS
    Fetchers,      \* requests that refresh the price
    Closes,        \* closing prices
    Values,        \* values a user may give the stock
    Margins,       \* what the threshold takes off the value
    Hysteresis,    \* how far beyond the boundary a crossing goes
    Cooldown,      \* ticks between two alerts
    Throttle,      \* ticks between two refreshes
    SessionLength, \* ticks of a session
    MaxNow,        \* bound: ticks
    MaxRows,       \* bound: rows of prices
    MaxChanges     \* bound: what the user changes, and crashes

ASSUME AlertsAssumption ==
    /\ Closes \cup Values \cup Margins \subseteq Nat /\ 0 \notin Values
    /\ {Hysteresis, Cooldown, Throttle, MaxNow, MaxRows, MaxChanges} \subseteq Nat
    /\ SessionLength \in Nat \ {0, 1}

VARIABLES
    now,     \* the tick
    rows,    \* stock_prices of the stock; a row's id is its place
    fetch,   \* the refreshes under way
    desk,    \* the case, the value in force and the policy, as committed
    crossing,\* the notification_price_alert_states row
    ev,      \* the schedulers' evaluations
    alert,   \* what each alert says
    left     \* the changes still to come

alertVars == <<now, rows, fetch, desk, crossing, ev, alert, left>>
allVars == <<vars, alertVars>>
market == <<now, rows, fetch>>

NoRow == 0

\* 0 is no value: none was given, or it was said to be unavailable.
Desk == [monitoring : BOOLEAN, head : Nat, fact : Nat, value : Values \cup {0}, margin : Margins]

Sides == {"above", "below"}
Crossing == [row : Nat, fact : Nat, head : Nat, margin : Margins, side : Sides, notified : Int]
Never == -Cooldown - 1
NoCrossing == [row |-> NoRow, fact |-> 0, head |-> 0, margin |-> 0, side |-> "none",
               notified |-> Never]

Evaluation == [at : {"off", "begun", "told"}, asof : Nat, head : Nat, margin : Margins \cup {0}]
Off == [at |-> "off", asof |-> 0, head |-> 0, margin |-> 0]

Idle == [at |-> "idle", stamp |-> 0]

\* The logical key and the source version of an alert.
Alert == [side : Sides, margin : Margins, row : Nat, fact : Nat, value : Values]
NoAlert == [side |-> "none", margin |-> 0, row |-> NoRow, fact |-> 0, value |-> 0]

AlertInit ==
    /\ now = 0 /\ rows = <<>> /\ crossing = NoCrossing
    /\ fetch = [f \in Fetchers |-> Idle]
    /\ desk \in [monitoring : {TRUE}, head : {1}, fact : {1}, value : Values, margin : Margins]
    /\ ev = [r \in Replicas |-> Off]
    /\ alert = [k \in Keys |-> NoAlert]
    /\ left = MaxChanges

Change == left > 0 /\ left' = left - 1

-----------------------------------------------------------------------------
(* refresh_stock_prices: the rows are looked at, the provider is asked, and *)
(* whatever it says is added, all without a lock and without a unique       *)
(* index. Rows are stamped with the instant the request began; those of the *)
(* coverage queue with the end of the day, which comes a tick after the     *)
(* close and, before the close, is taken for that of the session to come.   *)
Session(t) == t \div SessionLength
DayEnd(t) == IF t % SessionLength = 0 THEN t + 1 ELSE (Session(t) + 1) * SessionLength + 1

Fetching == {f \in Fetchers : fetch[f] # Idle}

StartRefresh(f, stamp) ==
    /\ fetch[f] = Idle
    /\ Len(rows) + Cardinality(Fetching) < MaxRows
    /\ \A i \in DOMAIN rows : /\ stamp - rows[i].stamp >= Throttle
                              /\ rows[i].session # Session(stamp)
    /\ fetch' = [fetch EXCEPT ![f] = [at |-> "asked", stamp |-> stamp]]
    /\ UNCHANGED <<vars, now, rows, desk, crossing, ev, alert, left>>

\* The provider has a close for the session, or nothing that can be used.
EndRefresh(f) ==
    LET stamp == fetch[f].stamp IN
    /\ fetch[f] # Idle
    /\ \/ UNCHANGED rows
       \/ \E close \in Closes :
             rows' = Append(rows, [session |-> Session(stamp), close |-> close, stamp |-> stamp])
    /\ fetch' = [fetch EXCEPT ![f] = Idle]
    /\ UNCHANGED <<vars, now, desk, crossing, ev, alert, left>>

(* read_current_eod_price: among the rows known at an instant, those of the *)
(* latest session, and of these the one stamped last. It counts only if the *)
(* session is the one that should be complete by then.                      *)
CurrentRow(asof) ==
    LET known == {i \in DOMAIN rows : rows[i].stamp <= asof /\ rows[i].session = Session(asof)}
    IN IF known = {} THEN NoRow
       ELSE CHOOSE i \in known : \A j \in known :
               rows[j].stamp < rows[i].stamp \/ (rows[j].stamp = rows[i].stamp /\ j <= i)

-----------------------------------------------------------------------------
(* The user. A draft that was not opened on the head is refused.            *)

\* save_revision: a valuation is published as a new fact, in force unless it is dated back.
SaveRevision(monitoring, value) ==
    /\ Change
    /\ desk' = [desk EXCEPT !.monitoring = monitoring, !.head = @ + 1, !.fact = @ + 1,
                            !.value = value]
    /\ UNCHANGED <<vars, market, crossing, ev, alert>>

SaveWithoutValue(monitoring) ==
    /\ Change
    /\ desk' = [desk EXCEPT !.monitoring = monitoring, !.head = @ + 1]
    /\ UNCHANGED <<vars, market, crossing, ev, alert>>

\* upsert_subscription: the policy is one for all destinations, so that this one's
\* subscription is edited whichever the user edits.
SetMargin(margin) ==
    /\ Change
    /\ margin # desk.margin
    /\ ~Editing /\ (SlowEdits \/ \A p \in Producers : prod[p].at = "idle")
    /\ desk' = [desk EXCEPT !.margin = margin]
    /\ sub' = [sub EXCEPT !.updated = clock]
    /\ clock' = clock + 1
    /\ UNCHANGED <<midnights, morning, nextId, note, prod, edit, digests>>
    /\ UNCHANGED <<market, crossing, ev, alert>>

-----------------------------------------------------------------------------
(* materialize_intrinsic_value_crossings, by the time its batch began. The  *)
(* policies and the cases are read first and remembered while the advisory  *)
(* lock of user and stock is waited for. The rest is read and written under *)
(* the lock, up to the first commit: one step.                              *)

BeginRun(r) ==
    /\ ev[r] = Off /\ rep[r] = Asleep
    /\ desk.monitoring
    /\ ev' = [ev EXCEPT ![r] = [at |-> "begun", asof |-> now, head |-> desk.head,
                                margin |-> desk.margin]]
    /\ UNCHANGED <<vars, market, desk, crossing, alert, left>>

Boundary(e) == desk.value - e.margin

\* Mutant: a new threshold goes unnoticed.
SameCase(e) == crossing.fact = desk.fact /\ crossing.head = e.head

\* The value, the decision and the threshold the side was found with.
SameBoundary(e) ==
    crossing.fact = desk.fact /\ crossing.head = e.head /\ crossing.margin = e.margin

InitialSide(e) == IF rows[CurrentRow(e.asof)].close < Boundary(e) THEN "below" ELSE "above"

NewSide(e) ==
    LET close == rows[CurrentRow(e.asof)].close IN
    CASE crossing.side = "above" /\ close <= Boundary(e) - Hysteresis -> "below"
      [] crossing.side = "below" /\ close >= Boundary(e) + Hysteresis -> "above"
      [] OTHER -> crossing.side

\* Mutant: no instant is not an early one.
NullIsRecent(e) == crossing.notified # Never /\ crossing.notified + Cooldown <= e.asof

CooledDown(e) == crossing.notified + Cooldown <= e.asof

Found(e, side) == [crossing EXCEPT !.row = CurrentRow(e.asof), !.fact = desk.fact,
                                   !.head = e.head, !.margin = e.margin, !.side = side]

\* Mutant: a row that was evaluated is not looked at again.
SeenRow(e) == crossing.row = CurrentRow(e.asof)

\* Evaluated already, with nothing else changed.
Seen(e) == crossing.row = CurrentRow(e.asof) /\ SameBoundary(e)

Stop(r) == ev' = [ev EXCEPT ![r] = Off]

\* No row that counts, no value, or nothing new.
NothingToSee(r) ==
    /\ ev[r].at = "begun"
    /\ CurrentRow(ev[r].asof) = NoRow \/ desk.value = 0 \/ Seen(ev[r])
    /\ Stop(r)
    /\ UNCHANGED <<vars, market, desk, crossing, alert, left>>

Sees(r) ==
    /\ ev[r].at = "begun"
    /\ CurrentRow(ev[r].asof) # NoRow /\ desk.value # 0 /\ ~Seen(ev[r])

\* The first observation of a boundary tells nobody.
Initialize(r) ==
    /\ Sees(r)
    /\ crossing = NoCrossing \/ ~SameBoundary(ev[r])
    /\ crossing' = Found(ev[r], InitialSide(ev[r]))
    /\ Stop(r)
    /\ UNCHANGED <<vars, market, desk, alert, left>>

AlertOf(e) == [side |-> NewSide(e), margin |-> e.margin, row |-> CurrentRow(e.asof),
               fact |-> desk.fact, value |-> desk.value]
Told(e) == \E k \in Keys : alert[k] = AlertOf(e)

Observes(r) ==
    /\ Sees(r)
    /\ crossing # NoCrossing /\ SameBoundary(ev[r])
    /\ crossing' = Found(ev[r], NewSide(ev[r]))

\* Nothing crossed, it is too soon to say so, or it has been said.
Observe(r) ==
    /\ Observes(r)
    /\ NewSide(ev[r]) = crossing.side \/ ~CooledDown(ev[r]) \/ Told(ev[r])
    /\ Stop(r)
    /\ UNCHANGED <<vars, market, desk, alert, left>>

NextKey == CHOOSE k \in Keys : note[k].at = "none"

(* produce_notification commits the state with the notification and its     *)
(* attempts, and gives up the lock; that the user was notified is written   *)
(* only then. The transaction is taken to begin here.                       *)
Cross(r) ==
    /\ Observes(r)
    /\ NewSide(ev[r]) # crossing.side /\ CooledDown(ev[r]) /\ ~Told(ev[r])
    /\ SlowEdits \/ ~Editing
    /\ \E k \in Keys : note[k].at = "none"   \* bound
    /\ alert' = [alert EXCEPT ![NextKey] = AlertOf(ev[r])]
    /\ note' = [note EXCEPT ![NextKey] =
                   [at |-> "stored", created |-> clock, id |-> nextId,
                    told |-> IF sub.frequency = "immediate" THEN 1 ELSE 0]]
    /\ clock' = clock + 1 /\ nextId' = nextId + 1
    /\ ev' = [ev EXCEPT ![r].at = "told"]
    /\ UNCHANGED <<midnights, morning, prod, sub, edit, digests>>
    /\ UNCHANGED <<market, desk, left>>

RecordNotified(r) ==
    /\ ev[r].at = "told"
    /\ crossing' = [crossing EXCEPT !.notified = ev[r].asof]
    /\ Stop(r)
    /\ UNCHANGED <<vars, market, desk, alert, left>>

\* A process stops; what it has not committed is gone.
CrashRun(r) ==
    /\ Change
    /\ ev[r] # Off
    /\ Stop(r)
    /\ UNCHANGED <<vars, market, desk, crossing, alert>>

Tick ==
    /\ now < MaxNow /\ now' = now + 1
    /\ UNCHANGED <<vars, rows, fetch, desk, crossing, ev, alert, left>>

-----------------------------------------------------------------------------
Evaluate(r) ==
    \/ NothingToSee(r) \/ Initialize(r) \/ Observe(r) \/ Cross(r) \/ RecordNotified(r)

AlertNext ==
    \/ \E f \in Fetchers : (\E t \in {now, DayEnd(now)} : StartRefresh(f, t)) \/ EndRefresh(f)
    \/ \E monitoring \in BOOLEAN :
          (\E value \in Values \cup {0} : SaveRevision(monitoring, value))
          \/ SaveWithoutValue(monitoring)
    \/ \E margin \in Margins : SetMargin(margin)
    \/ \E r \in Replicas : BeginRun(r) \/ Evaluate(r) \/ CrashRun(r)
    \/ Tick

\* A scheduler makes digests when its evaluation is over.
DigestNext ==
    /\ Next
    /\ \A r \in Replicas : ev[r] # Off => rep'[r] = rep[r]
    /\ UNCHANGED alertVars

AllNext == AlertNext \/ DigestNext

\* Batches are begun for ever, and locks are granted in turn.
AlertFairness ==
    /\ Fairness
    /\ \A r \in Replicas : WF_allVars(BeginRun(r)) /\ WF_allVars(Evaluate(r))

AllSpec == Init /\ AlertInit /\ [][AllNext]_allVars /\ AlertFairness

-----------------------------------------------------------------------------
\* "a user edit or newly confirmed decision cannot masquerade as a market-price
\* crossing": whatever was edited, remembered or overtaken, a row on the other side of the
\* boundary that an alert is about has come in.
OnlyMarketCrosses ==
    \A k \in Keys : alert[k] # NoAlert =>
        \E i \in DOMAIN rows :
            alert[k].side # IF rows[i].close < alert[k].value - alert[k].margin
                            THEN "below" ELSE "above"

\* Unless it is too soon after the last alert, the side never changes without an alert
\* that says so, be it through a crash or another scheduler.
NoSilentCrossing ==
    [][crossing.side # "none" /\ crossing'.side # crossing.side
         /\ <<crossing'.fact, crossing'.head, crossing'.margin>>
              = <<crossing.fact, crossing.head, crossing.margin>>
       => \/ \E k \in Keys :
               /\ alert'[k].side = crossing'.side
               /\ alert'[k].row = crossing'.row
               /\ alert'[k].fact = crossing'.fact
          \/ \E r \in Replicas :
               /\ ev[r].at = "begun" /\ ev'[r] = Off
               /\ crossing.notified > ev[r].asof - Cooldown]_allVars

\* The documents' "cooldown prevents oscillation" for two schedulers: nobody alerts while
\* another has alerted and not yet said so. The code does not keep it, and no run checks it.
CooldownKept ==
    [][\A r, s \in Replicas :
         ev[s].at = "told" /\ ev[r].at = "begun" /\ ev[r].asof < ev[s].asof + Cooldown
           => ev'[r].at # "told"]_allVars

Evaluable == desk.monitoring /\ desk.value > 0 /\ CurrentRow(now) # NoRow

\* Once prices and the user have come to rest, what is known of the crossing is about the
\* current row, value, decision and threshold, whoever has overwritten it meanwhile.
FollowsMarket ==
    []<>(Evaluable => <<crossing.row, crossing.fact, crossing.head, crossing.margin>>
                        = <<CurrentRow(now), desk.fact, desk.head, desk.margin>>)
=============================================================================
