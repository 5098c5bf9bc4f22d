--------------------------- MODULE ParseRunsProofs --------------------------
(***************************************************************************)
(* Of ParseRuns, for any sessions, declared totals and bounds: at most one  *)
(* run serves, a filing that is shown stays shown, and no session hands it  *)
(* back to an older run.                                                     *)
(***************************************************************************)
EXTENDS ParseRuns, TLAPS

(* At most one run serves, and it is the only one: the index. Sessions       *)
(* remember runs that exist, and a gate reinstates an older run than it      *)
(* refuses.                                                                   *)
OneServes == \A i, j \in Current : i = j

Remembered ==
    \A s \in Sessions :
      /\ ses[s].old \in 0..Len(runs)
      /\ ses[s].before \in 0..Len(runs)
      /\ ses[s].at = "gate" => ses[s].new \in 1..Len(runs) /\ ses[s].before < ses[s].new

Inv == TypeOK /\ OneServes /\ Remembered

-----------------------------------------------------------------------------
LEMMA SeqIsFunction ==
    ASSUME NEW S, NEW q \in Seq(S)
    PROVE  /\ Len(q) \in Nat
           /\ DOMAIN q = 1..Len(q)
           /\ \A i \in DOMAIN q : q[i] \in S
  OBVIOUS

LEMMA FunctionIsSeq ==
    ASSUME NEW S, NEW n \in Nat, NEW f, DOMAIN f = 1..n, f = [i \in 1..n |-> f[i]],
           \A i \in 1..n : f[i] \in S
    PROVE  f \in Seq(S) /\ Len(f) = n
  OBVIOUS

LEMMA Appended ==
    ASSUME NEW S, NEW q \in Seq(S), NEW e \in S
    PROVE  /\ Append(q, e) \in Seq(S)
           /\ Len(Append(q, e)) = Len(q) + 1
           /\ DOMAIN Append(q, e) = 1..Len(q) + 1
           /\ Append(q, e)[Len(q) + 1] = e
           /\ \A i \in 1..Len(q) : Append(q, e)[i] = q[i]
  OBVIOUS

(* What demoting or restoring the old run makes of the committed runs.       *)
LEMMA OldMadeRuns ==
    ASSUME TypeOK, NEW s \in Sessions, NEW c \in BOOLEAN
    PROVE  /\ OldMade(s, c) \in Seq(Run)
           /\ Len(OldMade(s, c)) = Len(runs)
           /\ \A i \in 1..Len(runs) :
                OldMade(s, c)[i].current = IF i = ses[s].old THEN c ELSE runs[i].current
  <1>1. /\ Len(runs) \in Nat
        /\ DOMAIN runs = 1..Len(runs)
        /\ \A i \in DOMAIN runs : runs[i] \in Run
    BY SeqIsFunction DEF TypeOK
  <1>2. /\ DOMAIN OldMade(s, c) = 1..Len(runs)
        /\ OldMade(s, c) = [i \in 1..Len(runs) |-> OldMade(s, c)[i]]
    BY <1>1 DEF OldMade
  <1>3. ASSUME NEW i \in 1..Len(runs)
        PROVE  /\ OldMade(s, c)[i] \in Run
               /\ OldMade(s, c)[i].current = IF i = ses[s].old THEN c ELSE runs[i].current
    BY <1>1 DEF OldMade, Run
  <1> QED
    BY <1>1, <1>2, <1>3, FunctionIsSeq

LEMMA NewRuns ==
    /\ Failure \in Run /\ ~Failure.current
    /\ \A rows \in Nat, empty \in BOOLEAN, current \in BOOLEAN :
         /\ Parsed(rows, empty, current) \in Run
         /\ Parsed(rows, empty, current).current = current
  BY DEF Failure, Parsed, Run

LEMMA IdleType ==
    /\ Idle \in SessionState
    /\ Idle.at = "idle" /\ Idle.old = 0 /\ Idle.before = 0
  BY DEF Idle, SessionState

(* The session states the actions make of another one.                        *)
Starts(x, status) == [x EXCEPT !.at = "starting", !.seen = status]
Parses(x, status) == [x EXCEPT !.at = "parsing", !.seen = status]
Controls(x, status, n) ==
    [x EXCEPT !.at = "starting", !.seen = status, !.gated = TRUE, !.before = n]
Gates(x, n, live) == [x EXCEPT !.at = "gate", !.new = n, !.live = live]
Finds(x, n, at) == [x EXCEPT !.old = n, !.at = at]

LEMMA NextStates ==
    ASSUME NEW x \in SessionState, NEW status \in {"pending", "succeeded", "failed"}
    PROVE  /\ Starts(x, status) \in SessionState
           /\ Starts(x, status).old = x.old /\ Starts(x, status).before = x.before
           /\ Starts(x, status).at = "starting"
           /\ Parses(x, status) \in SessionState
           /\ Parses(x, status).old = x.old /\ Parses(x, status).before = x.before
           /\ Parses(x, status).at = "parsing"
  BY DEF SessionState, Starts, Parses

LEMMA ControlledStates ==
    ASSUME NEW x \in SessionState, NEW n \in Nat,
           NEW status \in {"pending", "succeeded", "failed"}
    PROVE  /\ Controls(x, status, n) \in SessionState
           /\ Controls(x, status, n).old = x.old /\ Controls(x, status, n).before = n
           /\ Controls(x, status, n).at = "starting"
  BY DEF SessionState, Controls

LEMMA GatedStates ==
    ASSUME NEW x \in SessionState, NEW n \in Nat, NEW live \in BOOLEAN
    PROVE  /\ Gates(x, n, live) \in SessionState
           /\ Gates(x, n, live).old = x.old /\ Gates(x, n, live).before = x.before
           /\ Gates(x, n, live).new = n
  BY DEF SessionState, Gates

LEMMA FoundStates ==
    ASSUME NEW x \in SessionState, NEW n \in Nat, NEW at \in {"starting", "demoting", "parsing"}
    PROVE  /\ Finds(x, n, at) \in SessionState
           /\ Finds(x, n, at).old = n /\ Finds(x, n, at).before = x.before
           /\ Finds(x, n, at).at = at
  BY DEF SessionState, Finds

LEMMA InitInv == Init => Inv
  <1> SUFFICES ASSUME Init PROVE Inv
    OBVIOUS
  <1>1. /\ runs \in Seq(Run)
        /\ parse \in {"pending", "succeeded", "failed"}
        /\ \A i, j \in DOMAIN runs : i = j
        /\ Len(runs) \in Nat
    <2>1. CASE runs = <<>> /\ parse = "pending"
      BY <2>1
    <2>2. CASE \E rows \in 0..MaxRows, fresh \in BOOLEAN :
                 /\ runs = <<[Parsed(rows, rows = 0, TRUE) EXCEPT !.fresh = fresh]>>
                 /\ parse = "succeeded"
      <3>1. PICK rows \in 0..MaxRows, fresh \in BOOLEAN :
                 /\ runs = <<[Parsed(rows, rows = 0, TRUE) EXCEPT !.fresh = fresh]>>
                 /\ parse = "succeeded"
        BY <2>2
      <3> DEFINE e == [Parsed(rows, rows = 0, TRUE) EXCEPT !.fresh = fresh]
      <3>2. e \in Run
        <4>1. \A empty \in BOOLEAN : [Parsed(rows, empty, TRUE) EXCEPT !.fresh = fresh] \in Run
          <5>1. \A p \in Run : [p EXCEPT !.fresh = fresh] \in Run
            BY DEF Run
          <5>2. rows \in Nat
            BY ParseRunsAssumption
          <5> QED
            BY <5>1, <5>2, NewRuns
        <4>2. (rows = 0) \in BOOLEAN
          OBVIOUS
        <4> QED
          BY <4>1, <4>2, Zenon
      <3> HIDE DEF e
      <3>3. runs = <<e>>
        BY <3>1 DEF e
      <3>4. <<e>> \in Seq(Run) /\ Len(<<e>>) = 1 /\ DOMAIN <<e>> = 1..1
        BY <3>2
      <3>5. \A i, j \in 1..1 : i = j
        OBVIOUS
      <3> QED
        BY <3>1, <3>3, <3>4, <3>5
    <2> QED
      BY <2>1, <2>2 DEF Init
  <1>2. TypeOK
    BY <1>1, IdleType DEF Init, TypeOK
  <1>3. OneServes
    BY <1>1 DEF OneServes, Current
  <1>4. Remembered
    <2>1. \A s \in Sessions : ses[s] = Idle
      BY DEF Init
    <2>2. 0 \in 0..Len(runs)
      BY <1>1
    <2>3. "idle" # "gate"
      OBVIOUS
    <2> QED
      BY <2>1, <2>2, <2>3, IdleType DEF Remembered
  <1> QED
    BY <1>2, <1>3, <1>4 DEF Inv

(* A session that moves on and leaves the runs alone.                        *)
LEMMA SessionMoves ==
    ASSUME Inv, NEW s \in Sessions, NEW r \in SessionState,
           UNCHANGED <<declared, runs>>, parse' \in {"pending", "succeeded", "failed"},
           ses' = [ses EXCEPT ![s] = r],
           r.old \in 0..Len(runs), r.before \in 0..Len(runs),
           r.at # "gate"
    PROVE  Inv' /\ Current' = Current
  <1>1. TypeOK'
    BY DEF Inv, TypeOK
  <1>2. Current' = Current
    BY DEF Current
  <1>3. OneServes'
    BY <1>2 DEF Inv, OneServes
  <1>4. Remembered'
    BY DEF Inv, TypeOK, Remembered, SessionState
  <1> QED
    BY <1>1, <1>2, <1>3, <1>4 DEF Inv

(* A run e committed behind runs q, of the present length.                   *)
LEMMA RunCommitted ==
    ASSUME Inv, NEW q \in Seq(Run), NEW e \in Run, Len(q) = Len(runs), runs' = Append(q, e)
    PROVE  /\ runs' \in Seq(Run) /\ Len(runs') = Len(runs) + 1
           /\ Current' = {i \in 1..Len(runs) : q[i].current}
                         \cup (IF e.current THEN {Len(runs) + 1} ELSE {})
           /\ Current = {i \in 1..Len(runs) : runs[i].current}
           /\ runs'[Len(runs) + 1] = e
  <1>1. /\ Len(runs) \in Nat
        /\ DOMAIN runs = 1..Len(runs)
    BY SeqIsFunction DEF Inv, TypeOK
  <1>2. /\ runs' \in Seq(Run)
        /\ Len(runs') = Len(runs) + 1
        /\ DOMAIN runs' = 1..Len(runs) + 1
        /\ runs'[Len(runs) + 1] = e
        /\ \A i \in 1..Len(runs) : runs'[i] = q[i]
    BY Appended
  <1>3. Current' = {i \in 1..Len(runs) : q[i].current}
                   \cup (IF e.current THEN {Len(runs) + 1} ELSE {})
    BY <1>1, <1>2 DEF Current
  <1>4. Current = {i \in 1..Len(runs) : runs[i].current}
    BY <1>1 DEF Current
  <1> QED
    BY <1>2, <1>3, <1>4

(* What the session that commits it remembers.                               *)
Remembers(r) ==
    /\ r \in SessionState
    /\ r.old \in 0..Len(runs)
    /\ r.before \in 0..Len(runs)
    /\ r.at = "gate" => r.new = Len(runs) + 1

LEMMA SessionCommits ==
    ASSUME Inv, NEW s \in Sessions, NEW r, Remembers(r),
           runs' \in Seq(Run), Len(runs') = Len(runs) + 1, UNCHANGED declared,
           parse' \in {"pending", "succeeded", "failed"},
           ses' = [ses EXCEPT ![s] = r]
    PROVE  TypeOK' /\ Remembered'
  <1>1. Len(runs) \in Nat
    BY SeqIsFunction DEF Inv, TypeOK
  <1>2. TypeOK'
    BY DEF Inv, TypeOK, Remembers
  <1>3. Remembered'
    BY <1>1 DEF Inv, TypeOK, Remembered, Remembers, SessionState
  <1> QED
    BY <1>2, <1>3

-----------------------------------------------------------------------------
(* Every step keeps the invariant and, unless a gate ends, is neither dark   *)
(* nor back nor worse.                                                        *)
Kept == FirstGateEnds \/ Current = {} \/ Current' # {}
Forward == GateEnds \/ \A i \in Current, j \in Current' : i <= j
Better ==
    GateEnds \/ \A i \in Current, j \in Current' :
      \/ i = j \/ runs'[j].empty
      \/ IF declared > 0 THEN runs'[j].rows = declared ELSE runs'[j].rows >= runs[i].rows

LEMMA SameServes ==
    ASSUME Inv, Current' = Current
    PROVE  Kept /\ Forward /\ Better
  <1>1. \A i \in Current : i \in Nat
    BY SeqIsFunction DEF Inv, TypeOK, Current
  <1>2. \A i, j \in Current : i = j /\ i <= j
    BY <1>1 DEF Inv, OneServes
  <1> QED
    BY <1>2 DEF Kept, Forward, Better

LEMMA SessionStarts ==
    ASSUME Inv, NEW s \in Sessions,
           \/ IngestFirst(s) \/ IngestStale(s) \/ Reparse(s) \/ Control(s)
           \/ FindCurrent(s) \/ Demote(s) \/ Crash(s) \/ GatePasses(s)
    PROVE  Inv' /\ Current' = Current
  <1>1. /\ TypeOK /\ OneServes /\ Remembered
        /\ ses[s] \in SessionState
        /\ Len(runs) \in Nat /\ DOMAIN runs = 1..Len(runs)
    BY SeqIsFunction DEF Inv, TypeOK
  <1>2. Serving \in 0..Len(runs)
    BY <1>1 DEF Serving, Current
  <1>3. PICK r \in SessionState :
             /\ ses' = [ses EXCEPT ![s] = r]
             /\ r.old \in 0..Len(runs) /\ r.before \in 0..Len(runs) /\ r.at # "gate"
    <2>0. /\ parse \in {"pending", "succeeded", "failed"} /\ Serving \in Nat
          /\ 0 \in 0..Len(runs)
      BY <1>1, <1>2 DEF TypeOK
    <2>1. CASE IngestFirst(s)
      <3>1. ses' = [ses EXCEPT ![s] = Parses(Idle, parse)]
        BY <2>1 DEF IngestFirst, Parses
      <3>2. /\ Parses(Idle, parse) \in SessionState
            /\ Parses(Idle, parse).old \in 0..Len(runs)
            /\ Parses(Idle, parse).before \in 0..Len(runs)
            /\ Parses(Idle, parse).at # "gate"
        BY <2>0, IdleType, NextStates
      <3> QED
        BY <3>1, <3>2
    <2>2. CASE IngestStale(s) \/ Reparse(s)
      <3>1. ses' = [ses EXCEPT ![s] = Starts(Idle, parse)]
        BY <2>2 DEF IngestStale, Reparse, Starts
      <3>2. /\ Starts(Idle, parse) \in SessionState
            /\ Starts(Idle, parse).old \in 0..Len(runs)
            /\ Starts(Idle, parse).before \in 0..Len(runs)
            /\ Starts(Idle, parse).at # "gate"
        BY <2>0, IdleType, NextStates
      <3> QED
        BY <3>1, <3>2
    <2>3. CASE Control(s)
      <3>1. ses' = [ses EXCEPT ![s] = Controls(Idle, parse, Serving)]
        BY <2>3 DEF Control, Controls
      <3>2. /\ Controls(Idle, parse, Serving) \in SessionState
            /\ Controls(Idle, parse, Serving).old = Idle.old
            /\ Controls(Idle, parse, Serving).before = Serving
            /\ Controls(Idle, parse, Serving).at = "starting"
        <4>1. /\ Idle \in SessionState /\ Serving \in Nat
              /\ parse \in {"pending", "succeeded", "failed"}
          BY <2>0, IdleType
        <4> QED
          BY <4>1, ControlledStates, Zenon
      <3> QED
        BY <1>2, <2>0, <3>1, <3>2, IdleType
    <2>4. CASE FindCurrent(s)
      <3> DEFINE at == IF Serving = 0 THEN "parsing" ELSE "demoting"
      <3>1. at \in {"starting", "demoting", "parsing"} /\ at # "gate"
        OBVIOUS
      <3>2. ses' = [ses EXCEPT ![s] = Finds(ses[s], Serving, at)]
        BY <1>1, <2>4 DEF FindCurrent, Finds, TypeOK
      <3>3. ses[s].before \in 0..Len(runs)
        BY <1>1 DEF Remembered
      <3> HIDE DEF at
      <3>4. /\ Finds(ses[s], Serving, at) \in SessionState
            /\ Finds(ses[s], Serving, at).old = Serving
            /\ Finds(ses[s], Serving, at).before = ses[s].before
            /\ Finds(ses[s], Serving, at).at = at
        BY <1>1, <2>0, <3>1, FoundStates
      <3> QED
        BY <1>2, <3>1, <3>2, <3>3, <3>4
    <2>5. CASE Demote(s)
      <3> DEFINE r == [ses[s] EXCEPT !.at = "parsing"]
      <3>1. /\ r \in SessionState /\ r.old = ses[s].old /\ r.before = ses[s].before
            /\ r.at = "parsing"
        BY <1>1 DEF SessionState
      <3>2. ses' = [ses EXCEPT ![s] = r]
        BY <1>1, <2>5 DEF Demote, TypeOK
      <3> QED
        BY <1>1, <3>1, <3>2 DEF Remembered
    <2>6. CASE Crash(s) \/ GatePasses(s)
      BY <1>1, <2>6, IdleType DEF Crash, GatePasses
    <2> QED
      BY <2>1, <2>2, <2>3, <2>4, <2>5, <2>6
  <1>4. UNCHANGED <<declared, runs, parse>>
    BY DEF IngestFirst, IngestStale, Reparse, Control, FindCurrent, Demote, Crash, GatePasses
  <1> QED
    BY <1>1, <1>3, <1>4, SessionMoves DEF TypeOK

LEMMA ReturnedState ==
    ASSUME Inv, NEW s \in Sessions, NEW live \in BOOLEAN
    PROVE  Remembers(Returned(s, live)) /\ Remembers(Idle)
  <1>1. ses[s] \in SessionState /\ Len(runs) \in Nat
    BY SeqIsFunction DEF Inv, TypeOK
  <1>2. ses[s].old \in 0..Len(runs) /\ ses[s].before \in 0..Len(runs)
    BY DEF Inv, Remembered
  <1>3. Remembers(Idle)
    BY <1>1, IdleType DEF Remembers
  <1>4. CASE ses[s].gated
    <2>1. Len(runs) + 1 \in Nat
      BY <1>1
    <2>2. Returned(s, live) = Gates(ses[s], Len(runs) + 1, live)
      BY <1>4 DEF Returned, Gates
    <2>3. /\ Gates(ses[s], Len(runs) + 1, live) \in SessionState
          /\ Gates(ses[s], Len(runs) + 1, live).old = ses[s].old
          /\ Gates(ses[s], Len(runs) + 1, live).before = ses[s].before
          /\ Gates(ses[s], Len(runs) + 1, live).new = Len(runs) + 1
      BY <1>1, <2>1, GatedStates
    <2>4. Remembers(Gates(ses[s], Len(runs) + 1, live))
      BY <1>2, <2>3 DEF Remembers
    <2> QED
      BY <1>3, <2>2, <2>4
  <1>5. CASE ~ses[s].gated
    BY <1>3, <1>5 DEF Returned
  <1> QED
    BY <1>4, <1>5

LEMMA SessionParses ==
    ASSUME Inv, NEW s \in Sessions, Parse(s)
    PROVE  Inv' /\ Kept /\ Forward /\ Better
  <1>1. /\ TypeOK /\ OneServes /\ Remembered
        /\ ses[s] \in SessionState
        /\ Len(runs) \in Nat /\ DOMAIN runs = 1..Len(runs)
        /\ ses[s].old \in 0..Len(runs)
    BY SeqIsFunction DEF Inv, TypeOK, Remembered
  <1>2. \A status \in {"pending", "succeeded", "failed"} :
          Write(status, ses[s].seen) \in {"pending", "succeeded", "failed"}
    BY <1>1 DEF Write, TypeOK
  <1>4. ASSUME NEW rows \in 0..MaxRows, NEW empty \in BOOLEAN, Activate(s, rows, empty)
        PROVE  Inv' /\ Kept /\ Forward /\ Better
    <2> DEFINE e == Parsed(rows, empty, TRUE)
               q == Demoted(s)
    <2>1. rows \in Nat
      BY ParseRunsAssumption
    <2>2. e \in Run /\ e.current
      BY <2>1, NewRuns
    <2>3. /\ q \in Seq(Run) /\ Len(q) = Len(runs)
          /\ \A i \in 1..Len(runs) :
               q[i].current = IF i = ses[s].old THEN FALSE ELSE runs[i].current
      BY <1>1, OldMadeRuns DEF Demoted
    <2>4. /\ runs' = Append(q, e) /\ UNCHANGED declared
          /\ parse' \in {"pending", "succeeded", "failed"}
          /\ ses' = [ses EXCEPT ![s] = Returned(s, TRUE)]
          /\ Beside(s) = {}
      BY <1>2, <1>4 DEF Activate
    <2> DEFINE r == Returned(s, TRUE)
    <2>5. Remembers(r) /\ ses' = [ses EXCEPT ![s] = r]
      BY <2>4, ReturnedState
    <2> HIDE DEF e, q, r
    <2>6. /\ runs' \in Seq(Run) /\ Len(runs') = Len(runs) + 1
          /\ Current' = {i \in 1..Len(runs) : q[i].current} \cup {Len(runs) + 1}
          /\ Current = {i \in 1..Len(runs) : runs[i].current}
          /\ runs'[Len(runs) + 1] = e
      BY <2>2, <2>3, <2>4, RunCommitted
    <2>7. TypeOK' /\ Remembered'
      BY <2>4, <2>5, <2>6, SessionCommits
    <2>8. {i \in 1..Len(runs) : q[i].current} = {}
      BY <1>1, <2>3, <2>4, <2>6 DEF Beside
    <2>9. Better
      <3>1. e.rows = rows /\ e.empty = empty
        BY DEF e, Parsed
      <3>2. \A i \in Current : i = ses[s].old /\ i # 0 /\ runs[i].rows \in Nat
        <4>1. \A i \in 1..Len(runs) : runs[i] \in Run
          BY <1>1, SeqIsFunction DEF TypeOK
        <4>2. \A i \in 1..Len(runs) : runs[i].rows \in Nat
          BY <4>1 DEF Run
        <4>3. \A i \in Current : i = ses[s].old /\ i \in 1..Len(runs)
          BY <2>4, <2>6 DEF Beside
        <4> QED
          BY <1>1, <4>2, <4>3
      <3>3. ~Regression(ses[s].old, rows, empty)
        BY <1>4 DEF Activate
      <3>4. declared \in Nat
        BY <1>1, ParseRunsAssumption DEF TypeOK
      <3> QED
        BY <2>1, <2>6, <2>8, <3>1, <3>2, <3>3, <3>4 DEF Better, Regression
    <2> QED
      BY <1>1, <2>6, <2>7, <2>8, <2>9 DEF Inv, OneServes, Kept, Forward
  <1>5. ASSUME NEW rows \in 0..MaxRows, NEW empty \in BOOLEAN, Quarantine(s, rows, empty)
        PROVE  Inv' /\ Kept /\ Forward /\ Better
    <2> DEFINE e == Parsed(rows, empty, FALSE)
               q == Restored(s)
    <2>1. rows \in Nat
      BY ParseRunsAssumption
    <2>2. e \in Run /\ ~e.current
      BY <2>1, NewRuns
    <2>3. /\ q \in Seq(Run) /\ Len(q) = Len(runs)
          /\ \A i \in 1..Len(runs) :
               q[i].current = IF i = ses[s].old THEN TRUE ELSE runs[i].current
      BY <1>1, OldMadeRuns DEF Restored
    <2>4. /\ runs' = Append(q, e) /\ UNCHANGED declared
          /\ parse' \in {"pending", "succeeded", "failed"}
          /\ ses' = [ses EXCEPT ![s] = Returned(s, FALSE)]
          /\ Beside(s) = {} /\ ses[s].old # 0
      BY <1>1, <1>5 DEF Quarantine, Regression, TypeOK
    <2> DEFINE r == Returned(s, FALSE)
    <2>5. Remembers(r) /\ ses' = [ses EXCEPT ![s] = r]
      BY <2>4, ReturnedState
    <2> HIDE DEF e, q, r
    <2>6. /\ runs' \in Seq(Run) /\ Len(runs') = Len(runs) + 1
          /\ Current' = {i \in 1..Len(runs) : q[i].current}
          /\ Current = {i \in 1..Len(runs) : runs[i].current}
      BY <2>2, <2>3, <2>4, RunCommitted
    <2>7. TypeOK' /\ Remembered'
      BY <2>4, <2>5, <2>6, SessionCommits
    <2>8. Current' = {ses[s].old} /\ Current \subseteq {ses[s].old}
      <3>1. Current \subseteq {ses[s].old}
        BY <2>4 DEF Beside
      <3>2. ses[s].old \in 1..Len(runs)
        BY <1>1, <2>4
      <3>3. \A i \in 1..Len(runs) : q[i].current <=> i = ses[s].old
        BY <2>3, <2>6, <3>1
      <3> QED
        BY <2>6, <3>1, <3>2, <3>3
    <2> QED
      BY <1>1, <2>6, <2>7, <2>8 DEF Inv, OneServes, Kept, Forward, Better
  <1>6. CASE ReparseFails(s)
    <2> DEFINE q == Restored(s)
    <2>1. /\ q \in Seq(Run) /\ Len(q) = Len(runs)
          /\ \A i \in 1..Len(runs) :
               q[i].current = IF i = ses[s].old THEN TRUE ELSE runs[i].current
      BY <1>1, OldMadeRuns DEF Restored
    <2>2. /\ runs' = Append(q, Failure) /\ UNCHANGED declared
          /\ parse' \in {"pending", "succeeded", "failed"}
          /\ ses' = [ses EXCEPT ![s] = Idle]
          /\ Beside(s) = {} /\ ses[s].old # 0
      BY <1>2, <1>6 DEF ReparseFails
    <2> HIDE DEF q
    <2>3. /\ runs' \in Seq(Run) /\ Len(runs') = Len(runs) + 1
          /\ Current' = {i \in 1..Len(runs) : q[i].current}
          /\ Current = {i \in 1..Len(runs) : runs[i].current}
      BY <2>1, <2>2, NewRuns, RunCommitted
    <2>4. TypeOK' /\ Remembered'
      BY <2>2, <2>3, ReturnedState, SessionCommits
    <2>5. Current' = {ses[s].old} /\ Current \subseteq {ses[s].old}
      <3>1. Current \subseteq {ses[s].old}
        BY <2>2 DEF Beside
      <3>2. ses[s].old \in 1..Len(runs)
        BY <1>1, <2>2
      <3>3. \A i \in 1..Len(runs) : q[i].current <=> i = ses[s].old
        BY <2>1, <2>3, <3>1
      <3> QED
        BY <2>3, <3>1, <3>2, <3>3
    <2> QED
      BY <1>1, <2>3, <2>4, <2>5 DEF Inv, OneServes, Kept, Forward, Better
  <1>7. CASE FirstFails(s) \/ FirstLoses(s)
    <2>1. /\ runs' = Append(runs, Failure) /\ UNCHANGED declared
          /\ parse' \in {"pending", "succeeded", "failed"}
          /\ ses' = [ses EXCEPT ![s] = Idle]
      BY <1>2, <1>7 DEF FirstFails, FirstLoses
    <2>2. /\ runs' \in Seq(Run) /\ Len(runs') = Len(runs) + 1
          /\ Current' = {i \in 1..Len(runs) : runs[i].current}
          /\ Current = {i \in 1..Len(runs) : runs[i].current}
      BY <1>1, <2>1, NewRuns, RunCommitted DEF TypeOK
    <2>3. TypeOK' /\ Remembered'
      BY <2>1, <2>2, ReturnedState, SessionCommits
    <2> QED
      BY <1>1, <2>2, <2>3, SameServes DEF Inv, OneServes
  <1>8. CASE ReparseLoses(s)
    <2>1. /\ Idle \in SessionState /\ Idle.at # "gate"
          /\ Idle.old \in 0..Len(runs) /\ Idle.before \in 0..Len(runs)
      BY <1>1, IdleType
    <2>2. /\ UNCHANGED <<declared, runs>> /\ ses' = [ses EXCEPT ![s] = Idle]
          /\ parse' \in {"pending", "succeeded", "failed"}
      BY <1>1, <1>8 DEF ReparseLoses, TypeOK
    <2>3. Inv' /\ Current' = Current
      BY <2>1, <2>2, SessionMoves
    <2> QED
      BY <2>3, SameServes
  <1> QED
    BY <1>4, <1>5, <1>6, <1>7, <1>8 DEF Parse

(* A gate that refuses: before is older than new, so what it reinstates and  *)
(* what it demotes are different runs.                                        *)
LEMMA GateRefuses ==
    ASSUME Inv, NEW s \in Sessions, GateFails(s)
    PROVE  Inv' /\ Kept /\ Forward /\ Better
  <1> DEFINE touched == Refused(s) \cup Reinstated(s)
             fires == Reinstated(s) # {} /\ Current \ Refused(s) # {}
             f == [i \in DOMAIN runs |->
                     IF i \in touched THEN [runs[i] EXCEPT !.current = i \in Reinstated(s)]
                     ELSE runs[i]]
  <1>1. /\ ses[s].at = "gate" /\ ses' = [ses EXCEPT ![s] = Idle]
        /\ runs' = IF fires THEN runs ELSE f
        /\ UNCHANGED <<declared, parse>>
    BY DEF GateFails
  <1> HIDE DEF touched, fires, f
  <1>2. /\ TypeOK /\ OneServes /\ Remembered
        /\ Len(runs) \in Nat /\ DOMAIN runs = 1..Len(runs)
        /\ \A i \in 1..Len(runs) : runs[i] \in Run
    BY SeqIsFunction DEF Inv, TypeOK
  <1>3. GateEnds /\ (ses[s].before = 0 => FirstGateEnds)
    BY <1>1, <1>2, IdleType DEF GateEnds, FirstGateEnds, TypeOK
  <1>4. /\ ses[s].before \in 0..Len(runs) /\ ses[s].new \in 1..Len(runs)
        /\ ses[s].before < ses[s].new
    BY <1>1, <1>2 DEF Remembered
  <1>5. CASE fires
    <2>1. /\ Idle \in SessionState /\ Idle.at # "gate"
          /\ Idle.old \in 0..Len(runs) /\ Idle.before \in 0..Len(runs)
      BY <1>2, IdleType
    <2>2. UNCHANGED <<declared, runs>> /\ parse' \in {"pending", "succeeded", "failed"}
      BY <1>1, <1>2, <1>5 DEF TypeOK
    <2>3. Inv' /\ Current' = Current
      BY <1>1, <2>1, <2>2, SessionMoves
    <2> QED
      BY <2>3, SameServes
  <1>6. CASE ~fires
    <2>1. ASSUME NEW i \in 1..Len(runs)
          PROVE  /\ f[i] \in Run
                 /\ f[i].current <=> IF i \in touched THEN i \in Reinstated(s)
                                     ELSE runs[i].current
      <3>1. \A c \in BOOLEAN : /\ [runs[i] EXCEPT !.current = c] \in Run
                              /\ [runs[i] EXCEPT !.current = c].current = c
        BY <1>2 DEF Run
      <3>2. (i \in Reinstated(s)) \in BOOLEAN
        OBVIOUS
      <3>3. CASE i \in touched
        <4>1. f[i] = [runs[i] EXCEPT !.current = i \in Reinstated(s)]
          BY <1>2, <3>3 DEF f
        <4> QED
          BY <3>1, <3>2, <3>3, <4>1, Zenon
      <3>4. CASE i \notin touched
        <4>1. f[i] = runs[i]
          BY <1>2, <3>4 DEF f
        <4> QED
          BY <1>2, <3>4, <4>1
      <3> QED
        BY <3>3, <3>4
    <2>2. DOMAIN f = 1..Len(runs) /\ f = [i \in 1..Len(runs) |-> f[i]]
      BY <1>2 DEF f
    <2>3. f \in Seq(Run) /\ Len(f) = Len(runs)
      BY <1>2, <2>1, <2>2, FunctionIsSeq
    <2>4. runs' \in Seq(Run) /\ Len(runs') = Len(runs) /\ DOMAIN runs' = 1..Len(runs)
      BY <1>1, <1>6, <2>2, <2>3
    <2>5. Reinstated(s) \subseteq 1..Len(runs)
      BY <1>2 DEF Reinstated
    <2>6. Current' = (Current \ Refused(s)) \cup Reinstated(s)
      <3>1. Current = {i \in 1..Len(runs) : runs[i].current}
        BY <1>2 DEF Current
      <3>2. Current' = {i \in 1..Len(runs) : f[i].current}
        BY <1>1, <1>6, <2>4 DEF Current
      <3> QED
        BY <2>1, <2>5, <3>1, <3>2 DEF touched
    <2>7. OneServes'
      BY <1>2, <1>6, <2>6 DEF fires, OneServes, Reinstated
    <2>8. TypeOK'
      BY <1>1, <1>2, <2>4, IdleType DEF TypeOK
    <2>9. Remembered'
      BY <1>1, <1>2, <2>4, IdleType DEF TypeOK, Remembered
    <2>10. Kept
      <3>1. CASE ses[s].before = 0
        BY <1>3, <3>1 DEF Kept
      <3>2. CASE ses[s].before # 0
        <4>1. ses[s].before \in 1..Len(runs) /\ ses[s].before \notin Refused(s)
          BY <1>2, <1>4, <3>2 DEF Refused
        <4>2. ses[s].before \in Current \/ ses[s].before \in Reinstated(s)
          BY <1>2, <4>1 DEF Current, Reinstated
        <4> QED
          BY <2>6, <4>1, <4>2 DEF Kept
      <3> QED
        BY <3>1, <3>2
    <2> QED
      BY <1>3, <2>7, <2>8, <2>9, <2>10 DEF Inv, Forward, Better
  <1> QED
    BY <1>5, <1>6

LEMMA OnlyStatus ==
    ASSUME Inv, UNCHANGED <<declared, runs, ses>>,
           parse' \in {"pending", "succeeded", "failed"}
    PROVE  Inv' /\ Kept /\ Forward /\ Better
  <1>1. Current' = Current
    BY DEF Current
  <1>2. Inv'
    BY <1>1 DEF Inv, TypeOK, OneServes, Remembered
  <1> QED
    BY <1>1, <1>2, SameServes

LEMMA StepInv == Inv /\ [Next]_vars => Inv' /\ Kept /\ Forward /\ Better
  <1> SUFFICES ASSUME Inv, [Next]_vars PROVE Inv' /\ Kept /\ Forward /\ Better
    OBVIOUS
  <1>1. ASSUME NEW s \in Sessions, Skip(s)
        PROVE  Inv' /\ Kept /\ Forward /\ Better
    BY <1>1, OnlyStatus DEF Skip
  <1>2. ASSUME NEW s \in Sessions,
               \/ IngestFirst(s) \/ IngestStale(s) \/ Reparse(s) \/ Control(s)
               \/ FindCurrent(s) \/ Demote(s) \/ Crash(s) \/ GatePasses(s)
        PROVE  Inv' /\ Kept /\ Forward /\ Better
    BY <1>2, SessionStarts, SameServes
  <1>3. CASE Refetch
    BY <1>3, OnlyStatus DEF Refetch
  <1>4. CASE UNCHANGED vars
    BY <1>4, OnlyStatus DEF vars, Inv, TypeOK
  <1> QED
    BY <1>1, <1>2, <1>3, <1>4, SessionParses, GateRefuses DEF Next

LEMMA Invariance == Spec => []Inv
  <1> QED
    BY InitInv, StepInv, PTL DEF Spec

(* Every committed run, the filing's status and what the sessions remember   *)
(* have their types.                                                         *)
THEOREM TypeCorrect == Spec => []TypeOK
  <1>1. Inv => TypeOK
    BY DEF Inv
  <1> QED
    BY <1>1, Invariance, PTL

(* ingest_if_needed and the re-parses: a filing whose holdings have been     *)
(* shown goes on showing some, whatever fails and whoever loses.             *)
THEOREM StaysShown == Spec => NeverDark
  <1>1. Inv /\ [Next]_vars => [Current # {} /\ ~FirstGateEnds => Current' # {}]_vars
    BY StepInv DEF Kept
  <1> QED
    BY <1>1, Invariance, PTL DEF Spec, NeverDark

(* _do_ingest_holdings: what takes over from a serving run is newer, until a *)
(* gate refuses it.                                                          *)
THEOREM NeverHandedBack == Spec => NeverBack
  <1>1. Inv /\ [Next]_vars => [GateEnds \/ \A i \in Current, j \in Current' : i <= j]_vars
    BY StepInv DEF Forward
  <1> QED
    BY <1>1, Invariance, PTL DEF Spec, NeverBack

(* _reparse_regression_reason: what takes over from a serving run passes the *)
(* comparison with that very run.                                            *)
THEOREM NeverReplacedByWorse == Spec => NeverWorse
  <1>1. Inv /\ [Next]_vars =>
          [GateEnds \/ \A i \in Current, j \in Current' :
             \/ i = j \/ runs'[j].empty
             \/ IF declared > 0 THEN runs'[j].rows = declared
                ELSE runs'[j].rows >= runs[i].rows]_vars
    BY StepInv DEF Better
  <1> QED
    BY <1>1, Invariance, PTL DEF Spec, NeverWorse
=============================================================================
