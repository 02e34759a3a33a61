------------------------- MODULE TrafficPoolsProofs -------------------------
(* Theorems of TrafficPools for any plans, quotas, calendar and faults.    *)
(* Passes and operations overlap as they like: what is claimed beyond the  *)
(* types ends with the first write of one during the other.                *)
EXTENDS TrafficPools, TLAPS

(***************************************************************************)
(* The inductive invariant: the types, what windows count, what a pass or  *)
(* an operation in flight knows, who has the squad and who a session.      *)
(***************************************************************************)

Passing == {"query", "roll", "verdict", "handback", "handing", "restore", "restoring", "unspend",
            "cut", "cutting", "drop", "spend"}

Passes ==
    [pc : Passing \cup {"idle"}, row : Rows \cup {None}, plan : Plans \cup {None}, win : Windows,
     now : Months, used : Nat, since : Nat]

Operations ==
    [pc : {"idle", "panel", "commit"}, kind : Kinds, row : Rows \cup {None},
     plan : Plans \cup {None}, squad : BOOLEAN, seen : BOOLEAN]

TypeInv ==
    /\ month \in Months /\ total \in Nat /\ at \in [Months -> Nat] /\ online \in BOOLEAN
    /\ plan \in [Rows -> Plans \cup {None}] /\ cur \in Rows /\ plan[cur] \in Plans
    /\ made \in [Rows -> Months] /\ squad \in [Rows -> BOOLEAN]
    /\ window \in [Rows -> Windows]
    /\ panel \in [plan : Plans, squad : BOOLEAN]
    /\ pass \in Passes /\ op \in Operations
    /\ pass.pc = "idle" => pass = NoPass
    /\ op.pc = "idle" => op = NoOp
    /\ ops \in 0 .. MaxOps /\ faults \in 0 .. MaxFaults
    /\ term \in [month : Months, seeded : BOOLEAN]
    /\ marks \subseteq {"killed", "undropped", "crossed"}
    /\ pass.pc # "idle" =>
         pass.row \in Rows /\ plan[pass.row] \in Plans /\ pass.plan \in Plans
         /\ Metered(pass.plan)
    /\ op.pc # "idle" =>
         op.row = cur /\ op.plan \in Sold /\ (op.kind \in {"CHANGE", "GRANT"} => cur < MaxRows)

\* An operation that has called the panel did so before the pass wrote anything.
Apart ==
    op.pc = "commit" => pass.pc \in {"idle", "query", "roll", "verdict", "restore", "cut", "spend"}

\* Nothing is counted from the future, a plan that does not meter the pool has no window, and
\* the window of a running term starts within it.
WindowInv ==
    /\ \A m, n \in Months : m <= n /\ n <= month => at[m] <= at[n] /\ at[n] <= total
    /\ \A r \in Rows : made[r] <= month /\ window[r].start <= month
    /\ \A r \in Rows : r > cur => window[r] = NoWindow
    /\ \A r \in Rows : window[r].exhausted => window[r].open
    /\ ~Metered(plan[cur]) => window[cur] = NoWindow
    /\ term.month <= month
    /\ ~term.seeded /\ Metered(plan[cur])
         => term.month <= IF window[cur].open THEN window[cur].start ELSE made[cur]

\* What the pass read is what is stored; what it measured is traffic of the window.
Start == PeriodStart(pass.plan, pass.win, pass.row, pass.now)

Measured == total - at[Start]

PassInv ==
    pass.pc # "idle" =>
        /\ pass.row = cur /\ pass.plan = plan[cur] /\ Metered(plan[cur])
        /\ pass.win = window[cur] /\ pass.since <= faults
        /\ pass.now <= month /\ term.month <= pass.now
        /\ window[cur].start <= pass.now /\ made[cur] <= pass.now
        /\ pass.pc # "query" => pass.used + at[Start] <= total
        /\ pass.pc \notin {"query", "roll"} => pass.win.open /\ pass.win.start = Start
        /\ pass.pc \in {"handback", "handing"}
             => ~pass.win.exhausted /\ Strategy[pass.plan] = "MONTH"
        /\ pass.pc \in {"restore", "restoring", "unspend"} => pass.win.exhausted
        /\ pass.pc \in {"cut", "cutting", "drop", "spend"} => ~pass.win.exhausted /\ Over

OpInv ==
    op.pc # "idle" =>
        /\ op.row = cur /\ op.plan \in Sold /\ op.squad = Effective(op.plan, op.kind)
        /\ op.seen = squad[cur]
        /\ op.kind \in {"CHANGE", "GRANT"} => cur < MaxRows

\* The panel is one call ahead of the row, and a spent window one commit behind it.
SquadInv ==
    "killed" \notin marks =>
        /\ panel = IF op.pc = "commit" THEN [plan |-> op.plan, squad |-> op.squad]
                   ELSE [plan |-> plan[cur],
                         squad |-> IF pass.pc \in {"handing", "restoring", "cutting"}
                                   THEN ~squad[cur] ELSE squad[cur]]
        /\ pass.pc \in {"handing", "restoring", "drop", "spend"} => ~squad[cur]
        /\ pass.pc \in {"cutting", "unspend"} => squad[cur]
        /\ window[cur].exhausted /\ pass.pc # "unspend" => ~squad[cur]

\* A quota is kept only on a plan that grants the squad of the pool (_prune_pool_quotas).
Granting == \A p \in Plans : Metered(p) => p \in Grants

\* A metered user without the squad has no session, but while it is being handed over or
\* dropped.
SessionInv ==
    /\ Granting /\ marks = {} /\ Metered(plan[cur]) /\ ~squad[cur]
    /\ pass.pc \notin {"handing", "restoring", "drop"}
    /\ op.pc = "commit" => ~op.squad
    => ~online

\* A user metered by the term lacks the squad for a spent window, or one that will be.
SpentBy(n) == n + at[window[cur].start] <= total

SettleInv ==
    "killed" \notin marks /\ Metered(plan[cur]) /\ plan[cur] \in Grants
    /\ Strategy[plan[cur]] = "NO_RESET" /\ ~squad[cur] /\ ~window[cur].exhausted
    /\ pass.pc \notin {"handing", "restoring"}
    => /\ window[cur].open /\ SpentBy(Quota[plan[cur]])
       /\ pass.pc \in {"roll", "verdict"} => Over

Sound == Apart /\ WindowInv /\ PassInv /\ OpInv /\ SquadInv /\ SessionInv /\ SettleInv

IInv == TypeInv /\ ("crossed" \notin marks => Sound)

-----------------------------------------------------------------------------
(* What a step of the pass makes of it.                                     *)

Holds ==
    /\ pass'.row = pass.row /\ pass'.plan = pass.plan /\ pass'.now = pass.now
    /\ pass'.used = pass.used /\ pass'.since = pass.since

LEMMA Fields ==
    ASSUME TypeInv
    PROVE  /\ pass \in Passes /\ pass.win \in Windows /\ pass.now \in Months /\ pass.used \in Nat
           /\ pass.since \in Nat /\ month \in Nat /\ total \in Nat /\ cur \in Nat
           /\ window[cur] \in Windows /\ window[cur].start \in Months
           /\ made[cur] \in Months /\ plan[cur] \in Plans /\ Quota[plan[cur]] \in Nat
           /\ squad[cur] \in BOOLEAN /\ term.month \in Months /\ Months \subseteq Nat
           /\ \A m \in Months : m \in Nat /\ m >= 1 /\ at[m] \in Nat
<1>1. /\ pass \in Passes /\ cur \in Rows /\ month \in Months /\ total \in Nat
      /\ window \in [Rows -> Windows] /\ made \in [Rows -> Months] /\ plan[cur] \in Plans
      /\ squad \in [Rows -> BOOLEAN] /\ term \in [month : Months, seeded : BOOLEAN]
      /\ at \in [Months -> Nat]
  BY DEF TypeInv
<1>2. /\ MaxMonth \in Nat /\ MaxRows \in Nat /\ Quota \in [Plans -> Nat]
  BY PoolsAssumption
<1>3. Months \subseteq Nat /\ cur \in Nat /\ \A m \in Months : m \in Nat /\ m >= 1
  BY <1>1, <1>2 DEF Months, Rows
<1>4. pass.win \in Windows /\ pass.now \in Months /\ pass.used \in Nat /\ pass.since \in Nat
  BY <1>1 DEF Passes
<1>5. window[cur] \in Windows /\ window[cur].start \in Months
  BY <1>1 DEF Windows
<1>6. made[cur] \in Months /\ Quota[plan[cur]] \in Nat /\ squad[cur] \in BOOLEAN
  BY <1>1, <1>2
<1>7. term.month \in Months /\ \A m \in Months : at[m] \in Nat
  BY <1>1
<1> QED BY <1>1, <1>3, <1>4, <1>5, <1>6, <1>7

LEMMA GotoMove ==
    ASSUME TypeInv, NEW p \in Passing, PassGoto(p)
    PROVE  /\ pass' \in Passes /\ pass'.pc = p /\ pass'.pc # "idle" /\ pass'.win = pass.win
           /\ Holds
BY DEF TypeInv, PassGoto, Passes, Passing, Holds

LEMMA EndMove ==
    ASSUME TypeInv, PassEnd
    PROVE  pass' = NoPass /\ pass'.pc = "idle" /\ pass' \in Passes
<1>1. NoPass \in Passes
  BY PoolsAssumption DEF NoPass, NoWindow, Passes, Windows, Months
<1> QED BY <1>1 DEF PassEnd, NoPass

LEMMA FreshType ==
    ASSUME NEW m \in Months
    PROVE  /\ Fresh(m) \in Windows /\ Fresh(m).open /\ Fresh(m).start = m /\ ~Fresh(m).exhausted
           /\ NoWindow \in Windows /\ ~NoWindow.open /\ ~NoWindow.exhausted /\ NoWindow.start = 1
BY PoolsAssumption DEF Fresh, NoWindow, Windows, Months

LEMMA Warned ==
    ASSUME NEW w \in Windows, NEW b \in BOOLEAN
    PROVE  LET v == [w EXCEPT !.warned = b]
           IN  v \in Windows /\ v.open = w.open /\ v.start = w.start /\ v.exhausted = w.exhausted
BY DEF Windows

LEMMA Judged ==
    ASSUME NEW w \in Windows, NEW b \in BOOLEAN
    PROVE  LET v == [w EXCEPT !.exhausted = b]
           IN  v \in Windows /\ v.open = w.open /\ v.start = w.start /\ v.exhausted = b
BY DEF Windows

LEMMA TargetsMove ==
    ASSUME TypeInv, PassTargets
    PROVE  /\ pass.pc = "idle" /\ Metered(plan[cur])
           /\ pass' \in Passes /\ pass'.pc = "query" /\ pass'.row = cur /\ pass'.plan = plan[cur]
           /\ pass'.win = window[cur] /\ pass'.now = month /\ pass'.since = faults
<1>1. pass' = [pc |-> "query", row |-> cur, plan |-> plan[cur], win |-> window[cur],
               now |-> month, used |-> 0, since |-> faults]
  BY DEF PassTargets
<1>2. faults \in Nat
  BY PoolsAssumption DEF TypeInv
<1>3. pass' \in Passes
  BY <1>1, <1>2, Fields DEF TypeInv, Passes, Passing
<1>4. pass.pc = "idle" /\ Metered(plan[cur])
  BY DEF PassTargets, Targets
<1> QED BY <1>1, <1>3, <1>4

\* A window starts in the past, and its traffic is a number.
LEMMA StartPast ==
    ASSUME TypeInv, WindowInv, PassInv, pass.pc # "idle"
    PROVE  /\ Start \in Months /\ Start <= month /\ at[Start] \in Nat /\ at[Start] <= total
           /\ Measured \in Nat /\ Measured + at[Start] = total
           /\ Start <= pass.now
           /\ Strategy[pass.plan] = "MONTH" => Start = pass.now
           /\ Strategy[pass.plan] = "NO_RESET"
                => Start = IF window[cur].open THEN window[cur].start ELSE made[cur]
           /\ Strategy[pass.plan] \in {"NO_RESET", "MONTH"}
<1>1. /\ pass.row = cur /\ pass.win = window[cur] /\ pass.now <= month /\ pass.plan = plan[cur]
      /\ window[cur].start <= pass.now /\ made[cur] <= pass.now
  BY DEF PassInv
<1>2. Strategy[pass.plan] \in {"NO_RESET", "MONTH"}
  BY <1>1, Fields, PoolsAssumption
<1>3. /\ Strategy[pass.plan] = "MONTH" => Start = pass.now
      /\ Strategy[pass.plan] = "NO_RESET"
           => Start = IF window[cur].open THEN window[cur].start ELSE made[cur]
  BY <1>1 DEF Start, PeriodStart
<1>4. Start \in Months /\ Start <= pass.now
  BY <1>1, <1>2, <1>3, Fields
<1>5. Start <= month
  BY <1>1, <1>4, Fields
<1>6. at[Start] \in Nat /\ at[Start] <= total
  BY <1>4, <1>5, Fields DEF WindowInv
<1> QED BY <1>2, <1>3, <1>4, <1>5, <1>6, Fields DEF Measured

LEMMA QueryMove ==
    ASSUME TypeInv, WindowInv, PassInv, PassQuery
    PROVE  /\ pass.pc = "query"
           /\ \/ PassEnd /\ Fault("query")
              \/ /\ pass' \in Passes /\ pass'.pc = "roll" /\ UNCHANGED faults
                 /\ pass'.row = pass.row /\ pass'.plan = pass.plan /\ pass'.win = pass.win
                 /\ pass'.now = pass.now /\ pass'.since = pass.since
                 /\ pass'.used = IF Measured >= WarnFloor(Quota[pass.plan]) THEN Measured ELSE 0
<1>1. pass.pc = "query"
  BY DEF PassQuery
<1> DEFINE n == IF Measured >= WarnFloor(Quota[pass.plan]) THEN Measured ELSE 0
<1>2. n \in Nat
  BY <1>1, StartPast
<1>3. \/ PassEnd /\ Fault("query")
      \/ pass' = [pass EXCEPT !.pc = "roll", !.used = n] /\ UNCHANGED faults
  BY DEF PassQuery, Measured, Start
<1> HIDE DEF n
<1>4. CASE pass' = [pass EXCEPT !.pc = "roll", !.used = n] /\ UNCHANGED faults
  <2>1. /\ pass' \in Passes /\ pass'.pc = "roll" /\ pass'.used = n
        /\ pass'.row = pass.row /\ pass'.plan = pass.plan /\ pass'.win = pass.win
        /\ pass'.now = pass.now /\ pass'.since = pass.since
    BY <1>2, <1>4, Fields DEF Passes, Passing
  <2> QED BY <1>1, <1>4, <2>1 DEF n
<1> QED BY <1>1, <1>3, <1>4

LEMMA RollMove ==
    ASSUME TypeInv, WindowInv, PassInv, PassRoll
    PROVE  /\ pass.pc = "roll" /\ pass' \in Passes /\ Holds
           /\ \/ /\ pass.win.open /\ pass.win.start = Start
                 /\ pass'.pc = "verdict" /\ pass'.win = pass.win /\ UNCHANGED window
              \/ /\ ~(pass.win.open /\ pass.win.start = Start)
                 /\ pass'.win = Fresh(Start) /\ window' = [window EXCEPT ![cur] = Fresh(Start)]
                 /\ pass'.pc = IF pass.win.open /\ pass.win.exhausted THEN "handback"
                               ELSE "verdict"
<1>1. pass.pc = "roll" /\ pass.row = cur
  BY DEF PassRoll, PassInv
<1>2. CASE pass.win.open /\ pass.win.start = Start
  <2>1. PassGoto("verdict") /\ UNCHANGED window
    BY <1>2 DEF PassRoll, Start
  <2> QED BY <1>1, <1>2, <2>1, GotoMove DEF Passing
<1>3. CASE ~(pass.win.open /\ pass.win.start = Start)
  <2> DEFINE f == Fresh(Start)
             p == IF pass.win.open /\ pass.win.exhausted THEN "handback" ELSE "verdict"
  <2>1. window' = [window EXCEPT ![cur] = f] /\ pass' = [pass EXCEPT !.win = f, !.pc = p]
    BY <1>1, <1>3 DEF PassRoll, Start, Save
  <2>2. f \in Windows /\ p \in Passing
    BY <1>1, StartPast, FreshType DEF Passing
  <2>3. f = Fresh(Start) /\ p = IF pass.win.open /\ pass.win.exhausted THEN "handback" ELSE "verdict"
    OBVIOUS
  <2> HIDE DEF f, p
  <2>4. pass' \in Passes /\ Holds /\ pass'.win = f /\ pass'.pc = p
    BY <2>1, <2>2, Fields DEF Passes, Holds
  <2> QED BY <1>1, <1>3, <2>1, <2>3, <2>4
<1> QED BY <1>2, <1>3

LEMMA VerdictMove ==
    ASSUME TypeInv, PassInv, PassVerdict
    PROVE  /\ pass.pc = "verdict"
           /\ \/ /\ pass.win.exhausted <=> Over
                 /\ PassEnd
                 /\ \E w \in Windows :
                       /\ window' = [window EXCEPT ![cur] = w] /\ w.open = pass.win.open
                       /\ w.start = pass.win.start /\ w.exhausted = pass.win.exhausted
              \/ pass.win.exhausted /\ ~Over /\ PassGoto("restore") /\ UNCHANGED window
              \/ ~pass.win.exhausted /\ Over /\ PassGoto("cut") /\ UNCHANGED window
<1>1. pass.pc = "verdict" /\ pass.row = cur
  BY DEF PassVerdict, PassInv
<1>2. CASE Heartbeat
  <2>1. pass.win \in Windows /\ pass.win.exhausted \in BOOLEAN /\ pass.win.warned \in BOOLEAN
    BY Fields DEF Windows
  <2>2. pass.win.exhausted <=> Over
    <3>1. pass.win.exhausted = Over
      BY <1>2 DEF Heartbeat
    <3> QED BY <2>1, <3>1, Zenon
  <2> DEFINE b == pass.win.warned \/ (pass.used > 0 /\ ~Over)
             w == [pass.win EXCEPT !.warned = b]
  <2>3. window' = [window EXCEPT ![cur] = w] /\ PassEnd
    BY <1>1, <1>2, Zenon DEF Heartbeat, Save
  <2>4. b \in BOOLEAN
    BY Zenon
  <2> HIDE DEF b
  <2>5. /\ w \in Windows /\ w.open = pass.win.open
        /\ w.start = pass.win.start /\ w.exhausted = pass.win.exhausted
    BY <2>1, <2>4, Warned
  <2> QED BY <1>1, <2>2, <2>3, <2>5
<1>3. CASE ~Heartbeat
  BY <1>1, <1>3, Zenon DEF PassVerdict
<1> QED BY <1>2, <1>3

\* The window of the current row takes a value.
LEMMA StoredIn ==
    ASSUME TypeInv, NEW w \in Windows, window' = [window EXCEPT ![cur] = w]
    PROVE  /\ window' \in [Rows -> Windows] /\ window'[cur] = w
           /\ \A r \in Rows \ {cur} : window'[r] = window[r]
BY DEF TypeInv

\* What a step of the pass leaves alone.
Steady ==
    /\ month' = month /\ total' = total /\ at' = at /\ plan' = plan /\ made' = made /\ cur' = cur
    /\ op' = op /\ ops' = ops /\ term' = term

LEMMA PassSteady ==
    ASSUME PassStep \/ PassCrash
    PROVE  Steady
BY DEF PassStep, PassCrash, PassTargets, PassQuery, PassRoll, PassVerdict, PassRestore,
       PassRestored, PassUnspend, PassCut, PassWithdrawn, PassDrop, PassSpend, usage, rows,
       hist, Steady

LEMMA Faulty ==
    ASSUME TypeInv, NEW kind, Fault(kind)
    PROVE  faults' = faults + 1 /\ faults' \in 0 .. MaxFaults
BY PoolsAssumption DEF TypeInv, Fault

LEMMA RestoreMove ==
    ASSUME TypeInv, PassInv, PassRestore
    PROVE  /\ pass.pc \in {"handback", "restore"}
           /\ UNCHANGED squad /\ UNCHANGED window /\ UNCHANGED online
           /\ \/ /\ UNCHANGED panel
                 /\ \/ ~Restorable(cur) /\ UNCHANGED faults
                    \/ Fault("update")
                 /\ \/ pass.pc = "handback" /\ PassGoto("verdict")
                    \/ pass.pc = "restore" /\ PassEnd
              \/ /\ plan[cur] \in Grants /\ ~squad[cur] /\ UNCHANGED faults
                 /\ panel' = [plan |-> plan[cur], squad |-> TRUE]
                 /\ \/ pass.pc = "handback" /\ PassGoto("handing")
                    \/ pass.pc = "restore" /\ PassGoto("restoring")
<1>1. /\ pass.pc \in {"handback", "restore"} /\ pass.row = cur
      /\ UNCHANGED squad /\ UNCHANGED window /\ UNCHANGED online
  BY DEF PassRestore, PassInv
<1>2. \/ ~Restorable(cur) /\ NotRestored /\ UNCHANGED panel /\ UNCHANGED faults
      \/ Restorable(cur) /\ Fault("update") /\ NotRestored /\ UNCHANGED panel
      \/ /\ Restorable(cur) /\ Push(cur, TRUE)
         /\ PassGoto(IF pass.pc = "handback" THEN "handing" ELSE "restoring")
         /\ UNCHANGED faults
  BY <1>1, Zenon DEF PassRestore
<1>3. NotRestored => \/ pass.pc = "handback" /\ PassGoto("verdict")
                     \/ pass.pc = "restore" /\ PassEnd
  BY <1>1 DEF NotRestored
<1>4. PassGoto(IF pass.pc = "handback" THEN "handing" ELSE "restoring")
        => \/ pass.pc = "handback" /\ PassGoto("handing")
           \/ pass.pc = "restore" /\ PassGoto("restoring")
  BY <1>1
<1>5. Restorable(cur) => plan[cur] \in Grants /\ ~squad[cur]
  BY DEF Restorable
<1>6. Push(cur, TRUE) => panel' = [plan |-> plan[cur], squad |-> TRUE]
  BY DEF Push
<1> QED BY <1>1, <1>2, <1>3, <1>4, <1>5, <1>6, Zenon

LEMMA RestoredMove ==
    ASSUME TypeInv, PassInv, PassRestored
    PROVE  /\ pass.pc \in {"handing", "restoring"}
           /\ squad' = [squad EXCEPT ![cur] = TRUE]
           /\ UNCHANGED window /\ UNCHANGED online /\ UNCHANGED panel
           /\ UNCHANGED faults
           /\ \/ pass.pc = "handing" /\ PassGoto("verdict")
              \/ pass.pc = "restoring" /\ PassGoto("unspend")
BY DEF PassRestored, PassInv

LEMMA UnspendMove ==
    ASSUME TypeInv, PassInv, PassUnspend
    PROVE  /\ pass.pc = "unspend" /\ PassEnd
           /\ UNCHANGED squad /\ UNCHANGED online /\ UNCHANGED panel
           /\ UNCHANGED faults
           /\ \E w \in Windows :
                 /\ window' = [window EXCEPT ![cur] = w]
                 /\ w.open = pass.win.open /\ w.start = pass.win.start /\ ~w.exhausted
<1>1. /\ pass.pc = "unspend" /\ PassEnd /\ pass.row = cur
      /\ UNCHANGED squad /\ UNCHANGED online /\ UNCHANGED panel
      /\ UNCHANGED faults
  BY DEF PassUnspend, PassInv
<1> DEFINE w == [pass.win EXCEPT !.exhausted = FALSE, !.warned = FALSE]
<1>2. window' = [window EXCEPT ![cur] = w]
  BY <1>1, Zenon DEF PassUnspend, Save
<1>3. w \in Windows /\ w.open = pass.win.open /\ w.start = pass.win.start /\ ~w.exhausted
  BY Fields DEF Windows
<1> QED BY <1>1, <1>2, <1>3

LEMMA CutMove ==
    ASSUME TypeInv, PassInv, PassCut
    PROVE  /\ pass.pc = "cut"
           /\ UNCHANGED squad /\ UNCHANGED window /\ UNCHANGED online
           /\ \/ ~squad[cur] /\ PassGoto("spend") /\ UNCHANGED panel /\ UNCHANGED faults
              \/ squad[cur] /\ Fault("update") /\ PassEnd /\ UNCHANGED panel
              \/ /\ squad[cur] /\ PassGoto("cutting") /\ UNCHANGED faults
                 /\ panel' = [plan |-> plan[cur], squad |-> FALSE]
BY DEF PassCut, PassInv, Push, NotCut

LEMMA WithdrawnMove ==
    ASSUME TypeInv, PassInv, PassWithdrawn
    PROVE  /\ pass.pc = "cutting" /\ PassGoto("drop")
           /\ squad' = [squad EXCEPT ![cur] = FALSE]
           /\ UNCHANGED window /\ UNCHANGED online /\ UNCHANGED panel
           /\ UNCHANGED faults
BY DEF PassWithdrawn, PassInv

LEMMA DropMove ==
    ASSUME TypeInv, PassInv, PassDrop
    PROVE  /\ pass.pc = "drop"
           /\ UNCHANGED squad /\ UNCHANGED window /\ UNCHANGED panel
           /\ \/ online' = FALSE /\ PassGoto("spend") /\ UNCHANGED faults /\ UNCHANGED marks
              \/ /\ Fault("drop") /\ PassEnd /\ UNCHANGED online
                 /\ marks' = marks \cup {"undropped"}
BY DEF PassDrop, Dropped

LEMMA SpendMove ==
    ASSUME TypeInv, PassInv, PassSpend
    PROVE  /\ pass.pc = "spend" /\ PassEnd
           /\ UNCHANGED squad /\ UNCHANGED online /\ UNCHANGED panel
           /\ UNCHANGED faults
           /\ \E w \in Windows :
                 /\ window' = [window EXCEPT ![cur] = w]
                 /\ w.open = pass.win.open /\ w.start = pass.win.start /\ w.exhausted
<1>1. /\ pass.pc = "spend" /\ PassEnd /\ pass.row = cur
      /\ UNCHANGED squad /\ UNCHANGED online /\ UNCHANGED panel
      /\ UNCHANGED faults
  BY DEF PassSpend, PassInv
<1> DEFINE w == [pass.win EXCEPT !.exhausted = TRUE]
<1>2. window' = [window EXCEPT ![cur] = w]
  BY <1>1, Zenon DEF PassSpend, Save
<1>3. w \in Windows /\ w.open = pass.win.open /\ w.start = pass.win.start /\ w.exhausted
  BY Fields, Judged
<1> QED BY <1>1, <1>2, <1>3

LEMMA PassCrashMove ==
    ASSUME PassCrash
    PROVE  /\ pass.pc # "idle" /\ Fault("crash") /\ PassEnd /\ marks' = marks \cup {"killed"}
           /\ UNCHANGED squad /\ UNCHANGED window /\ UNCHANGED online /\ UNCHANGED panel
BY DEF PassCrash

-----------------------------------------------------------------------------
(* What a step of an operation makes of it.                                 *)

LEMMA OpReadMove ==
    ASSUME TypeInv, NEW kind \in Kinds, NEW p \in Sold, OpRead(kind, p)
    PROVE  /\ op.pc = "idle" /\ ops' \in 0 .. MaxOps
           /\ op' \in Operations /\ op'.pc = "panel" /\ op'.kind = kind /\ op'.row = cur
           /\ op'.plan = p /\ op'.squad = Effective(p, kind) /\ op'.seen = squad[cur]
           /\ kind \in {"CHANGE", "GRANT"} => cur < MaxRows
<1>1. /\ op.pc = "idle" /\ ops < MaxOps /\ ops' = ops + 1
      /\ kind \in {"CHANGE", "GRANT"} => cur < MaxRows
      /\ op' = [pc |-> "panel", kind |-> kind, row |-> cur, plan |-> p,
                squad |-> Effective(p, kind), seen |-> squad[cur]]
  BY DEF OpRead
<1>2. ops' \in 0 .. MaxOps
  BY <1>1, PoolsAssumption DEF TypeInv
<1>3. Effective(p, kind) \in BOOLEAN
  BY Zenon DEF Effective
<1>4. /\ op' \in Operations /\ op'.pc = "panel" /\ op'.kind = kind /\ op'.row = cur
      /\ op'.plan = p /\ op'.squad = Effective(p, kind) /\ op'.seen = squad[cur]
  <2> DEFINE e == Effective(p, kind)
  <2>1. e \in BOOLEAN /\ squad[cur] \in BOOLEAN /\ p \in Plans /\ cur \in Rows
    BY <1>3, Fields, PoolsAssumption DEF TypeInv
  <2> HIDE DEF e
  <2> QED BY <1>1, <2>1 DEF e, Operations
<1> QED BY <1>1, <1>2, <1>4

LEMMA NoOpType ==
    /\ NoOp \in Operations /\ NoOp.pc = "idle"
BY DEF NoOp, Operations, Kinds

LEMMA OpPanelMove ==
    ASSUME TypeInv, OpPanel
    PROVE  /\ op.pc = "panel" /\ UNCHANGED squad /\ UNCHANGED window /\ UNCHANGED online
           /\ UNCHANGED pass /\ UNCHANGED faults /\ UNCHANGED ops
           /\ UNCHANGED plan /\ UNCHANGED made /\ UNCHANGED cur /\ UNCHANGED term
           /\ UNCHANGED month /\ UNCHANGED total /\ UNCHANGED at
           /\ \/ op' = NoOp /\ UNCHANGED panel
              \/ /\ panel' = [plan |-> op.plan, squad |-> op.squad]
                 /\ op' \in Operations /\ op'.pc = "commit" /\ op'.kind = op.kind
                 /\ op'.row = op.row /\ op'.plan = op.plan /\ op'.squad = op.squad
                 /\ op'.seen = op.seen
<1>1. op.pc = "panel" /\ op \in Operations
  BY DEF OpPanel, TypeInv
<1>2. CASE op' = NoOp /\ UNCHANGED panel
  BY <1>1, <1>2 DEF OpPanel, usage, rows
<1>3. CASE panel' = [plan |-> op.plan, squad |-> op.squad] /\ op' = [op EXCEPT !.pc = "commit"]
  BY <1>1, <1>3 DEF OpPanel, usage, rows, Operations
<1> QED BY <1>2, <1>3 DEF OpPanel

\* What reconciling makes of the window of the row an operation works on.
Kept(w, v, p, kind) ==
    /\ w \in Windows
    /\ ~Metered(p) => w = NoWindow
    /\ Metered(p) /\ NewTerm(kind) => w = Fresh(month)
    /\ Metered(p) /\ ~NewTerm(kind) => w = v

\* The row an operation leaves the subscription on.
LEMMA CommitMove ==
    ASSUME TypeInv, OpInv, OpCommit
    PROVE  /\ op.pc = "commit" /\ op' = NoOp /\ op.plan \in Plans
           /\ UNCHANGED online /\ UNCHANGED pass /\ UNCHANGED faults
           /\ UNCHANGED ops /\ UNCHANGED month /\ UNCHANGED total /\ UNCHANGED at
           /\ UNCHANGED panel
           /\ plan' \in [Rows -> Plans \cup {None}] /\ made' \in [Rows -> Months]
           /\ squad' \in [Rows -> BOOLEAN] /\ window' \in [Rows -> Windows] /\ cur' \in Rows
           /\ \/ cur' = cur /\ op.kind \in {"RENEW", "PROMO"} /\ made' = made
              \/ /\ cur' = cur + 1 /\ op.kind \in {"CHANGE", "GRANT"} /\ window'[cur] = NoWindow
                 /\ made'[cur'] = month /\ \A r \in Rows \ {cur'} : made'[r] = made[r]
           /\ plan'[cur'] = op.plan /\ squad'[cur'] = op.squad
           /\ Kept(window'[cur'], window[cur], op.plan, op.kind)
           /\ \A r \in Rows \ {cur, cur'} : window'[r] = window[r]
<1>1. /\ op.pc = "commit" /\ op.row = cur /\ op.plan \in Sold /\ op.seen = squad[cur]
      /\ op \in Operations /\ cur \in Rows
  BY DEF OpCommit, OpInv, TypeInv
<1>2. op.plan \in Plans /\ op.squad \in BOOLEAN /\ squad[cur] \in BOOLEAN
  BY <1>1, Fields, PoolsAssumption DEF Operations
<1> DEFINE w == Reconciled(window[cur], op.plan, NewTerm(op.kind))
<1>3. Kept(w, window[cur], op.plan, op.kind)
  <2>1. NoWindow \in Windows /\ Fresh(month) \in Windows /\ window[cur] \in Windows
    BY FreshType, Fields DEF TypeInv
  <2> QED BY <2>1, Zenon DEF Kept, Reconciled
<1>4. w \in Windows
  BY <1>3 DEF Kept
<1>5. /\ op' = NoOp /\ UNCHANGED online /\ UNCHANGED pass /\ UNCHANGED faults
      /\ UNCHANGED ops /\ UNCHANGED month /\ UNCHANGED total /\ UNCHANGED at /\ UNCHANGED panel
  BY DEF OpCommit, usage
<1>6. CASE OpUpdate
  <2>1. /\ op.kind \in {"RENEW", "PROMO"} /\ made' = made /\ cur' = cur
        /\ plan' = [plan EXCEPT ![cur] = op.plan] /\ squad' = [squad EXCEPT ![cur] = Written]
        /\ window' = [window EXCEPT ![cur] = w]
    BY <1>1, <1>6 DEF OpUpdate, Renewed
  <2>2. Written = op.squad
    BY <1>1, <1>2 DEF Written
  <2> HIDE DEF w
  <2>3. plan' \in [Rows -> Plans \cup {None}] /\ plan'[cur] = op.plan
    BY <1>1, <1>2, <2>1 DEF TypeInv
  <2>4. squad' \in [Rows -> BOOLEAN] /\ squad'[cur] = op.squad
    BY <1>1, <1>2, <2>1, <2>2 DEF TypeInv
  <2>5. /\ window' \in [Rows -> Windows] /\ window'[cur] = w
        /\ \A r \in Rows \ {cur} : window'[r] = window[r]
    BY <1>4, <2>1, StoredIn
  <2>6. Kept(window'[cur'], window[cur], op.plan, op.kind)
    BY <1>3, <2>1, <2>5
  <2>7. made' \in [Rows -> Months]
    BY <2>1 DEF TypeInv
  <2> QED BY <1>1, <1>2, <1>5, <2>1, <2>3, <2>4, <2>5, <2>6, <2>7
<1>7. CASE OpReplace
  <2> DEFINE r == cur + 1
  <2>1. op.kind \in {"CHANGE", "GRANT"} /\ cur < MaxRows
    BY <1>1, <1>7 DEF OpReplace, OpInv
  <2>2. r \in Rows /\ r # cur
    BY <2>1, <1>1, PoolsAssumption DEF Rows
  <2>3. /\ plan' = [plan EXCEPT ![r] = op.plan] /\ squad' = [squad EXCEPT ![r] = op.squad]
        /\ made' = [made EXCEPT ![r] = month] /\ cur' = r
        /\ window' = [window EXCEPT ![cur] = NoWindow, ![r] = w]
    BY <1>1, <1>7 DEF OpReplace, Replaced
  <2> HIDE DEF w, r
  <2>4. plan' \in [Rows -> Plans \cup {None}] /\ plan'[r] = op.plan
    BY <1>1, <1>2, <2>2, <2>3 DEF TypeInv
  <2>5. squad' \in [Rows -> BOOLEAN] /\ squad'[r] = op.squad
    BY <1>1, <1>2, <2>2, <2>3 DEF TypeInv
  <2>6. /\ made' \in [Rows -> Months] /\ made'[r] = month
        /\ \A i \in Rows \ {r} : made'[i] = made[i]
    BY <2>2, <2>3 DEF TypeInv
  <2>7. /\ window' \in [Rows -> Windows] /\ window'[cur] = NoWindow /\ window'[r] = w
        /\ \A i \in Rows \ {cur, r} : window'[i] = window[i]
    <3>1. window \in [Rows -> Windows] /\ NoWindow \in Windows
      BY FreshType DEF TypeInv
    <3> QED BY <1>1, <1>4, <2>2, <2>3, <3>1
  <2>8. Kept(window'[cur'], window[cur], op.plan, op.kind)
    BY <1>3, <2>3, <2>7
  <2>9. cur' \in Rows /\ cur' = cur + 1
    BY <2>2, <2>3 DEF r
  <2> QED BY <1>1, <1>2, <1>5, <2>1, <2>3, <2>4, <2>5, <2>6, <2>7, <2>8, <2>9
<1> QED BY <1>6, <1>7 DEF OpCommit

LEMMA TermMove ==
    ASSUME TypeInv, OpCommit
    PROVE  /\ term' \in [month : Months, seeded : BOOLEAN]
           /\ NewTerm(op.kind) => term'.month = month /\ ~term'.seeded
           /\ ~NewTerm(op.kind) =>
                /\ term'.month = term.month
                /\ ~term'.seeded => ~term.seeded /\ (op.kind = "PROMO" => window[cur].open)
<1>1. term \in [month : Months, seeded : BOOLEAN] /\ month \in Months /\ op.row = cur
  BY DEF TypeInv, OpCommit
<1>2. CASE NewTerm(op.kind)
  <2>1. term' = [month |-> month, seeded |-> FALSE]
    BY <1>2 DEF OpCommit
  <2> QED BY <1>1, <1>2, <2>1
<1>3. CASE ~NewTerm(op.kind)
  <2> DEFINE b == term.seeded \/ (op.kind = "PROMO" /\ ~window[cur].open)
  <2>1. term' = [term EXCEPT !.seeded = b]
    BY <1>1, <1>3, Zenon DEF OpCommit
  <2>2. b \in BOOLEAN
    BY Zenon
  <2>3. ~b => ~term.seeded /\ (op.kind = "PROMO" => window[cur].open)
    BY Zenon
  <2> HIDE DEF b
  <2>4. term' \in [month : Months, seeded : BOOLEAN] /\ term'.month = term.month /\ term'.seeded = b
    BY <1>1, <2>1, <2>2
  <2> QED BY <1>3, <2>3, <2>4
<1> QED BY <1>2, <1>3

LEMMA OpCrashMove ==
    ASSUME OpCrash
    PROVE  /\ op.pc # "idle" /\ Fault("crash") /\ op' = NoOp /\ marks' = marks \cup {"killed"}
           /\ UNCHANGED squad /\ UNCHANGED window /\ UNCHANGED online /\ UNCHANGED panel
           /\ UNCHANGED pass /\ UNCHANGED plan /\ UNCHANGED made /\ UNCHANGED cur
           /\ UNCHANGED term /\ UNCHANGED month /\ UNCHANGED total /\ UNCHANGED at
           /\ UNCHANGED ops
BY DEF OpCrash, usage, rows

-----------------------------------------------------------------------------
(* The types.                                                               *)

\* The row and the plan a pass works on.
Placed ==
    pass.pc # "idle" =>
      pass.row \in Rows /\ plan[pass.row] \in Plans /\ pass.plan \in Plans /\ Metered(pass.plan)

\* What every step of the pass may change.
PassTypes ==
    /\ pass' \in Passes /\ (pass'.pc = "idle" => pass' = NoPass) /\ Placed'
    /\ squad' \in [Rows -> BOOLEAN] /\ window' \in [Rows -> Windows]
    /\ panel' \in [plan : Plans, squad : BOOLEAN] /\ faults' \in 0 .. MaxFaults
    /\ online' \in BOOLEAN /\ marks' \subseteq {"killed", "undropped", "crossed"}

LEMMA PassTypesStep ==
    ASSUME TypeInv, PassStep \/ PassCrash
    PROVE  PassTypes
<1>1. /\ squad \in [Rows -> BOOLEAN] /\ window \in [Rows -> Windows] /\ pass \in Passes
      /\ panel \in [plan : Plans, squad : BOOLEAN] /\ faults \in 0 .. MaxFaults
      /\ online \in BOOLEAN /\ marks \subseteq {"killed", "undropped", "crossed"}
      /\ cur \in Rows /\ plan[cur] \in Plans /\ made \in [Rows -> Months]
      /\ (pass.pc = "idle" => pass = NoPass) /\ Placed
  BY DEF TypeInv, Placed
<1>2. Steady /\ plan' = plan
  BY PassSteady DEF Steady
<1>3. ASSUME Crossing(op) PROVE marks' \subseteq {"killed", "undropped", "crossed"}
  BY <1>1, <1>3 DEF Crossing
<1>4. ASSUME NEW w \in Windows, pass.pc # "idle", window' = [window EXCEPT ![pass.row] = w]
      PROVE  window' \in [Rows -> Windows]
  BY <1>1, <1>4 DEF Placed
<1>5. ASSUME NEW b \in BOOLEAN, pass.pc # "idle", squad' = [squad EXCEPT ![pass.row] = b]
      PROVE  squad' \in [Rows -> BOOLEAN]
  BY <1>1, <1>5 DEF Placed
<1>6. ASSUME NEW b \in BOOLEAN, pass.pc # "idle", Push(pass.row, b)
      PROVE  panel' \in [plan : Plans, squad : BOOLEAN] /\ Crossing(op)
  BY <1>1, <1>6 DEF Push, Placed
<1>7. ASSUME PassEnd PROVE pass' \in Passes /\ (pass'.pc = "idle" => pass' = NoPass) /\ Placed'
  BY <1>7, EndMove DEF Placed
<1>8. ASSUME NEW p \in Passing, PassGoto(p), pass.pc # "idle"
      PROVE  pass' \in Passes /\ (pass'.pc = "idle" => pass' = NoPass) /\ Placed'
  <2>1. pass' \in Passes /\ pass'.pc # "idle" /\ pass'.row = pass.row /\ pass'.plan = pass.plan
    BY <1>8, GotoMove DEF Holds
  <2> QED BY <1>1, <1>2, <1>8, <2>1 DEF Placed, Metered
<1>9. ASSUME NEW kind, Fault(kind) PROVE faults' \in 0 .. MaxFaults
  BY <1>9, Faulty
<1>10. pass.win \in Windows /\ pass.used \in Nat
  BY <1>1 DEF Passes
<1>11. CASE PassTargets
  <2>1. /\ pass' \in Passes /\ pass'.pc # "idle" /\ pass'.row = cur /\ pass'.plan = plan[cur]
        /\ Metered(plan[cur])
    BY <1>11, TargetsMove
  <2>2. Placed'
    BY <1>1, <1>2, <2>1 DEF Placed, Metered
  <2> QED BY <1>1, <1>11, <2>1, <2>2 DEF PassTargets, PassTypes, hist
<1>12. CASE PassQuery
  <2> DEFINE used == total - at[PeriodStart(pass.plan, pass.win, pass.row, pass.now)]
             n == IF used >= WarnFloor(Quota[pass.plan]) THEN used ELSE 0
  <2>1. pass.pc = "query" /\ (PassEnd \/ pass' = [pass EXCEPT !.pc = "roll", !.used = n])
    BY <1>12 DEF PassQuery
  <2>2. n \in Nat
    <3>1. PeriodStart(pass.plan, pass.win, pass.row, pass.now) \in Months
      BY <1>1, <2>1 DEF Placed, Passes, PeriodStart, Windows
    <3>2. used \in Int
      BY <3>1 DEF TypeInv
    <3>3. Quota[pass.plan] \in Nat
      BY <1>1, <2>1, PoolsAssumption DEF Placed
    <3>4. WarnFloor(Quota[pass.plan]) \in Int /\ WarnFloor(Quota[pass.plan]) >= 1
      BY <3>3 DEF WarnFloor
    <3> HIDE DEF used
    <3> QED BY <3>2, <3>4
  <2> HIDE DEF n
  <2>3. pass' \in Passes /\ (pass'.pc = "idle" => pass' = NoPass) /\ Placed'
    <3>1. CASE pass' = [pass EXCEPT !.pc = "roll", !.used = n]
      <4>1. /\ pass' \in Passes /\ pass'.pc = "roll" /\ pass'.row = pass.row
            /\ pass'.plan = pass.plan
        BY <1>1, <2>2, <3>1 DEF Passes, Passing
      <4> QED BY <1>1, <1>2, <2>1, <4>1 DEF Placed, Metered
    <3> QED BY <1>7, <2>1, <3>1
  <2>4. faults' \in 0 .. MaxFaults
    BY <1>1, <1>9, <1>12 DEF PassQuery
  <2> QED BY <1>1, <1>12, <2>3, <2>4 DEF PassQuery, PassTypes, hist
<1>13. CASE PassRoll
  <2> DEFINE start == PeriodStart(pass.plan, pass.win, pass.row, pass.now)
             f == Fresh(start)
             p == IF pass.win.open /\ pass.win.exhausted THEN "handback" ELSE "verdict"
  <2>1. pass.pc = "roll"
    BY <1>13 DEF PassRoll
  <2>2. start \in Months
    BY <1>1, <2>1 DEF Placed, Passes, PeriodStart, Windows
  <2>3. f \in Windows /\ p \in Passing
    BY <2>2, FreshType DEF Passing
  <2>4. \/ PassGoto("verdict") /\ UNCHANGED <<window, marks>>
        \/ /\ window' = [window EXCEPT ![pass.row] = f] /\ Crossing(op)
           /\ pass' = [pass EXCEPT !.win = f, !.pc = p]
    BY <1>13 DEF PassRoll, Save
  <2> HIDE DEF f, p
  <2>5. CASE PassGoto("verdict") /\ UNCHANGED <<window, marks>>
    BY <1>1, <1>8, <1>13, <2>1, <2>5 DEF PassRoll, PassTypes, Passing
  <2>6. CASE /\ window' = [window EXCEPT ![pass.row] = f] /\ Crossing(op)
             /\ pass' = [pass EXCEPT !.win = f, !.pc = p]
    <3>1. /\ pass' \in Passes /\ pass'.pc = p /\ pass'.row = pass.row
          /\ pass'.plan = pass.plan
      BY <1>1, <2>3, <2>6 DEF Passes
    <3>2. Placed' /\ pass'.pc # "idle"
      BY <1>1, <1>2, <2>1, <2>3, <3>1 DEF Placed, Metered, Passing
    <3> QED BY <1>1, <1>3, <1>4, <1>13, <2>1, <2>3, <2>6, <3>1, <3>2 DEF PassRoll, PassTypes
  <2> QED BY <2>4, <2>5, <2>6
<1>14. CASE PassVerdict
  <2>1. pass.pc = "verdict"
    BY <1>14 DEF PassVerdict
  <2>2. CASE Heartbeat
    <3> DEFINE b == pass.win.warned \/ (pass.used > 0 /\ ~Over)
               w == [pass.win EXCEPT !.warned = b]
    <3>1. window' = [window EXCEPT ![pass.row] = w] /\ PassEnd /\ Crossing(op)
      BY <2>2, Zenon DEF Heartbeat, Save
    <3>2. b \in BOOLEAN
      BY Zenon
    <3> HIDE DEF b
    <3>3. w \in Windows
      BY <1>10, <3>2, Warned
    <3> QED BY <1>1, <1>3, <1>4, <1>7, <1>14, <2>1, <3>1, <3>3 DEF PassVerdict, PassTypes
  <2>3. CASE ~Heartbeat
    <3>1. (PassGoto("restore") \/ PassGoto("cut")) /\ UNCHANGED <<window, marks>>
      BY <1>14, <2>3, Zenon DEF PassVerdict
    <3>2. pass' \in Passes /\ (pass'.pc = "idle" => pass' = NoPass) /\ Placed'
      BY <1>8, <2>1, <3>1 DEF Passing
    <3> QED BY <1>1, <1>14, <3>1, <3>2 DEF PassVerdict, PassTypes
  <2> QED BY <2>2, <2>3
<1>15. CASE PassRestore
  <2>1. pass.pc \in {"handback", "restore"}
    BY <1>15 DEF PassRestore
  <2>2. ASSUME NotRestored
        PROVE  pass' \in Passes /\ (pass'.pc = "idle" => pass' = NoPass) /\ Placed'
    BY <1>7, <1>8, <2>1, <2>2 DEF NotRestored, Passing
  <2>3. \/ NotRestored /\ UNCHANGED <<panel, marks>> /\ (UNCHANGED faults \/ Fault("update"))
        \/ /\ Push(pass.row, TRUE) /\ UNCHANGED faults
           /\ PassGoto(IF pass.pc = "handback" THEN "handing" ELSE "restoring")
    BY <1>15, Zenon DEF PassRestore
  <2>4. CASE NotRestored /\ UNCHANGED <<panel, marks>> /\ (UNCHANGED faults \/ Fault("update"))
    BY <1>1, <1>9, <1>15, <2>2, <2>4 DEF PassRestore, PassTypes
  <2>5. CASE /\ Push(pass.row, TRUE) /\ UNCHANGED faults
             /\ PassGoto(IF pass.pc = "handback" THEN "handing" ELSE "restoring")
    <3>1. pass' \in Passes /\ (pass'.pc = "idle" => pass' = NoPass) /\ Placed'
      BY <1>8, <2>1, <2>5 DEF Passing
    <3>2. panel' \in [plan : Plans, squad : BOOLEAN] /\ Crossing(op)
      BY <1>6, <2>1, <2>5
    <3> QED BY <1>1, <1>3, <1>15, <2>5, <3>1, <3>2 DEF PassRestore, PassTypes
  <2> QED BY <2>3, <2>4, <2>5
<1>16. CASE PassRestored
  <2>1. /\ pass.pc \in {"handing", "restoring"} /\ squad' = [squad EXCEPT ![pass.row] = TRUE]
        /\ PassGoto("verdict") \/ PassGoto("unspend")
        /\ Crossing(op)
    BY <1>16 DEF PassRestored
  <2>2. pass' \in Passes /\ (pass'.pc = "idle" => pass' = NoPass) /\ Placed'
    BY <1>8, <2>1 DEF Passing
  <2> QED BY <1>1, <1>3, <1>5, <1>16, <2>1, <2>2 DEF PassRestored, PassTypes
<1>17. CASE PassUnspend
  <2> DEFINE w == [pass.win EXCEPT !.exhausted = FALSE, !.warned = FALSE]
  <2>1. /\ pass.pc = "unspend" /\ window' = [window EXCEPT ![pass.row] = w] /\ Crossing(op)
        /\ PassEnd
    BY <1>17, Zenon DEF PassUnspend, Save
  <2>2. w \in Windows
    BY <1>10 DEF Windows
  <2> QED BY <1>1, <1>3, <1>4, <1>7, <1>17, <2>1, <2>2 DEF PassUnspend, PassTypes
<1>18. CASE PassCut
  <2>1. pass.pc = "cut"
    BY <1>18 DEF PassCut
  <2>2. \/ PassGoto("spend") /\ UNCHANGED <<panel, faults, marks>>
        \/ Fault("update") /\ PassEnd /\ UNCHANGED <<panel, marks>>
        \/ Push(pass.row, FALSE) /\ PassGoto("cutting") /\ UNCHANGED faults
    BY <1>18 DEF PassCut, NotCut
  <2>3. pass' \in Passes /\ (pass'.pc = "idle" => pass' = NoPass) /\ Placed'
    BY <1>7, <1>8, <2>1, <2>2 DEF Passing
  <2>4. panel' \in [plan : Plans, squad : BOOLEAN] /\ (UNCHANGED marks \/ Crossing(op))
    BY <1>1, <1>6, <2>1, <2>2
  <2>5. faults' \in 0 .. MaxFaults
    BY <1>1, <1>9, <2>2
  <2> QED BY <1>1, <1>3, <1>18, <2>3, <2>4, <2>5 DEF PassCut, PassTypes
<1>19. CASE PassWithdrawn
  <2>1. /\ pass.pc = "cutting" /\ squad' = [squad EXCEPT ![pass.row] = FALSE]
        /\ PassGoto("drop") /\ Crossing(op)
    BY <1>19 DEF PassWithdrawn
  <2>2. pass' \in Passes /\ (pass'.pc = "idle" => pass' = NoPass) /\ Placed'
    BY <1>8, <2>1 DEF Passing
  <2> QED BY <1>1, <1>3, <1>5, <1>19, <2>1, <2>2 DEF PassWithdrawn, PassTypes
<1>20. CASE PassDrop
  <2>1. /\ pass.pc = "drop"
        /\ \/ online' = FALSE /\ PassGoto("spend") /\ UNCHANGED <<faults, marks>>
           \/ /\ Fault("drop") /\ PassEnd /\ UNCHANGED online
              /\ marks' = marks \cup {"undropped"}
    BY <1>20 DEF PassDrop, Dropped
  <2>2. pass' \in Passes /\ (pass'.pc = "idle" => pass' = NoPass) /\ Placed'
    BY <1>7, <1>8, <2>1 DEF Passing
  <2>3. /\ online' \in BOOLEAN /\ faults' \in 0 .. MaxFaults
        /\ marks' \subseteq {"killed", "undropped", "crossed"}
    BY <1>1, <1>9, <2>1
  <2> QED BY <1>1, <1>20, <2>2, <2>3 DEF PassDrop, PassTypes
<1>21. CASE PassSpend
  <2> DEFINE w == [pass.win EXCEPT !.exhausted = TRUE]
  <2>1. /\ pass.pc = "spend" /\ window' = [window EXCEPT ![pass.row] = w] /\ Crossing(op)
        /\ PassEnd
    BY <1>21, Zenon DEF PassSpend, Save
  <2>2. w \in Windows
    BY <1>10, Judged
  <2> QED BY <1>1, <1>3, <1>4, <1>7, <1>21, <2>1, <2>2 DEF PassSpend, PassTypes
<1>22. CASE PassCrash
  <2>1. faults' \in 0 .. MaxFaults /\ marks' \subseteq {"killed", "undropped", "crossed"}
    BY <1>1, <1>9, <1>22, PassCrashMove
  <2> QED BY <1>1, <1>7, <1>22, <2>1, PassCrashMove DEF PassTypes
<1> QED
  BY <1>11, <1>12, <1>13, <1>14, <1>15, <1>16, <1>17, <1>18, <1>19, <1>20, <1>21, <1>22, Zenon
  DEF PassStep

\* A step of the calendar or of the user.
LEMMA WorldMove ==
    ASSUME TypeInv, Tick \/ Connect \/ Spend
    PROVE  /\ plan' = plan /\ made' = made /\ cur' = cur /\ squad' = squad /\ window' = window
           /\ panel' = panel /\ pass' = pass /\ op' = op /\ ops' = ops /\ faults' = faults
           /\ term' = term /\ marks' = marks
           /\ month' \in Months /\ total' \in Nat /\ at' \in [Months -> Nat]
           /\ online' \in BOOLEAN
           /\ month' >= month /\ total' >= total
           /\ \A m \in Months : m <= month => at'[m] = at[m]
           /\ online' => online \/ panel.squad
           /\ \/ month' = month /\ at' = at
              \/ month' = month + 1 /\ total' = total /\ at' = [at EXCEPT ![month + 1] = total]
<1>1. /\ month \in Months /\ total \in Nat /\ at \in [Months -> Nat] /\ online \in BOOLEAN
      /\ MaxMonth \in Nat
  BY PoolsAssumption DEF TypeInv
<1>2. CASE Tick
  <2>1. /\ month < MaxMonth /\ month' = month + 1 /\ at' = [at EXCEPT ![month + 1] = total]
        /\ total' = total /\ online' = online
    BY <1>2 DEF Tick
  <2>2. month' \in Months /\ \A m \in Months : m <= month => m # month + 1
    BY <1>1, <2>1 DEF Months
  <2>3. at' \in [Months -> Nat] /\ \A m \in Months : m <= month => at'[m] = at[m]
    BY <1>1, <2>1, <2>2
  <2>4. month' >= month /\ total' >= total
    BY <1>1, <2>1 DEF Months
  <2> QED BY <1>1, <1>2, <2>1, <2>2, <2>3, <2>4 DEF Tick, rows, hist
<1>3. CASE Connect
  <2>1. /\ month' = month /\ total' = total /\ at' = at /\ online' \in BOOLEAN
        /\ online' => online \/ panel.squad
    BY <1>1, <1>3, Zenon DEF Connect, usage
  <2>2. month \in Nat
    BY <1>1 DEF Months
  <2> QED BY <1>1, <1>3, <2>1, <2>2 DEF Connect, rows, hist
<1>4. CASE Spend
  BY <1>1, <1>4 DEF Spend, rows, hist, Months
<1> QED BY <1>2, <1>3, <1>4

\* Steps that change none of the variables of the model.
LEMMA Still ==
    ASSUME UNCHANGED vars
    PROVE  /\ Steady /\ squad' = squad /\ window' = window /\ panel' = panel /\ pass' = pass
           /\ faults' = faults /\ online' = online /\ marks' = marks
BY DEF vars, Steady

\* What a step is.
LEMMA Cases ==
    ASSUME [Next]_vars
    PROVE  \/ UNCHANGED vars \/ Tick \/ Connect \/ Spend
           \/ PassStep \/ PassCrash
           \/ \E kind \in Kinds, p \in Sold : OpRead(kind, p)
           \/ OpPanel \/ OpCommit \/ OpCrash
BY Zenon DEF Next, OpStep

\* What a commit makes of the types, whatever the operation read.
LEMMA CommitTypes ==
    ASSUME TypeInv, OpCommit
    PROVE  /\ op' = NoOp /\ cur' \in Rows /\ plan'[cur'] \in Plans
           /\ plan' \in [Rows -> Plans \cup {None}] /\ made' \in [Rows -> Months]
           /\ squad' \in [Rows -> BOOLEAN] /\ window' \in [Rows -> Windows]
           /\ \A r \in Rows : plan[r] \in Plans => plan'[r] \in Plans
           /\ marks' \subseteq {"killed", "undropped", "crossed"}
           /\ UNCHANGED online /\ UNCHANGED pass /\ UNCHANGED faults /\ UNCHANGED ops
           /\ UNCHANGED month /\ UNCHANGED total /\ UNCHANGED at /\ UNCHANGED panel
<1>1. /\ op.pc = "commit" /\ op.row = cur /\ op \in Operations /\ cur \in Rows
      /\ op.plan \in Sold /\ (op.kind \in {"CHANGE", "GRANT"} => cur < MaxRows)
      /\ plan \in [Rows -> Plans \cup {None}] /\ made \in [Rows -> Months]
      /\ squad \in [Rows -> BOOLEAN] /\ window \in [Rows -> Windows] /\ month \in Months
      /\ marks \subseteq {"killed", "undropped", "crossed"}
  BY DEF OpCommit, TypeInv
<1>2. op.plan \in Plans /\ op.squad \in BOOLEAN /\ squad[cur] \in BOOLEAN
  BY <1>1, PoolsAssumption DEF Operations
<1> DEFINE w == Reconciled(window[cur], op.plan, NewTerm(op.kind))
<1>3. w \in Windows
  <2>1. NoWindow \in Windows /\ Fresh(month) \in Windows /\ window[cur] \in Windows
    BY <1>1, FreshType
  <2> QED BY <2>1, Zenon DEF Reconciled
<1>4. /\ op' = NoOp /\ UNCHANGED online /\ UNCHANGED pass /\ UNCHANGED faults
      /\ UNCHANGED ops /\ UNCHANGED month /\ UNCHANGED total /\ UNCHANGED at /\ UNCHANGED panel
      /\ marks' \subseteq {"killed", "undropped", "crossed"}
  BY <1>1 DEF OpCommit, Crossing, usage
<1>5. CASE OpUpdate
  <2>1. /\ made' = made /\ cur' = cur /\ plan' = [plan EXCEPT ![cur] = op.plan]
        /\ squad' = [squad EXCEPT ![cur] = Written] /\ window' = [window EXCEPT ![cur] = w]
    BY <1>1, <1>5 DEF OpUpdate, Renewed
  <2>2. Written \in BOOLEAN
    BY <1>1, <1>2 DEF Written
  <2> HIDE DEF w
  <2> QED BY <1>1, <1>2, <1>3, <1>4, <2>1, <2>2
<1>6. CASE OpReplace
  <2> DEFINE r == cur + 1
  <2>1. op.kind \in {"CHANGE", "GRANT"} /\ cur < MaxRows
    BY <1>1, <1>6 DEF OpReplace
  <2>2. r \in Rows
    BY <2>1, <1>1, PoolsAssumption DEF Rows
  <2>3. /\ plan' = [plan EXCEPT ![r] = op.plan] /\ squad' = [squad EXCEPT ![r] = op.squad]
        /\ made' = [made EXCEPT ![r] = month] /\ cur' = r
        /\ window' = [window EXCEPT ![cur] = NoWindow, ![r] = w]
    BY <1>1, <1>6 DEF OpReplace, Replaced
  <2>4. NoWindow \in Windows
    BY <1>1, FreshType
  <2> HIDE DEF w, r
  <2> QED BY <1>1, <1>2, <1>3, <1>4, <2>2, <2>3, <2>4
<1> QED BY <1>5, <1>6 DEF OpCommit

LEMMA TypeNext ==
    ASSUME TypeInv, [Next]_vars
    PROVE  TypeInv'
<1>1. CASE UNCHANGED vars
  BY <1>1 DEF TypeInv, vars, Metered
<1>2. CASE Tick \/ Connect \/ Spend
  <2>1. /\ plan' = plan /\ made' = made /\ cur' = cur /\ squad' = squad /\ window' = window
        /\ panel' = panel /\ pass' = pass /\ op' = op /\ ops' = ops /\ faults' = faults
        /\ term' = term /\ marks' = marks
        /\ month' \in Months /\ total' \in Nat /\ at' \in [Months -> Nat] /\ online' \in BOOLEAN
    BY <1>2, WorldMove, Zenon
  <2> QED BY <2>1 DEF TypeInv, Metered
<1>3. CASE PassStep \/ PassCrash
  <2>1. PassTypes /\ Steady
    BY <1>3, PassTypesStep, PassSteady
  <2> QED BY <2>1 DEF TypeInv, PassTypes, Placed, Steady
<1>4. ASSUME NEW kind \in Kinds, NEW p \in Sold, OpRead(kind, p) PROVE TypeInv'
  <2>1. /\ op' \in Operations /\ op'.pc # "idle" /\ ops' \in 0 .. MaxOps
        /\ op'.row = cur /\ op'.plan = p /\ op'.kind = kind
        /\ kind \in {"CHANGE", "GRANT"} => cur < MaxRows
    BY <1>4, OpReadMove
  <2> QED BY <1>4, <2>1 DEF TypeInv, OpRead, usage, rows, hist, Metered
<1>5. CASE OpPanel
  <2>1. /\ op' \in Operations /\ (op'.pc = "idle" => op' = NoOp)
        /\ op'.pc # "idle" => op'.row = op.row /\ op'.plan = op.plan /\ op'.kind = op.kind
    BY <1>5, OpPanelMove, NoOpType
  <2>2. panel' \in [plan : Plans, squad : BOOLEAN]
    <3>1. op.plan \in Plans /\ op.squad \in BOOLEAN
      BY <1>5, PoolsAssumption DEF OpPanel, TypeInv, Operations
    <3> QED BY <1>5, <3>1, OpPanelMove DEF TypeInv
  <2>3. /\ UNCHANGED squad /\ UNCHANGED window /\ UNCHANGED online
        /\ UNCHANGED pass /\ UNCHANGED faults /\ UNCHANGED ops
        /\ UNCHANGED plan /\ UNCHANGED made /\ UNCHANGED cur /\ UNCHANGED term
        /\ UNCHANGED month /\ UNCHANGED total /\ UNCHANGED at /\ op.pc = "panel"
    BY <1>5, OpPanelMove
  <2>4. marks' \subseteq {"killed", "undropped", "crossed"}
    BY <1>5 DEF OpPanel, Crossing, TypeInv
  <2> QED BY <2>1, <2>2, <2>3, <2>4 DEF TypeInv, Metered
<1>6. CASE OpCommit
  <2>1. op' \in Operations /\ op' = NoOp /\ op'.pc = "idle" /\ plan'[cur'] \in Plans
    BY <1>6, CommitTypes, NoOpType
  <2>2. term' \in [month : Months, seeded : BOOLEAN]
    BY <1>6, TermMove
  <2> QED BY <1>6, <2>1, <2>2, CommitTypes DEF TypeInv, Metered
<1>7. CASE OpCrash
  <2>1. /\ op' = NoOp /\ op' \in Operations /\ op'.pc = "idle" /\ faults' \in 0 .. MaxFaults
        /\ marks' = marks \cup {"killed"}
    BY <1>7, OpCrashMove, NoOpType, Faulty
  <2> QED BY <1>7, <2>1, OpCrashMove DEF TypeInv, Metered
<1> QED BY <1>1, <1>2, <1>3, <1>4, <1>5, <1>6, <1>7, Cases, Zenon

-----------------------------------------------------------------------------
(* A pass and an operation in flight together.                              *)

\* A step of the pass that writes nothing an operation reads.
Reads == squad' = squad /\ window' = window /\ panel' = panel

\* While none has written during the other, what each does during the other is read.
LEMMA Turns ==
    ASSUME TypeInv, [Next]_vars, "crossed" \notin marks'
    PROVE  /\ "crossed" \notin marks
           /\ PassStep => op.pc = "idle" \/ Reads
           /\ PassStep /\ ~PassDrop => marks' = marks
           /\ OpCommit => pass.pc = "idle" /\ marks' = marks
           /\ OpPanel => marks' = marks /\ (op' = NoOp \/ pass.pc = "idle")
<1>1. ASSUME Crossing(op) PROVE op.pc = "idle" /\ marks' = marks
  BY <1>1 DEF Crossing
<1>2. ASSUME Crossing(pass) PROVE pass.pc = "idle" /\ marks' = marks
  BY <1>2 DEF Crossing
<1>3. PassTargets \/ PassQuery => Reads /\ marks' = marks
  BY DEF PassTargets, PassQuery, Reads, hist
<1>4. PassRoll => (op.pc = "idle" \/ Reads) /\ marks' = marks
  BY <1>1 DEF PassRoll, Reads, Save
<1>5. PassVerdict => (op.pc = "idle" \/ Reads) /\ marks' = marks
  <2>1. Heartbeat => Crossing(op)
    BY Zenon DEF Heartbeat, Save
  <2> QED BY <1>1, <2>1, Zenon DEF PassVerdict, Reads
<1>6. PassRestore => (op.pc = "idle" \/ Reads) /\ marks' = marks
  <2>1. Push(pass.row, TRUE) => Crossing(op)
    BY DEF Push
  <2> QED BY <1>1, <2>1, Zenon DEF PassRestore, Reads
<1>7. PassCut => (op.pc = "idle" \/ Reads) /\ marks' = marks
  <2>1. Push(pass.row, FALSE) => Crossing(op)
    BY DEF Push
  <2> QED BY <1>1, <2>1, Zenon DEF PassCut, Reads
<1>8. PassRestored \/ PassUnspend \/ PassWithdrawn \/ PassSpend
        => op.pc = "idle" /\ marks' = marks
  <2>1. PassRestored \/ PassUnspend \/ PassWithdrawn \/ PassSpend => Crossing(op)
    BY Zenon DEF PassRestored, PassUnspend, PassWithdrawn, PassSpend, Save
  <2> QED BY <1>1, <2>1
<1>9. PassDrop => Reads /\ (marks' = marks \/ marks' = marks \cup {"undropped"})
  BY DEF PassDrop, Reads
<1>10. OpCommit => pass.pc = "idle" /\ marks' = marks
  BY <1>2 DEF OpCommit
<1>11. OpPanel => marks' = marks /\ (op' = NoOp \/ pass.pc = "idle")
  BY <1>2 DEF OpPanel
<1>12. PassCrash \/ OpCrash => marks' = marks \cup {"killed"}
  BY DEF PassCrash, OpCrash
<1>13. \A kind \in Kinds, p \in Sold : OpRead(kind, p) => marks' = marks
  BY DEF OpRead, hist
<1>14. Tick \/ Connect \/ Spend => marks' = marks
  BY WorldMove
<1>15. UNCHANGED vars => marks' = marks
  BY DEF vars
<1>16. PassStep => /\ op.pc = "idle" \/ Reads
                   /\ ~PassDrop => marks' = marks
  BY <1>3, <1>4, <1>5, <1>6, <1>7, <1>8, <1>9, Zenon DEF PassStep
<1>17. marks \subseteq marks'
  <2>1. PassDrop \/ marks' = marks \/ marks' = marks \cup {"killed"}
    BY <1>10, <1>11, <1>12, <1>13, <1>14, <1>15, <1>16, Cases, Zenon
  <2> QED BY <1>9, <2>1
<1> QED BY <1>10, <1>11, <1>16, <1>17

LEMMA ApartNext ==
    ASSUME TypeInv, Apart, [Next]_vars, "crossed" \notin marks'
    PROVE  Apart'
<1> DEFINE At == {"idle", "query", "roll", "verdict", "restore", "cut", "spend"}
<1>1. CASE UNCHANGED vars
  BY <1>1 DEF Apart, vars
<1>2. CASE Tick \/ Connect \/ Spend
  <2>1. pass' = pass /\ op' = op
    BY <1>2, WorldMove
  <2> QED BY <2>1 DEF Apart
<1>3. CASE PassStep
  <2> SUFFICES ASSUME op.pc = "commit" PROVE pass'.pc \in At
    BY <1>3, PassSteady DEF Apart, Steady
  <2>1. Reads /\ pass.pc \in At
    BY <1>3, Turns DEF Apart
  <2>2. ASSUME NEW p \in Passing, PassGoto(p) PROVE pass'.pc = p
    BY <2>2, GotoMove
  <2>3. PassEnd => pass'.pc = "idle"
    BY EndMove
  <2>4. ~Crossing(op)
    BY <1>3 DEF Crossing
  <2>5. CASE PassTargets
    BY <2>5, TargetsMove
  <2>6. CASE PassQuery
    <3>1. pass \in Passes
      BY DEF TypeInv
    <3> QED BY <2>3, <2>6, <3>1 DEF PassQuery, Passes
  <2>7. CASE PassRoll
    BY <2>2, <2>4, <2>7 DEF PassRoll, Save, Passing
  <2>8. CASE PassVerdict
    <3>1. ~Heartbeat
      BY <2>4, Zenon DEF Heartbeat, Save
    <3>2. PassGoto("restore") \/ PassGoto("cut")
      BY <2>8, <3>1, Zenon DEF PassVerdict
    <3> QED BY <2>2, <3>2 DEF Passing
  <2>9. CASE PassRestore
    <3>1. ~Push(pass.row, TRUE) /\ pass.pc = "restore"
      BY <2>1, <2>4, <2>9 DEF Push, PassRestore
    <3>2. NotRestored
      BY <2>9, <3>1, Zenon DEF PassRestore
    <3> QED BY <2>3, <3>1, <3>2 DEF NotRestored
  <2>10. CASE PassCut
    <3>1. ~Push(pass.row, FALSE)
      BY <2>4 DEF Push
    <3>2. PassGoto("spend") \/ PassEnd
      BY <2>10, <3>1, Zenon DEF PassCut, NotCut
    <3> QED BY <2>2, <2>3, <3>2 DEF Passing
  <2>11. CASE PassRestored \/ PassUnspend \/ PassWithdrawn \/ PassDrop \/ PassSpend
    <3>1. CASE PassDrop
      BY <2>1, <3>1 DEF PassDrop
    <3>2. CASE PassRestored \/ PassUnspend \/ PassWithdrawn \/ PassSpend
      BY <2>4, <3>2, Zenon DEF PassRestored, PassUnspend, PassWithdrawn, PassSpend, Save
    <3> QED BY <2>11, <3>1, <3>2
  <2> QED BY <1>3, <2>5, <2>6, <2>7, <2>8, <2>9, <2>10, <2>11, Zenon DEF PassStep
<1>4. CASE PassCrash
  BY <1>4, PassCrashMove, EndMove DEF Apart
<1>5. ASSUME NEW kind \in Kinds, NEW p \in Sold, OpRead(kind, p) PROVE Apart'
  BY <1>5, OpReadMove DEF Apart
<1>6. CASE OpPanel
  <2>1. pass' = pass /\ (op' = NoOp \/ pass.pc = "idle")
    BY <1>6, Turns, OpPanelMove
  <2> QED BY <2>1, NoOpType DEF Apart
<1>7. CASE OpCommit \/ OpCrash
  <2>1. op' = NoOp
    BY <1>7, CommitTypes, OpCrashMove
  <2> QED BY <2>1, NoOpType DEF Apart
<1> QED BY <1>1, <1>2, <1>3, <1>4, <1>5, <1>6, <1>7, Cases, Zenon

-----------------------------------------------------------------------------
(* What the windows count.                                                  *)

LEMMA WindowKeep ==
    ASSUME WindowInv, Steady, window' = window
    PROVE  WindowInv'
BY DEF WindowInv, Steady

\* The pass may store a window that starts in the past and within the running term.
LEMMA WindowStore ==
    ASSUME TypeInv, WindowInv, Steady, Metered(plan[cur]), NEW w \in Windows,
           window' = [window EXCEPT ![cur] = w], w.start <= month, w.exhausted => w.open,
           ~term.seeded => term.month <= IF w.open THEN w.start ELSE made[cur]
    PROVE  WindowInv'
<1>1. window'[cur] = w /\ \A r \in Rows \ {cur} : window'[r] = window[r]
  BY StoredIn
<1>2. /\ month' = month /\ total' = total /\ at' = at /\ plan' = plan /\ made' = made
      /\ cur' = cur /\ term' = term /\ cur \in Rows /\ cur \in Nat
  BY Fields DEF Steady, TypeInv
<1>3. \A m, n \in Months : m <= n /\ n <= month' => at'[m] <= at'[n] /\ at'[n] <= total'
  BY <1>2 DEF WindowInv
<1>4. \A r \in Rows : made'[r] <= month' /\ window'[r].start <= month'
  BY <1>1, <1>2 DEF WindowInv
<1>5. \A r \in Rows : r > cur' => window'[r] = NoWindow
  BY <1>1, <1>2 DEF WindowInv
<1>6. \A r \in Rows : window'[r].exhausted => window'[r].open
  BY <1>1, <1>2 DEF WindowInv
<1>7. (~Metered(plan[cur]) => window[cur] = NoWindow)' /\ term'.month <= month'
  BY <1>2 DEF WindowInv
<1>8. (~term.seeded /\ Metered(plan[cur])
         => term.month <= IF window[cur].open THEN window[cur].start ELSE made[cur])'
  BY <1>1, <1>2
<1> QED BY <1>3, <1>4, <1>5, <1>6, <1>7, <1>8 DEF WindowInv

\* A window as the pass has read it, but for its verdict.
LEMMA WindowRestore ==
    ASSUME TypeInv, WindowInv, PassInv, Steady, pass.pc \notin {"idle", "query", "roll"},
           NEW w \in Windows, window' = [window EXCEPT ![cur] = w],
           w.open = pass.win.open, w.start = pass.win.start
    PROVE  WindowInv'
<1>1. pass.win = window[cur] /\ Metered(plan[cur]) /\ pass.win.open
  BY DEF PassInv
<1>2. cur \in Rows
  BY DEF TypeInv
<1>3. w.start <= month /\ (w.exhausted => w.open)
  BY <1>1, <1>2 DEF WindowInv
<1>4. ~term.seeded => term.month <= IF w.open THEN w.start ELSE made[cur]
  BY <1>1 DEF WindowInv
<1> QED BY <1>1, <1>3, <1>4, WindowStore

\* Where the pass puts a window starts within the term.
LEMMA StartInTerm ==
    ASSUME TypeInv, WindowInv, PassInv, pass.pc # "idle", ~term.seeded
    PROVE  term.month <= Start
<1>1. /\ Metered(plan[cur]) /\ term.month <= pass.now
      /\ term.month <= IF window[cur].open THEN window[cur].start ELSE made[cur]
  BY DEF WindowInv, PassInv
<1> QED BY <1>1, StartPast

LEMMA WindowPass ==
    ASSUME TypeInv, WindowInv, PassInv, PassStep \/ PassCrash
    PROVE  WindowInv'
<1>1. Steady
  BY PassSteady
<1>2. CASE PassRoll
  <2>1. CASE window' = window
    BY <1>1, <2>1, WindowKeep
  <2>2. CASE window' = [window EXCEPT ![cur] = Fresh(Start)]
    <3>1. pass.pc # "idle" /\ Metered(plan[cur])
      BY <1>2, RollMove DEF PassInv
    <3>2. /\ Start \in Months /\ Fresh(Start) \in Windows /\ Fresh(Start).start = Start
          /\ Start <= month /\ Fresh(Start).open
          /\ ~term.seeded => term.month <= Start
      BY <3>1, StartPast, FreshType, StartInTerm
    <3> QED BY <1>1, <2>2, <3>1, <3>2, WindowStore
  <2> QED BY <1>2, <2>1, <2>2, RollMove
<1>3. CASE PassVerdict
  BY <1>1, <1>3, VerdictMove, WindowKeep, WindowRestore
<1>4. CASE PassUnspend
  BY <1>1, <1>4, UnspendMove, WindowRestore
<1>5. CASE PassSpend
  BY <1>1, <1>5, SpendMove, WindowRestore
<1>6. CASE PassTargets \/ PassQuery \/ PassRestore \/ PassRestored \/ PassCut \/ PassWithdrawn
           \/ PassDrop \/ PassCrash
  <2>1. window' = window
    BY <1>6 DEF PassTargets, PassQuery, PassRestore, PassRestored, PassCut, PassWithdrawn,
                PassDrop, PassCrash
  <2> QED BY <1>1, <2>1, WindowKeep
<1> QED BY <1>2, <1>3, <1>4, <1>5, <1>6, Zenon DEF PassStep

LEMMA WindowCommit ==
    ASSUME TypeInv, WindowInv, OpInv, OpCommit
    PROVE  WindowInv'
<1>1. /\ month' = month /\ total' = total /\ at' = at /\ cur' \in Rows /\ cur' >= cur
      /\ plan'[cur'] = op.plan /\ window \in [Rows -> Windows]
      /\ cur \in Rows /\ cur \in Nat /\ month \in Nat /\ month >= 1
  BY CommitMove, Fields DEF TypeInv
<1>2. Kept(window'[cur'], window[cur], op.plan, op.kind)
  BY CommitMove
<1>3. /\ window'[cur'].start <= month /\ (window'[cur'].exhausted => window'[cur'].open)
      /\ window'[cur'].start \in Nat
  <2>1. window[cur].start <= month /\ (window[cur].exhausted => window[cur].open)
    BY <1>1 DEF WindowInv
  <2>2. window'[cur'] \in {NoWindow, Fresh(month), window[cur]}
    BY <1>2 DEF Kept
  <2>3. month \in Months /\ window[cur].start \in Nat
    BY Fields DEF TypeInv
  <2>4. \A w \in {NoWindow, Fresh(month), window[cur]} :
           w.start <= month /\ (w.exhausted => w.open) /\ w.start \in Nat
    <3>1. NoWindow.start <= month /\ ~NoWindow.exhausted /\ NoWindow.start \in Nat
      BY <1>1, <2>3, FreshType
    <3>2. Fresh(month).start <= month /\ ~Fresh(month).exhausted /\ Fresh(month).start \in Nat
      BY <1>1, <2>3, FreshType
    <3> QED BY <2>1, <2>3, <3>1, <3>2
  <2> QED BY <2>2, <2>4
<1>4. cur' # cur => window'[cur] = NoWindow
  BY CommitMove
<1>5. \A r \in Rows \ {cur, cur'} : window'[r] = window[r]
  BY CommitMove
<1>6. \A r \in Rows : made'[r] <= month
  BY <1>1, CommitMove DEF WindowInv
<1>7. \A r \in Rows : window'[r].start <= month /\ (window'[r].exhausted => window'[r].open)
  <2> TAKE r \in Rows
  <2>1. CASE r = cur'
    BY <1>3, <2>1
  <2>2. CASE r = cur /\ r # cur'
    BY <1>1, <1>4, <2>2, FreshType DEF TypeInv
  <2>3. CASE r # cur /\ r # cur'
    BY <1>5, <2>3 DEF WindowInv
  <2> QED BY <2>1, <2>2, <2>3
<1>8. \A r \in Rows : r > cur' => window'[r] = NoWindow
  BY <1>1, <1>5, CommitMove, PoolsAssumption DEF WindowInv, Rows
<1>9. (~Metered(plan[cur]) => window[cur] = NoWindow)'
  BY <1>1, <1>2 DEF Kept, Metered
<1>10. term'.month <= month
  <2>1. term.month <= month
    BY DEF WindowInv
  <2> QED BY <1>1, <2>1, TermMove
<1>11. ASSUME ~term'.seeded, Metered(op.plan)
       PROVE  term'.month <= IF window'[cur'].open THEN window'[cur'].start ELSE made'[cur']
  <2>1. CASE NewTerm(op.kind)
    <3>1. window'[cur'] = Fresh(month) /\ term'.month = month
      BY <1>2, <1>11, <2>1, TermMove DEF Kept
    <3> QED BY <1>1, <3>1, FreshType DEF TypeInv
  <2>2. CASE ~NewTerm(op.kind)
    <3>1. /\ window'[cur'] = window[cur] /\ term'.month = term.month /\ ~term.seeded
          /\ op.kind = "PROMO" => window[cur].open
      BY <1>2, <1>11, <2>2, TermMove DEF Kept
    <3>2. CASE window[cur].open
      <4>1. Metered(plan[cur])
        BY <3>2, FreshType DEF WindowInv, TypeInv
      <4> QED BY <3>1, <3>2, <4>1 DEF WindowInv
    <3>3. CASE ~window[cur].open
      <4>1. op.kind # "PROMO" /\ op.kind # "RENEW"
        BY <2>2, <3>1, <3>3 DEF NewTerm
      <4>2. made'[cur'] = month
        BY <4>1, CommitMove
      <4> QED BY <3>1, <3>3, <4>2, <1>10
    <3> QED BY <3>2, <3>3
  <2> QED BY <2>1, <2>2
<1>12. (~term.seeded /\ Metered(plan[cur])
          => term.month <= IF window[cur].open THEN window[cur].start ELSE made[cur])'
  BY <1>1, <1>11 DEF Metered
<1>13. \A m, n \in Months : m <= n /\ n <= month' => at'[m] <= at'[n] /\ at'[n] <= total'
  BY <1>1 DEF WindowInv
<1> QED BY <1>1, <1>6, <1>7, <1>8, <1>9, <1>10, <1>12, <1>13 DEF WindowInv

LEMMA WindowWorld ==
    ASSUME TypeInv, WindowInv, Tick \/ Connect \/ Spend
    PROVE  WindowInv'
<1>1. /\ plan' = plan /\ made' = made /\ cur' = cur /\ window' = window /\ term' = term
      /\ month' >= month /\ total' >= total /\ month' \in Months /\ total' \in Nat
      /\ at' \in [Months -> Nat]
      /\ \A m \in Months : m <= month => at'[m] = at[m]
  BY WorldMove
<1>2. /\ cur \in Rows /\ window \in [Rows -> Windows] /\ made \in [Rows -> Months]
      /\ \A r \in Rows : window[r].start \in Months /\ made[r] \in Months
  BY DEF TypeInv, Windows
<1>3. \A m, n \in Months : m <= n /\ n <= month' => at'[m] <= at'[n] /\ at'[n] <= total'
  <2>1. CASE month' = month
    BY <1>1, <2>1, Fields DEF WindowInv
  <2>2. CASE month' = month + 1 /\ total' = total /\ at' = [at EXCEPT ![month + 1] = total]
    <3> SUFFICES ASSUME NEW m \in Months, NEW n \in Months, m <= n, n <= month + 1
                 PROVE  at'[m] <= at'[n] /\ at'[n] <= total
      BY <2>2
    <3>1. at \in [Months -> Nat] /\ month \in Months
      BY DEF TypeInv
    <3>2. CASE n <= month
      BY <1>1, <3>2, Fields DEF WindowInv
    <3>3. CASE n = month + 1
      <4>1. at'[n] = total
        BY <2>2, <3>1, <3>3
      <4>2. m <= month => at[m] <= total
        BY <3>1, Fields DEF WindowInv
      <4> QED BY <1>1, <3>3, <4>1, <4>2, Fields
    <3> QED BY <3>2, <3>3, Fields
  <2> QED BY <2>1, <2>2, WorldMove
<1>4. \A r \in Rows : made'[r] <= month' /\ window'[r].start <= month'
  BY <1>1, <1>2, Fields DEF WindowInv
<1>5. term'.month <= month'
  BY <1>1, Fields DEF WindowInv
<1> QED BY <1>1, <1>3, <1>4, <1>5 DEF WindowInv

LEMMA WindowNext ==
    ASSUME TypeInv, WindowInv, PassInv, OpInv, [Next]_vars
    PROVE  WindowInv'
<1>1. CASE UNCHANGED vars
  BY <1>1, Still, WindowKeep
<1>2. ASSUME NEW kind \in Kinds, NEW p \in Sold, OpRead(kind, p) PROVE WindowInv'
  BY <1>2 DEF OpRead, usage, rows, hist, WindowInv
<1>3. CASE OpPanel
  BY <1>3, OpPanelMove DEF WindowInv
<1>4. CASE OpCrash
  BY <1>4 DEF OpCrash, usage, rows, WindowInv
<1> QED
  BY <1>1, <1>2, <1>3, <1>4, WindowWorld, WindowPass, WindowCommit, Cases, Zenon

-----------------------------------------------------------------------------
(* What the pass knows.                                                     *)

LEMMA PassGone ==
    ASSUME pass'.pc = "idle"
    PROVE  PassInv'
BY DEF PassInv

LEMMA PassStill ==
    ASSUME PassInv, pass' = pass, window' = window, faults' = faults, month' = month,
           total' = total, at' = at, plan' = plan, made' = made, cur' = cur, term' = term
    PROVE  PassInv'
BY DEF PassInv, Over, Start, PeriodStart, Metered

\* What holds of the pass whatever it is doing.
PassBase ==
    /\ pass.row = cur /\ pass.plan = plan[cur] /\ Metered(plan[cur])
    /\ pass.win = window[cur] /\ pass.since <= faults
    /\ pass.now <= month /\ term.month <= pass.now
    /\ window[cur].start <= pass.now /\ made[cur] <= pass.now

\* A step that goes on with the pass goes on measuring the same traffic.
LEMMA PassOn ==
    ASSUME TypeInv, WindowInv, PassInv, pass.pc # "idle", Steady, Holds,
           NEW w \in Windows, pass'.win = w, window'[cur] = w,
           w.start <= pass.now, faults' \in Nat, faults' >= faults,
           \/ w.open = pass.win.open /\ w.start = pass.win.start
           \/ w.open /\ w.start = Start
    PROVE  PassBase' /\ Start' = Start /\ at'[Start'] = at[Start] /\ (Over' <=> Over)
<1>1. PassBase
  BY DEF PassInv, PassBase
<1>2. /\ month' = month /\ at' = at /\ plan' = plan /\ made' = made /\ cur' = cur /\ term' = term
      /\ pass'.row = pass.row /\ pass'.plan = pass.plan /\ pass'.now = pass.now
      /\ pass'.used = pass.used /\ pass'.since = pass.since
  BY DEF Steady, Holds
<1>3. pass.since \in Nat /\ faults \in Nat
  BY Fields, PoolsAssumption DEF TypeInv
<1>4. pass'.since <= faults'
  BY <1>1, <1>2, <1>3 DEF PassBase
<1>5. Metered(plan[cur])'
  BY <1>1, <1>2 DEF PassBase, Metered
<1>6. PassBase'
  BY <1>1, <1>2, <1>4, <1>5 DEF PassBase
<1>7. Start' = IF Strategy[pass.plan] = "MONTH" THEN pass.now
               ELSE IF w.open THEN w.start ELSE made[pass.row]
  BY <1>2 DEF Start, PeriodStart
<1>8. Start = IF Strategy[pass.plan] = "MONTH" THEN pass.now
              ELSE IF pass.win.open THEN pass.win.start ELSE made[pass.row]
  BY DEF Start, PeriodStart
<1>9. Start' = Start
  BY <1>7, <1>8
<1>10. Over' <=> Over
  BY <1>2 DEF Over
<1> QED BY <1>2, <1>6, <1>9, <1>10

LEMMA PassKeeps ==
    ASSUME TypeInv, WindowInv, PassInv, pass.pc # "idle", Steady, NEW p \in Passing, PassGoto(p),
           window' = window, faults' \in Nat, faults' >= faults
    PROVE  /\ PassBase' /\ Start' = Start /\ at'[Start'] = at[Start] /\ (Over' <=> Over)
           /\ pass'.pc = p /\ pass'.pc # "idle" /\ pass'.win = pass.win /\ pass'.plan = pass.plan
           /\ pass'.used = pass.used /\ total' = total
<1>1. pass'.pc = p /\ pass'.pc # "idle" /\ pass'.win = pass.win /\ Holds
  BY GotoMove
<1>2. /\ pass.win \in Windows /\ pass.win = window[cur] /\ window'[cur] = pass.win
      /\ pass.win.start <= pass.now
  BY Fields DEF PassInv
<1>3. PassBase' /\ Start' = Start /\ at'[Start'] = at[Start] /\ (Over' <=> Over)
  BY <1>1, <1>2, PassOn
<1> QED BY <1>1, <1>3 DEF Holds, Steady

\* The part of PassInv that goes with the step the pass is at.
PassPart ==
    /\ pass.pc # "query" => pass.used + at[Start] <= total
    /\ pass.pc \notin {"query", "roll"} => pass.win.open /\ pass.win.start = Start
    /\ pass.pc \in {"handback", "handing"}
         => ~pass.win.exhausted /\ Strategy[pass.plan] = "MONTH"
    /\ pass.pc \in {"restore", "restoring", "unspend"} => pass.win.exhausted
    /\ pass.pc \in {"cut", "cutting", "drop", "spend"} => ~pass.win.exhausted /\ Over

LEMMA PassParts == PassInv <=> (pass.pc # "idle" => PassBase /\ PassPart)
BY DEF PassInv, PassBase, PassPart

LEMMA PassPartsNext == PassInv' <=> (pass'.pc # "idle" => PassBase' /\ PassPart')
BY DEF PassInv, PassBase, PassPart

LEMMA PassWorld ==
    ASSUME TypeInv, WindowInv, PassInv, Tick \/ Connect \/ Spend
    PROVE  PassInv'
<1> SUFFICES ASSUME pass.pc # "idle"
             PROVE  PassBase' /\ PassPart'
  <2>1. pass' = pass
    BY WorldMove
  <2> QED BY <2>1, PassPartsNext
<1>1. PassBase /\ PassPart
  BY PassParts
<1>2. /\ plan' = plan /\ made' = made /\ cur' = cur /\ window' = window /\ pass' = pass
      /\ faults' = faults /\ term' = term
      /\ month' \in Months /\ total' \in Nat /\ month' >= month /\ total' >= total
      /\ \A m \in Months : m <= month => at'[m] = at[m]
  BY WorldMove
<1>3. Start' = Start /\ (Over' <=> Over)
  BY <1>2 DEF Start, PeriodStart, Over
<1>4. at'[Start] = at[Start] /\ at[Start] \in Nat
  BY <1>2, StartPast
<1>5. PassBase'
  <2>1. pass'.now <= month'
    BY <1>1, <1>2, Fields DEF PassBase
  <2>2. Metered(plan[cur])'
    BY <1>1, <1>2 DEF PassBase, Metered
  <2> QED BY <1>1, <1>2, <2>1, <2>2 DEF PassBase
<1>6. pass.pc # "query" => pass.used + at'[Start] <= total'
  BY <1>1, <1>2, <1>4, Fields DEF PassPart
<1>7. PassPart'
  BY <1>1, <1>2, <1>3, <1>6 DEF PassPart
<1> QED BY <1>5, <1>7

LEMMA PassNext ==
    ASSUME TypeInv, WindowInv, PassInv, OpInv, [Next]_vars, "crossed" \notin marks'
    PROVE  PassInv'
<1>1. CASE UNCHANGED vars
  BY <1>1, Still, PassStill DEF Steady
<1>2. CASE Tick \/ Connect \/ Spend
  BY <1>2, PassWorld
<1>3. CASE PassStep
  <2>0. Steady
    BY <1>3, PassSteady
  <2>1. CASE PassTargets
    <3>1. /\ Metered(plan[cur]) /\ pass'.pc = "query" /\ pass'.row = cur
          /\ pass'.plan = plan[cur] /\ pass'.win = window[cur] /\ pass'.now = month
          /\ pass'.since = faults
      BY <2>1, TargetsMove
    <3>2. window' = window /\ faults' = faults
      BY <2>1 DEF PassTargets
    <3>3. faults \in Nat /\ month \in Nat
      BY Fields, PoolsAssumption DEF TypeInv
    <3>4. /\ term.month <= month /\ window[cur].start <= month /\ made[cur] <= month
      BY DEF WindowInv, TypeInv
    <3>5. Metered(plan[cur])'
      BY <2>0, <3>1 DEF Metered, Steady
    <3>6. PassBase'
      BY <2>0, <3>1, <3>2, <3>3, <3>4, <3>5 DEF PassBase, Steady
    <3>7. PassPart'
      BY <3>1 DEF PassPart
    <3> QED BY <3>6, <3>7, PassPartsNext
  <2>2. CASE PassQuery
    <3>1. CASE PassEnd
      BY <3>1, EndMove, PassGone
    <3>2. CASE ~PassEnd
      <4>1. /\ pass.pc = "query" /\ pass'.pc = "roll" /\ faults' = faults
            /\ pass'.row = pass.row /\ pass'.plan = pass.plan /\ pass'.win = pass.win
            /\ pass'.now = pass.now /\ pass'.since = pass.since
            /\ pass'.used = IF Measured >= WarnFloor(Quota[pass.plan]) THEN Measured ELSE 0
        BY <2>2, <3>2, QueryMove
      <4>2. window' = window
        BY <2>2 DEF PassQuery
      <4>3. PassBase
        BY <4>1, PassParts
      <4>4. Metered(plan[cur])'
        BY <2>0, <4>3 DEF Metered, Steady, PassBase
      <4>5. PassBase'
        BY <2>0, <4>1, <4>2, <4>3, <4>4 DEF PassBase, Steady
      <4>6. Start' = Start
        BY <2>0, <4>1 DEF Start, PeriodStart, Steady
      <4>7. pass'.used + at[Start] <= total
        BY <4>1, StartPast, Fields
      <4>8. PassPart'
        BY <2>0, <4>1, <4>6, <4>7 DEF PassPart, Steady
      <4> QED BY <4>5, <4>8, PassPartsNext
    <3> QED BY <3>1, <3>2
  <2>3. CASE PassRoll
    <3>1. pass.pc = "roll" /\ Holds
      BY <2>3, RollMove
    <3>2. PassBase /\ PassPart
      BY <3>1, PassParts
    <3>3. faults' = faults /\ faults' \in Nat /\ faults' >= faults
      BY <2>3, PoolsAssumption DEF PassRoll, TypeInv
    <3>4. pass.used + at[Start] <= total /\ total' = total
      BY <2>0, <3>1, <3>2 DEF PassPart, Steady
    <3>5. CASE /\ pass.win.open /\ pass.win.start = Start
               /\ pass'.pc = "verdict" /\ pass'.win = pass.win /\ UNCHANGED window
      <4>1. pass.win \in Windows /\ window'[cur] = pass.win /\ pass.win.start <= pass.now
        BY <3>2, <3>5, Fields DEF PassBase
      <4>2. PassBase' /\ Start' = Start /\ at'[Start'] = at[Start]
        BY <2>0, <3>1, <3>3, <3>5, <4>1, PassOn
      <4>3. pass'.used = pass.used
        BY <3>1 DEF Holds
      <4>4. PassPart'
        BY <3>4, <3>5, <4>2, <4>3 DEF PassPart
      <4> QED BY <4>2, <4>4, PassPartsNext
    <3>6. CASE /\ ~(pass.win.open /\ pass.win.start = Start)
               /\ pass'.win = Fresh(Start) /\ window' = [window EXCEPT ![cur] = Fresh(Start)]
               /\ pass'.pc = IF pass.win.open /\ pass.win.exhausted THEN "handback"
                             ELSE "verdict"
      <4>1. Start \in Months /\ Start <= pass.now
        BY <3>1, StartPast
      <4>2. /\ Fresh(Start) \in Windows /\ Fresh(Start).open /\ Fresh(Start).start = Start
            /\ ~Fresh(Start).exhausted
        BY <4>1, FreshType
      <4>3. window'[cur] = Fresh(Start)
        BY <3>6, <4>2, StoredIn
      <4>4. PassBase' /\ Start' = Start /\ at'[Start'] = at[Start]
        BY <2>0, <3>1, <3>3, <3>6, <4>1, <4>2, <4>3, PassOn
      <4>5. pass'.used = pass.used /\ pass'.plan = pass.plan
        BY <3>1 DEF Holds
      <4>6. pass'.pc = "handback" => Strategy[pass.plan] = "MONTH"
        <5>1. ASSUME pass.win.open, Strategy[pass.plan] = "NO_RESET" PROVE FALSE
          BY <3>1, <3>2, <3>6, <5>1, StartPast DEF PassBase
        <5> QED BY <3>1, <3>6, <5>1, StartPast
      <4>7. PassPart'
        BY <3>4, <3>6, <4>2, <4>4, <4>5, <4>6 DEF PassPart
      <4> QED BY <4>4, <4>7, PassPartsNext
    <3> QED BY <2>3, <3>5, <3>6, RollMove
  <2>4. ASSUME pass.pc \notin {"idle", "query", "roll"}, NEW p \in Passing \ {"query", "roll"},
               PassGoto(p), window' = window, faults' \in Nat, faults' >= faults,
               p \notin {"handback", "handing"} \/ pass.pc = "handback",
               p \in {"restore", "restoring", "unspend"} => pass.win.exhausted,
               p \in {"cut", "cutting", "drop", "spend"} => ~pass.win.exhausted /\ Over
        PROVE  PassInv'
    <3>1. /\ PassBase' /\ Start' = Start /\ at'[Start'] = at[Start] /\ (Over' <=> Over)
          /\ pass'.pc = p /\ pass'.win = pass.win /\ pass'.plan = pass.plan
          /\ pass'.used = pass.used /\ total' = total
      BY <2>0, <2>4, PassKeeps
    <3>2. PassPart
      BY <2>4, PassParts
    <3>3. PassPart'
      BY <2>4, <3>1, <3>2 DEF PassPart
    <3> QED BY <3>1, <3>3, PassPartsNext
  <2>5. faults \in Nat
    BY PoolsAssumption DEF TypeInv
  <2>6. ASSUME NEW kind, Fault(kind) PROVE faults' \in Nat /\ faults' >= faults
    BY <2>5, <2>6, Faulty
  <2>7. CASE PassVerdict
    <3>1. pass.pc = "verdict" /\ faults' = faults
      BY <2>7 DEF PassVerdict
    <3>2. CASE PassEnd
      BY <3>2, EndMove, PassGone
    <3>3. CASE pass.win.exhausted /\ PassGoto("restore") /\ UNCHANGED window
      BY <2>4, <2>5, <3>1, <3>3 DEF Passing
    <3>4. CASE ~pass.win.exhausted /\ Over /\ PassGoto("cut") /\ UNCHANGED window
      BY <2>4, <2>5, <3>1, <3>4 DEF Passing
    <3> QED BY <2>7, <3>2, <3>3, <3>4, VerdictMove
  <2>8. CASE PassRestore
    <3>1. pass.pc \in {"handback", "restore"} /\ window' = window
      BY <2>8, RestoreMove
    <3>2. faults' \in Nat /\ faults' >= faults
      BY <2>5, <2>6, <2>8, RestoreMove
    <3>3. pass.pc = "restore" => pass.win.exhausted
      BY PassParts DEF PassPart
    <3>4. CASE PassEnd
      BY <3>4, EndMove, PassGone
    <3>5. CASE pass.pc = "handback" /\ PassGoto("verdict")
      BY <2>4, <3>1, <3>2, <3>5 DEF Passing
    <3>6. CASE pass.pc = "handback" /\ PassGoto("handing")
      BY <2>4, <3>1, <3>2, <3>6 DEF Passing
    <3>7. CASE pass.pc = "restore" /\ PassGoto("restoring")
      BY <2>4, <3>1, <3>2, <3>3, <3>7 DEF Passing
    <3> QED BY <2>8, <3>4, <3>5, <3>6, <3>7, RestoreMove
  <2>9. CASE PassRestored
    <3>1. pass.pc \in {"handing", "restoring"} /\ window' = window /\ faults' = faults
      BY <2>9, RestoredMove
    <3>2. pass.pc = "restoring" => pass.win.exhausted
      BY PassParts DEF PassPart
    <3>3. CASE pass.pc = "handing" /\ PassGoto("verdict")
      BY <2>4, <2>5, <3>1, <3>3 DEF Passing
    <3>4. CASE pass.pc = "restoring" /\ PassGoto("unspend")
      BY <2>4, <2>5, <3>1, <3>2, <3>4 DEF Passing
    <3> QED BY <2>9, <3>3, <3>4, RestoredMove
  <2>10. CASE PassUnspend \/ PassSpend
    BY <2>10, UnspendMove, SpendMove, EndMove, PassGone
  <2>11. CASE PassCut
    <3>1. pass.pc = "cut" /\ window' = window
      BY <2>11, CutMove
    <3>2. ~pass.win.exhausted /\ Over
      BY <3>1, PassParts DEF PassPart
    <3>3. CASE PassEnd
      BY <3>3, EndMove, PassGone
    <3>4. CASE PassGoto("spend") /\ faults' = faults
      BY <2>4, <2>5, <3>1, <3>2, <3>4 DEF Passing
    <3>5. CASE PassGoto("cutting") /\ faults' = faults
      BY <2>4, <2>5, <3>1, <3>2, <3>5 DEF Passing
    <3> QED BY <2>11, <3>3, <3>4, <3>5, CutMove
  <2>12. CASE PassWithdrawn
    <3>1. pass.pc = "cutting" /\ window' = window /\ faults' = faults /\ PassGoto("drop")
      BY <2>12, WithdrawnMove
    <3>2. ~pass.win.exhausted /\ Over
      BY <3>1, PassParts DEF PassPart
    <3> QED BY <2>4, <2>5, <3>1, <3>2 DEF Passing
  <2>13. CASE PassDrop
    <3>1. pass.pc = "drop" /\ window' = window
      BY <2>13, DropMove
    <3>2. ~pass.win.exhausted /\ Over
      BY <3>1, PassParts DEF PassPart
    <3>3. CASE PassEnd
      BY <3>3, EndMove, PassGone
    <3>4. CASE PassGoto("spend") /\ faults' = faults
      BY <2>4, <2>5, <3>1, <3>2, <3>4 DEF Passing
    <3> QED BY <2>13, <3>3, <3>4, DropMove
  <2> QED
    BY <1>3, <2>1, <2>2, <2>3, <2>7, <2>8, <2>9, <2>10, <2>11, <2>12, <2>13, Zenon
    DEF PassStep
<1>4. CASE PassCrash
  BY <1>4, PassCrashMove, EndMove, PassGone
<1>5. ASSUME NEW kind \in Kinds, NEW p \in Sold, OpRead(kind, p) PROVE PassInv'
  BY <1>5, PassStill DEF OpRead, usage, rows, hist
<1>6. CASE OpPanel
  BY <1>6, OpPanelMove, PassStill
<1>7. CASE OpCommit
  <2>1. pass.pc = "idle" /\ pass' = pass
    BY <1>7, Turns, CommitMove
  <2> QED BY <2>1, PassGone
<1>8. CASE OpCrash
  <2>1. pass' = pass /\ window' = window /\ op' = NoOp
    BY <1>8, OpCrashMove
  <2>3. faults' >= faults
    BY <1>8, Faulty, OpCrashMove, PoolsAssumption DEF TypeInv
  <2>4. /\ UNCHANGED plan /\ UNCHANGED made /\ UNCHANGED cur /\ UNCHANGED term
        /\ UNCHANGED month /\ UNCHANGED total /\ UNCHANGED at
    BY <1>8, OpCrashMove
  <2>5. pass.since \in Nat /\ faults \in Nat /\ faults' \in Nat
    BY <1>8, Fields, Faulty, OpCrashMove, PoolsAssumption DEF TypeInv
  <2>6. CASE pass.pc # "idle"
    <3>1. PassBase /\ PassPart
      BY <2>6, PassParts
    <3>2. Start' = Start /\ (Over' <=> Over)
      BY <2>1, <2>4 DEF Start, PeriodStart, Over
    <3>3. PassBase'
      BY <2>1, <2>3, <2>4, <2>5, <3>1 DEF PassBase, Metered
    <3>4. PassPart'
      BY <2>1, <2>4, <3>1, <3>2 DEF PassPart
    <3> QED BY <3>3, <3>4, PassPartsNext
  <2> QED BY <2>1, <2>6, PassGone
<1> QED BY <1>1, <1>2, <1>3, <1>4, <1>5, <1>6, <1>7, <1>8, Cases, Zenon

-----------------------------------------------------------------------------
(* What an operation knows.                                                 *)

LEMMA OpNext ==
    ASSUME TypeInv, WindowInv, PassInv, OpInv, [Next]_vars, "crossed" \notin marks'
    PROVE  OpInv'
<1>1. ASSUME op' = op, cur' = cur, squad' = squad, window' = window PROVE OpInv'
  BY <1>1 DEF OpInv, Effective
<1>2. CASE UNCHANGED vars
  BY <1>1, <1>2 DEF vars
<1>3. CASE Tick \/ Connect \/ Spend
  BY <1>1, <1>3, WorldMove
<1>4. CASE PassStep \/ PassCrash
  <2>1. op' = op /\ cur' = cur
    BY <1>4, PassSteady DEF Steady
  <2>2. op.pc = "idle" \/ (squad' = squad /\ window' = window)
    BY <1>4, Turns, PassCrashMove DEF Reads
  <2> QED BY <1>1, <2>1, <2>2 DEF OpInv
<1>5. ASSUME NEW kind \in Kinds, NEW p \in Sold, OpRead(kind, p) PROVE OpInv'
  <2>1. /\ op'.kind = kind /\ op'.row = cur /\ op'.plan = p /\ op'.squad = Effective(p, kind)
        /\ op'.seen = squad[cur] /\ (kind \in {"CHANGE", "GRANT"} => cur < MaxRows)
    BY <1>5, OpReadMove
  <2>2. cur' = cur /\ squad' = squad /\ window' = window
    BY <1>5 DEF OpRead, rows
  <2>3. Effective(p, kind)' <=> Effective(p, kind)
    BY <2>2 DEF Effective
  <2>4. (op.squad = Effective(op.plan, op.kind))'
    <3>1. Effective(op.plan, op.kind)' = Effective(p, kind)
      BY <2>1, <2>2 DEF Effective
    <3> QED BY <2>1, <3>1
  <2> QED BY <2>1, <2>2, <2>4 DEF OpInv
<1>6. CASE OpPanel
  <2>1. /\ op.pc = "panel" /\ cur' = cur /\ squad' = squad /\ window' = window
        /\ \/ op' = NoOp
           \/ /\ op'.kind = op.kind /\ op'.row = op.row /\ op'.plan = op.plan
              /\ op'.squad = op.squad /\ op'.seen = op.seen
    BY <1>6, OpPanelMove
  <2>2. CASE op' = NoOp
    BY <2>2, NoOpType DEF OpInv
  <2>3. CASE /\ op'.kind = op.kind /\ op'.row = op.row /\ op'.plan = op.plan
             /\ op'.squad = op.squad /\ op'.seen = op.seen
    BY <2>1, <2>3 DEF OpInv, Effective
  <2> QED BY <2>1, <2>2, <2>3
<1>7. CASE OpCommit \/ OpCrash
  <2>1. op' = NoOp
    BY <1>7, CommitMove, OpCrashMove
  <2> QED BY <2>1, NoOpType DEF OpInv
<1> QED BY <1>2, <1>3, <1>4, <1>5, <1>6, <1>7, Cases, Zenon

-----------------------------------------------------------------------------
(* Who has the squad.                                                       *)

\* SquadInv while no operation is under way.
Granted ==
    /\ panel = [plan |-> plan[cur],
                squad |-> IF pass.pc \in {"handing", "restoring", "cutting"}
                          THEN ~squad[cur] ELSE squad[cur]]
    /\ pass.pc \in {"handing", "restoring", "drop", "spend"} => ~squad[cur]
    /\ pass.pc \in {"cutting", "unspend"} => squad[cur]
    /\ window[cur].exhausted /\ pass.pc # "unspend" => ~squad[cur]

LEMMA GrantedNow ==
    ASSUME SquadInv, op.pc = "idle", "killed" \notin marks
    PROVE  Granted
BY DEF SquadInv, Granted

LEMMA GrantedNext ==
    ASSUME "killed" \notin marks' => Granted', op'.pc # "commit"
    PROVE  SquadInv'
BY DEF SquadInv, Granted

\* The pass goes on without touching the squad, from one step to a like one.
LEMMA GrantedKeeps ==
    ASSUME Granted, Steady, squad' = squad, panel' = panel,
           window'[cur].exhausted => window[cur].exhausted,
           pass.pc \notin {"handing", "restoring", "cutting", "unspend"},
           pass'.pc \notin {"handing", "restoring", "cutting", "unspend"},
           pass'.pc \in {"drop", "spend"} => ~squad[cur]
    PROVE  Granted'
BY DEF Granted, Steady

LEMMA SquadPass ==
    ASSUME TypeInv, WindowInv, PassInv, SquadInv, PassStep, op.pc = "idle",
           marks \subseteq marks'
    PROVE  SquadInv'
<1>1. Steady /\ op.pc = "idle" /\ op' = op
  BY PassSteady DEF Steady
<1> SUFFICES ASSUME "killed" \notin marks' PROVE Granted'
  BY <1>1, GrantedNext
<1>2. "killed" \notin marks
  OBVIOUS
<1>3. Granted
  BY <1>1, <1>2, GrantedNow
<1>4. squad \in [Rows -> BOOLEAN] /\ cur \in Rows /\ squad[cur] \in BOOLEAN
  BY DEF TypeInv
<1>5. \A w \in Windows : window' = [window EXCEPT ![cur] = w] => window'[cur] = w
  BY StoredIn
<1>6. pass.pc # "idle" => pass.win = window[cur]
  BY DEF PassInv
<1>7. NoPass.pc = "idle"
  BY DEF NoPass
<1>8. CASE PassTargets
  BY <1>1, <1>3, <1>8, TargetsMove, GrantedKeeps DEF PassTargets
<1>9. CASE PassQuery
  <2>1. pass.pc = "query" /\ pass'.pc \in {"idle", "roll"}
    BY <1>9, QueryMove, EndMove
  <2> QED BY <1>1, <1>3, <1>9, <2>1, GrantedKeeps DEF PassQuery
<1>10. CASE PassRoll
  <2>1. pass.pc = "roll" /\ pass'.pc \in {"verdict", "handback"}
    BY <1>10, RollMove
  <2>2. window'[cur].exhausted => window[cur].exhausted
    BY <1>5, <1>10, <2>1, RollMove, StartPast, FreshType
  <2> QED BY <1>1, <1>3, <1>10, <2>1, <2>2, GrantedKeeps DEF PassRoll
<1>11. CASE PassVerdict
  <2>1. pass.pc = "verdict" /\ pass'.pc \in {"idle", "restore", "cut"}
    BY <1>11, VerdictMove, EndMove, GotoMove DEF Passing
  <2>2. window'[cur].exhausted => window[cur].exhausted
    BY <1>5, <1>6, <1>11, <2>1, VerdictMove
  <2> QED BY <1>1, <1>3, <1>11, <2>1, <2>2, GrantedKeeps DEF PassVerdict
<1>12. CASE PassRestore
  <2>1. /\ pass.pc \in {"handback", "restore"} /\ squad' = squad /\ window' = window
    BY <1>12, RestoreMove
  <2>2. CASE panel' = panel /\ pass'.pc \in {"verdict", "idle"}
    BY <1>1, <1>3, <2>1, <2>2, GrantedKeeps
  <2>3. CASE ~squad[cur] /\ panel' = [plan |-> plan[cur], squad |-> TRUE]
             /\ pass'.pc \in {"handing", "restoring"}
    BY <1>1, <2>1, <2>3 DEF Granted, Steady
  <2> QED BY <1>12, <2>2, <2>3, RestoreMove, GotoMove, EndMove DEF Passing
<1>13. CASE PassRestored
  <2>1. /\ pass.pc \in {"handing", "restoring"} /\ squad'[cur] = TRUE /\ window' = window
        /\ panel' = panel
    BY <1>4, <1>13, RestoredMove
  <2>2. panel' = [plan |-> plan[cur], squad |-> TRUE]
    BY <1>3, <1>4, <2>1 DEF Granted
  <2>3. CASE pass.pc = "handing" /\ pass'.pc = "verdict"
    <3>1. ~window[cur].exhausted
      BY <2>3, <1>6, PassParts DEF PassPart
    <3> QED BY <1>1, <2>1, <2>2, <2>3, <3>1 DEF Granted, Steady
  <2>4. CASE pass.pc = "restoring" /\ pass'.pc = "unspend"
    BY <1>1, <2>1, <2>2, <2>4 DEF Granted, Steady
  <2> QED BY <1>13, <2>3, <2>4, RestoredMove, GotoMove DEF Passing
<1>14. CASE PassUnspend
  <2>1. /\ pass.pc = "unspend" /\ pass'.pc = "idle" /\ squad' = squad /\ panel' = panel
        /\ ~window'[cur].exhausted
    BY <1>5, <1>14, UnspendMove, EndMove
  <2> QED BY <1>1, <1>3, <2>1 DEF Granted, Steady
<1>15. CASE PassCut
  <2>1. /\ pass.pc = "cut" /\ squad' = squad /\ window' = window
    BY <1>15, CutMove
  <2>2. ~window[cur].exhausted
    BY <2>1, <1>6, PassParts DEF PassPart
  <2>3. CASE panel' = panel /\ pass'.pc \in {"idle", "spend"} /\ (pass'.pc = "spend" => ~squad[cur])
    BY <1>1, <1>3, <2>1, <2>3, GrantedKeeps
  <2>4. CASE squad[cur] /\ panel' = [plan |-> plan[cur], squad |-> FALSE] /\ pass'.pc = "cutting"
    BY <1>1, <1>4, <2>1, <2>2, <2>4 DEF Granted, Steady
  <2> QED BY <1>15, <2>3, <2>4, CutMove, GotoMove, EndMove DEF Passing
<1>16. CASE PassWithdrawn
  <2>1. /\ pass.pc = "cutting" /\ pass'.pc = "drop" /\ squad'[cur] = FALSE /\ window' = window
        /\ panel' = panel
    BY <1>4, <1>16, WithdrawnMove, GotoMove DEF Passing
  <2>2. panel' = [plan |-> plan[cur], squad |-> FALSE]
    BY <1>3, <1>4, <2>1 DEF Granted
  <2> QED BY <1>1, <2>1, <2>2 DEF Granted, Steady
<1>17. CASE PassDrop
  <2>1. /\ pass.pc = "drop" /\ pass'.pc \in {"spend", "idle"} /\ squad' = squad
        /\ window' = window /\ panel' = panel
    BY <1>17, DropMove, GotoMove, EndMove DEF Passing
  <2>2. ~squad[cur]
    BY <1>3, <2>1 DEF Granted
  <2> QED BY <1>1, <1>3, <2>1, <2>2, GrantedKeeps
<1>18. CASE PassSpend
  <2>1. /\ pass.pc = "spend" /\ pass'.pc = "idle" /\ squad' = squad /\ panel' = panel
    BY <1>18, SpendMove, EndMove
  <2> QED BY <1>1, <1>3, <2>1 DEF Granted, Steady
<1> QED
  BY <1>8, <1>9, <1>10, <1>11, <1>12, <1>13, <1>14, <1>15, <1>16, <1>17, <1>18, Zenon
  DEF PassStep

\* A step of the pass during an operation.
LEMMA SquadReads ==
    ASSUME TypeInv, Apart, WindowInv, PassInv, SquadInv, PassStep, Reads, op.pc # "idle",
           "crossed" \notin marks', [Next]_vars
    PROVE  SquadInv'
<1>1. Steady /\ op' = op
  BY PassSteady DEF Steady
<1> DEFINE Busy == {"handing", "restoring", "cutting", "unspend"}
<1>2. ~Crossing(op)
  BY DEF Crossing
<1>3. pass.pc \notin Busy
  <2>1. ~PassRestored /\ ~PassUnspend /\ ~PassWithdrawn /\ ~PassSpend
    BY <1>2, Zenon DEF PassRestored, PassUnspend, PassWithdrawn, PassSpend, Save
  <2> QED
    BY <2>1 DEF PassStep, PassTargets, PassQuery, PassRoll, PassVerdict, PassRestore, PassCut,
                PassDrop
<1>4. pass'.pc \notin Busy /\ (pass'.pc \in {"drop", "spend"} => ~squad[cur] \/ "killed" \in marks)
  <2>1. ~PassRestored /\ ~PassUnspend /\ ~PassWithdrawn /\ ~PassSpend
    BY <1>2, Zenon DEF PassRestored, PassUnspend, PassWithdrawn, PassSpend, Save
  <2>2. CASE PassTargets
    BY <2>2, TargetsMove
  <2>3. CASE PassQuery
    BY <2>3, QueryMove, EndMove
  <2>4. CASE PassRoll
    BY <2>4, RollMove
  <2>5. CASE PassVerdict
    BY <2>5, VerdictMove, EndMove, GotoMove DEF Passing
  <2>6. CASE PassRestore
    <3>1. ~Push(pass.row, TRUE)
      BY <1>2 DEF Push
    <3>2. NotRestored
      BY <2>6, <3>1, Zenon DEF PassRestore
    <3> QED BY <3>2, EndMove, GotoMove DEF NotRestored, Passing
  <2>7. CASE PassCut
    <3>1. ~Push(pass.row, FALSE) /\ pass.row = cur
      BY <1>2, <2>7 DEF Push, PassCut, PassInv
    <3>2. (~squad[cur] /\ PassGoto("spend")) \/ PassEnd
      BY <2>7, <3>1, Zenon DEF PassCut, NotCut
    <3> QED BY <3>2, EndMove, GotoMove DEF Passing
  <2>8. CASE PassDrop
    <3>1. pass.pc = "drop" /\ pass'.pc \in {"idle", "spend"}
      BY <2>8, DropMove, EndMove, GotoMove DEF Passing
    <3> QED BY <3>1 DEF SquadInv
  <2> QED BY <2>1, <2>2, <2>3, <2>4, <2>5, <2>6, <2>7, <2>8 DEF PassStep
<1>5. "killed" \in marks => "killed" \in marks'
  BY Turns, DropMove
<1>6. squad' = squad /\ window' = window /\ panel' = panel /\ plan' = plan /\ cur' = cur
  BY <1>1 DEF Reads, Steady
<1> QED BY <1>1, <1>3, <1>4, <1>5, <1>6 DEF SquadInv

\* An operation withholds the squad only for a spent window that it keeps.
LEMMA Withheld ==
    ASSUME OpInv, op.pc # "idle", op.plan \in Grants, ~op.squad
    PROVE  ~NewTerm(op.kind) /\ Metered(op.plan) /\ window[cur].exhausted
BY DEF OpInv, Effective

LEMMA SquadCommit ==
    ASSUME TypeInv, WindowInv, OpInv, SquadInv, OpCommit, pass.pc = "idle", marks' = marks
    PROVE  SquadInv'
<1>1. /\ op.pc = "commit" /\ op' = NoOp /\ marks' = marks /\ panel' = panel /\ pass' = pass
      /\ plan'[cur'] = op.plan /\ squad'[cur'] = op.squad
      /\ Kept(window'[cur'], window[cur], op.plan, op.kind)
  BY CommitMove
<1>2. pass.pc = "idle"
  OBVIOUS
<1> SUFFICES ASSUME "killed" \notin marks PROVE Granted'
  BY <1>1, NoOpType, GrantedNext
<1>3. panel = [plan |-> op.plan, squad |-> op.squad]
  BY <1>1 DEF SquadInv
<1>4. window'[cur'].exhausted => ~op.squad
  <2>1. window'[cur'].exhausted => Metered(op.plan) /\ ~NewTerm(op.kind)
    BY <1>1, FreshType, Fields DEF Kept, TypeInv
  <2>2. window'[cur'].exhausted => window[cur].exhausted
    BY <1>1, <2>1 DEF Kept
  <2> QED BY <1>1, <2>1, <2>2 DEF OpInv, Effective
<1>5. panel' = [plan |-> plan'[cur'], squad |-> squad'[cur']]
  BY <1>1, <1>3
<1> QED BY <1>1, <1>2, <1>4, <1>5 DEF Granted

LEMMA SquadNext ==
    ASSUME TypeInv, Apart, WindowInv, PassInv, OpInv, SquadInv, [Next]_vars,
           "crossed" \notin marks'
    PROVE  SquadInv'
<1>1. ASSUME plan' = plan, cur' = cur, squad' = squad, window' = window, panel' = panel,
             pass' = pass, marks' = marks,
             op' = op \/ (op.pc # "commit" /\ op'.pc # "commit")
      PROVE  SquadInv'
  BY <1>1 DEF SquadInv
<1>2. CASE UNCHANGED vars
  BY <1>1, <1>2 DEF vars
<1>3. CASE Tick \/ Connect \/ Spend
  BY <1>1, <1>3, WorldMove
<1>4. CASE PassCrash \/ OpCrash
  BY <1>4, PassCrashMove, OpCrashMove DEF SquadInv
<1>5. ASSUME NEW kind \in Kinds, NEW p \in Sold, OpRead(kind, p) PROVE SquadInv'
  <2>1. op.pc # "commit" /\ op'.pc # "commit"
    BY <1>5, OpReadMove
  <2> QED BY <1>1, <1>5, <2>1 DEF OpRead, rows, hist
<1>6. CASE OpPanel
  <2>1. /\ op.pc = "panel" /\ plan' = plan /\ cur' = cur /\ squad' = squad /\ window' = window
        /\ pass' = pass /\ marks' = marks
    BY <1>6, OpPanelMove, Turns
  <2>2. CASE op' = NoOp /\ panel' = panel
    BY <1>1, <2>1, <2>2, NoOpType
  <2>3. CASE /\ panel' = [plan |-> op.plan, squad |-> op.squad] /\ op'.pc = "commit"
             /\ op'.plan = op.plan /\ op'.squad = op.squad
    BY <2>1, <2>3 DEF SquadInv
  <2> QED BY <1>6, <2>2, <2>3, OpPanelMove
<1>7. CASE PassStep
  <2>1. marks \subseteq marks'
    BY <1>7, Turns, DropMove
  <2> QED BY <1>7, <2>1, Turns, SquadPass, SquadReads
<1>8. CASE OpCommit
  BY <1>8, Turns, SquadCommit
<1> QED BY <1>2, <1>3, <1>4, <1>5, <1>6, <1>7, <1>8, Cases, Zenon

-----------------------------------------------------------------------------
(* Who has a session.                                                       *)

CutOff ==
    /\ marks = {} /\ Metered(plan[cur]) /\ ~squad[cur]
    /\ pass.pc \notin {"handing", "restoring", "drop"}
    /\ op.pc = "commit" => ~op.squad

LEMMA SessionParts == SessionInv <=> (Granting /\ CutOff => ~online)
BY DEF SessionInv, CutOff

LEMMA SessionPartsNext == SessionInv' <=> (Granting /\ CutOff' => ~online')
BY DEF SessionInv, CutOff, Granting, Metered

LEMMA SessionKeeps ==
    ASSUME SessionInv, CutOff' => CutOff, online' => online
    PROVE  SessionInv'
BY SessionParts, SessionPartsNext

LEMMA SessionPass ==
    ASSUME TypeInv, WindowInv, PassInv, SquadInv, SessionInv, PassStep,
           ~PassDrop => marks' = marks
    PROVE  SessionInv'
<1>0. pass.pc # "drop" => marks' = marks
  BY DEF PassDrop
<1>1. Steady /\ op' = op
  BY PassSteady DEF Steady
<1>2. Metered(plan[cur])' <=> Metered(plan[cur])
  BY <1>1 DEF Steady, Metered
<1>3. squad \in [Rows -> BOOLEAN] /\ cur \in Rows
  BY DEF TypeInv
<1>4. ASSUME squad' = squad, marks' = marks, online' = online,
             pass.pc \notin {"handing", "restoring", "drop"}
      PROVE  SessionInv'
  BY <1>1, <1>2, <1>4, SessionKeeps DEF CutOff, Steady
<1>5. ASSUME pass'.pc \in {"handing", "restoring", "drop"} PROVE SessionInv'
  BY <1>5, SessionPartsNext DEF CutOff
<1>6. ASSUME squad'[cur] PROVE SessionInv'
  BY <1>1, <1>6, SessionPartsNext DEF CutOff, Steady
<1>7. CASE PassTargets
  BY <1>4, <1>7 DEF PassTargets, hist
<1>8. CASE PassQuery
  BY <1>4, <1>8 DEF PassQuery, hist
<1>9. CASE PassRoll
  <2>1. pass.pc \notin {"handing", "restoring", "drop"} /\ squad' = squad /\ online' = online
    BY <1>9 DEF PassRoll
  <2> QED BY <1>4, <1>9, <2>1, <1>0
<1>10. CASE PassVerdict
  <2>1. pass.pc \notin {"handing", "restoring", "drop"} /\ squad' = squad /\ online' = online
    BY <1>10 DEF PassVerdict
  <2> QED BY <1>4, <1>10, <2>1, <1>0
<1>11. CASE PassRestore
  BY <1>0, <1>4, <1>11, RestoreMove
<1>12. CASE PassRestored
  BY <1>3, <1>6, <1>12, RestoredMove
<1>13. CASE PassUnspend
  BY <1>0, <1>4, <1>13, UnspendMove
<1>14. CASE PassCut
  BY <1>0, <1>4, <1>14, CutMove
<1>15. CASE PassWithdrawn
  BY <1>5, <1>15, WithdrawnMove, GotoMove DEF Passing
<1>16. CASE PassDrop
  <2>1. CASE online' = FALSE
    BY <2>1, SessionPartsNext
  <2>2. CASE marks' = marks \cup {"undropped"}
    BY <2>2, SessionPartsNext DEF CutOff
  <2> QED BY <1>16, <2>1, <2>2, DropMove
<1>17. CASE PassSpend
  BY <1>0, <1>4, <1>17, SpendMove
<1> QED
  BY <1>7, <1>8, <1>9, <1>10, <1>11, <1>12, <1>13, <1>14, <1>15, <1>16, <1>17, Zenon
  DEF PassStep

LEMMA SessionCommit ==
    ASSUME TypeInv, WindowInv, OpInv, SquadInv, SessionInv, OpCommit, pass.pc = "idle",
           marks' = marks
    PROVE  SessionInv'
<1>1. /\ op.pc = "commit" /\ op' = NoOp /\ marks' = marks /\ online' = online
      /\ plan'[cur'] = op.plan /\ squad'[cur'] = op.squad /\ op.plan \in Plans
  BY CommitMove
<1>2. pass.pc = "idle"
  OBVIOUS
<1> SUFFICES ASSUME Granting, CutOff' PROVE ~online
  BY <1>1, SessionPartsNext
<1>3. marks = {} /\ Metered(op.plan) /\ ~op.squad
  BY <1>1 DEF CutOff, Metered
<1>4. op.plan \in Grants
  BY <1>1, <1>3 DEF Granting
<1>5. window[cur].exhausted
  BY <1>1, <1>3, <1>4, Withheld
<1>6. ~squad[cur]
  BY <1>2, <1>3, <1>5 DEF SquadInv
<1>7. Metered(plan[cur])
  BY <1>5, FreshType, Fields DEF WindowInv, TypeInv
<1>8. CutOff
  BY <1>2, <1>3, <1>6, <1>7 DEF CutOff
<1> QED BY <1>8, SessionParts

LEMMA SessionNext ==
    ASSUME TypeInv, WindowInv, PassInv, OpInv, SquadInv, SessionInv, [Next]_vars,
           "crossed" \notin marks'
    PROVE  SessionInv'
<1>1. ASSUME plan' = plan, cur' = cur, squad' = squad, pass' = pass, marks' = marks,
             \/ op' = op \/ op.pc # "commit",
             online' => online
      PROVE  SessionInv'
  BY <1>1, SessionKeeps DEF CutOff, Metered
<1>2. CASE UNCHANGED vars
  BY <1>1, <1>2 DEF vars
<1>3. CASE Tick \/ Connect \/ Spend
  <2>1. /\ plan' = plan /\ cur' = cur /\ squad' = squad /\ pass' = pass /\ marks' = marks
        /\ op' = op /\ (online' => online \/ panel.squad)
    BY <1>3, WorldMove
  <2>2. CASE online' => online
    BY <1>1, <2>1, <2>2
  <2>3. CASE panel.squad
    <3>1. ASSUME CutOff PROVE FALSE
      <4>1. "killed" \notin marks /\ ~squad[cur]
        BY <3>1 DEF CutOff
      <4>2. op.pc = "commit" => op.squad
        BY <2>3, <4>1 DEF SquadInv
      <4>3. op.pc # "commit" => pass.pc \in {"handing", "restoring", "cutting"}
        BY <2>3, <4>1 DEF SquadInv
      <4>4. pass.pc # "cutting"
        BY <4>1 DEF SquadInv
      <4> QED BY <3>1, <4>2, <4>3, <4>4 DEF CutOff
    <3>2. CutOff' => CutOff
      BY <2>1 DEF CutOff, Metered
    <3> QED BY <3>1, <3>2, SessionPartsNext
  <2> QED BY <2>1, <2>2, <2>3
<1>4. CASE PassCrash \/ OpCrash
  <2>1. marks' # {}
    BY <1>4, PassCrashMove, OpCrashMove
  <2> QED BY <2>1, SessionPartsNext DEF CutOff
<1>5. ASSUME NEW kind \in Kinds, NEW p \in Sold, OpRead(kind, p) PROVE SessionInv'
  <2>1. op.pc # "commit"
    BY <1>5, OpReadMove
  <2> QED BY <1>1, <1>5, <2>1 DEF OpRead, rows, hist
<1>6. CASE OpPanel
  BY <1>1, <1>6, OpPanelMove, Turns
<1>7. CASE PassStep
  BY <1>7, Turns, SessionPass
<1>8. CASE OpCommit
  BY <1>8, Turns, SessionCommit
<1> QED BY <1>2, <1>3, <1>4, <1>5, <1>6, <1>7, <1>8, Cases, Zenon

-----------------------------------------------------------------------------
(* What a user without the squad has spent.                                 *)

Lacks ==
    /\ "killed" \notin marks /\ Metered(plan[cur]) /\ plan[cur] \in Grants
    /\ Strategy[plan[cur]] = "NO_RESET" /\ ~squad[cur] /\ ~window[cur].exhausted
    /\ pass.pc \notin {"handing", "restoring"}

Settled ==
    /\ window[cur].open /\ SpentBy(Quota[plan[cur]])
    /\ pass.pc \in {"roll", "verdict"} => Over

LEMMA SettleParts == SettleInv <=> (Lacks => Settled)
BY DEF SettleInv, Lacks, Settled

LEMMA SettlePartsNext == SettleInv' <=> (Lacks' => Settled')
BY DEF SettleInv, Lacks, Settled

\* A step after which the user lacks the squad as before.
LEMMA SettleKeeps ==
    ASSUME TypeInv, WindowInv, Lacks => Settled, Steady, Lacks' => Lacks,
           window'[cur].open = window[cur].open, window'[cur].start = window[cur].start,
           Lacks /\ pass'.pc \in {"roll", "verdict"} => Over'
    PROVE  SettleInv'
<1> SUFFICES ASSUME Lacks' PROVE Settled'
  BY SettlePartsNext
<1>1. Settled /\ Lacks
  OBVIOUS
<1>2. SpentBy(Quota[plan[cur]])'
  BY <1>1 DEF Settled, Steady, SpentBy
<1> QED BY <1>1, <1>2 DEF Settled, Steady

LEMMA FloorBelow ==
    ASSUME NEW q \in Nat, q > 0
    PROVE  WarnFloor(q) <= q
BY DEF WarnFloor

LEMMA SettlePass ==
    ASSUME TypeInv, WindowInv, PassInv, SquadInv, SettleInv, PassStep,
           ~PassDrop => marks' = marks
    PROVE  SettleInv'
<1>0. pass.pc # "drop" => marks' = marks
  BY DEF PassDrop
<1>1. Steady /\ op' = op
  BY PassSteady DEF Steady
<1>2. Lacks => Settled
  BY SettleParts
<1>3. squad \in [Rows -> BOOLEAN] /\ cur \in Rows
  BY DEF TypeInv
<1>4. /\ plan' = plan /\ cur' = cur /\ at' = at /\ total' = total
      /\ (Metered(plan[cur])' <=> Metered(plan[cur]))
  BY <1>1 DEF Steady, Metered
<1>5. ASSUME squad'[cur] PROVE SettleInv'
  BY <1>4, <1>5, SettlePartsNext DEF Lacks
<1>6. ASSUME pass'.pc \in {"handing", "restoring"} PROVE SettleInv'
  BY <1>6, SettlePartsNext DEF Lacks
<1>7. ASSUME window'[cur].exhausted PROVE SettleInv'
  BY <1>4, <1>7, SettlePartsNext DEF Lacks
<1>8. ASSUME squad' = squad, marks' = marks, pass.pc \notin {"handing", "restoring"},
             window'[cur].open = window[cur].open, window'[cur].start = window[cur].start,
             window'[cur].exhausted = window[cur].exhausted,
             Lacks /\ pass'.pc \in {"roll", "verdict"} => Over'
      PROVE  SettleInv'
  <2>1. Lacks' => Lacks
    BY <1>4, <1>8 DEF Lacks
  <2> QED BY <1>1, <1>2, <1>8, <2>1, SettleKeeps
<1>9. \A w \in Windows : window' = [window EXCEPT ![cur] = w] => window'[cur] = w
  BY StoredIn
<1>10. pass.pc # "idle" => pass.win = window[cur] /\ pass.plan = plan[cur]
  BY DEF PassInv
<1>11. CASE PassTargets
  <2>1. pass.pc = "idle" /\ pass'.pc = "query"
    BY <1>11, TargetsMove
  <2> QED BY <1>8, <1>11, <2>1 DEF PassTargets, hist
<1>12. CASE PassQuery
  <2>1. pass.pc = "query" /\ squad' = squad /\ marks' = marks /\ window' = window
    BY <1>12 DEF PassQuery, hist
  <2>2. CASE pass'.pc = "idle"
    BY <1>8, <2>1, <2>2
  <2>3. CASE /\ pass'.pc = "roll" /\ pass'.plan = pass.plan
             /\ pass'.used = IF Measured >= WarnFloor(Quota[pass.plan]) THEN Measured ELSE 0
    <3>1. ASSUME Lacks PROVE Over'
      <4>1. Settled /\ Strategy[plan[cur]] = "NO_RESET" /\ Metered(plan[cur])
        BY <1>2, <3>1 DEF Lacks
      <4>2. pass.plan = plan[cur] /\ window[cur].open /\ Start = window[cur].start
        BY <1>10, <2>1, <4>1, StartPast DEF Settled
      <4>3. /\ Quota[plan[cur]] \in Nat /\ Quota[plan[cur]] > 0
            /\ Quota[plan[cur]] + at[Start] <= total
        BY <4>1, <4>2, Fields DEF Settled, SpentBy, Metered
      <4>4. Measured >= Quota[plan[cur]]
        BY <2>1, <4>3, StartPast
      <4>5. Measured >= WarnFloor(Quota[plan[cur]])
        <5>1. WarnFloor(Quota[plan[cur]]) <= Quota[plan[cur]]
          BY <4>3, FloorBelow
        <5>2. WarnFloor(Quota[plan[cur]]) \in Int
          BY <4>3 DEF WarnFloor
        <5> QED BY <2>1, <4>3, <4>4, <5>1, <5>2, StartPast
      <4>6. pass'.used = Measured
        BY <2>3, <4>2, <4>5
      <4> QED BY <2>1, <2>3, <4>2, <4>3, <4>4, <4>6, StartPast DEF Over
    <3> QED BY <1>8, <2>1, <2>3, <3>1
  <2> QED BY <1>12, <2>2, <2>3, QueryMove, EndMove
<1>13. CASE PassRoll
  <2>1. pass.pc = "roll" /\ squad' = squad /\ marks' = marks /\ Holds
    BY <1>0, <1>13, RollMove DEF PassRoll
  <2>2. Over' <=> Over
    BY <2>1 DEF Holds, Over
  <2>3. CASE window' = window
    <3>1. Lacks => Over
      BY <1>2, <2>1 DEF Settled
    <3> QED BY <1>8, <2>1, <2>2, <2>3, <3>1
  <2>4. CASE /\ ~(pass.win.open /\ pass.win.start = Start)
             /\ window' = [window EXCEPT ![cur] = Fresh(Start)]
    <3>1. ASSUME Lacks' PROVE FALSE
      <4>1. Metered(plan[cur]) /\ plan[cur] \in Grants /\ Strategy[plan[cur]] = "NO_RESET"
            /\ ~squad[cur] /\ "killed" \notin marks
        BY <1>4, <2>1, <3>1 DEF Lacks
      <4>2. ~window[cur].open
        BY <1>10, <2>1, <2>4, <4>1, StartPast
      <4>3. ~window[cur].exhausted
        BY <1>3, <4>2 DEF WindowInv
      <4>4. Lacks
        BY <2>1, <4>1, <4>3 DEF Lacks
      <4> QED BY <1>2, <4>2, <4>4 DEF Settled
    <3> QED BY <3>1, SettlePartsNext
  <2> QED BY <1>13, <2>3, <2>4, RollMove
<1>14. CASE PassVerdict
  <2>1. pass.pc = "verdict" /\ squad' = squad /\ marks' = marks
    BY <1>0, <1>14 DEF PassVerdict
  <2>2. /\ pass'.pc \in {"idle", "restore", "cut"}
        /\ window'[cur].open = window[cur].open /\ window'[cur].start = window[cur].start
        /\ window'[cur].exhausted = window[cur].exhausted
    BY <1>9, <1>10, <1>14, <2>1, VerdictMove, EndMove, GotoMove DEF Passing
  <2> QED BY <1>8, <2>1, <2>2
<1>15. CASE PassRestore
  <2>1. pass.pc \in {"handback", "restore"} /\ squad' = squad /\ window' = window
    BY <1>15, RestoreMove
  <2>2. \/ window[cur].exhausted \/ Strategy[plan[cur]] = "MONTH"
    BY <1>10, <2>1, PassParts DEF PassPart
  <2> QED BY <1>4, <2>1, <2>2, SettlePartsNext DEF Lacks
<1>16. CASE PassRestored
  BY <1>3, <1>5, <1>16, RestoredMove
<1>17. CASE PassUnspend
  <2>1. pass.pc = "unspend" /\ squad' = squad /\ marks' = marks
    BY <1>0, <1>17, UnspendMove
  <2>2. "killed" \notin marks => squad[cur]
    BY <2>1 DEF SquadInv
  <2> QED BY <1>4, <2>1, <2>2, SettlePartsNext DEF Lacks
<1>18. CASE PassCut
  <2>1. pass.pc = "cut" /\ squad' = squad /\ marks' = marks /\ window' = window
        /\ pass'.pc \in {"idle", "spend", "cutting"}
    BY <1>0, <1>18, CutMove, GotoMove, EndMove DEF Passing
  <2> QED BY <1>8, <2>1
<1>19. CASE PassWithdrawn
  <2>1. pass.pc = "cutting" /\ window' = window /\ pass'.pc = "drop"
    BY <1>19, WithdrawnMove, GotoMove DEF Passing
  <2>2. /\ window[cur].open /\ window[cur].start = Start /\ Over
        /\ pass.used + at[Start] <= total
    BY <1>10, <2>1, PassParts DEF PassPart
  <2>3. SpentBy(Quota[plan[cur]])
    BY <1>10, <2>1, <2>2, StartPast, Fields DEF SpentBy, Over
  <2>4. Settled'
    BY <1>4, <2>1, <2>2, <2>3 DEF Settled, SpentBy
  <2> QED BY <2>4, SettlePartsNext
<1>20. CASE PassDrop
  <2>1. pass.pc = "drop" /\ squad' = squad /\ window' = window /\ pass'.pc \in {"idle", "spend"}
        /\ marks \subseteq marks'
    BY <1>20, DropMove, GotoMove, EndMove DEF Passing
  <2>2. Lacks' => Lacks
    BY <1>4, <2>1 DEF Lacks
  <2> QED BY <1>1, <1>2, <2>1, <2>2, SettleKeeps
<1>21. CASE PassSpend
  BY <1>7, <1>9, <1>21, SpendMove
<1> QED
  BY <1>11, <1>12, <1>13, <1>14, <1>15, <1>16, <1>17, <1>18, <1>19, <1>20, <1>21, Zenon
  DEF PassStep

LEMMA SettleNext ==
    ASSUME TypeInv, WindowInv, PassInv, OpInv, SquadInv, SettleInv, [Next]_vars,
           "crossed" \notin marks'
    PROVE  SettleInv'
<1>1. Lacks => Settled
  BY SettleParts
<1>2. ASSUME Steady \/ (plan' = plan /\ cur' = cur /\ at' = at /\ total' = total),
             squad' = squad, window' = window, pass' = pass, marks' = marks
      PROVE  SettleInv'
  <2>1. Lacks' => Lacks
    BY <1>2 DEF Lacks, Steady, Metered
  <2>2. Settled => Settled'
    BY <1>2 DEF Settled, Steady, SpentBy, Over
  <2> QED BY <1>1, <2>1, <2>2, SettlePartsNext
<1>3. CASE UNCHANGED vars
  BY <1>2, <1>3, Still
<1>4. CASE Tick \/ Connect \/ Spend
  <2>1. /\ plan' = plan /\ cur' = cur /\ squad' = squad /\ window' = window /\ pass' = pass
        /\ marks' = marks /\ total' >= total /\ total' \in Nat
        /\ \A m \in Months : m <= month => at'[m] = at[m]
    BY <1>4, WorldMove
  <2>2. window[cur].start <= month /\ window[cur].start \in Months
    BY Fields DEF WindowInv, TypeInv
  <2>3. Lacks' => Lacks
    BY <2>1 DEF Lacks, Metered
  <2>4. SpentBy(Quota[plan[cur]]) => SpentBy(Quota[plan[cur]])'
    <3>1. at'[window[cur].start] = at[window[cur].start]
      BY <2>1, <2>2
    <3>2. at[window[cur].start] \in Nat /\ Quota[plan[cur]] \in Nat /\ total \in Nat
      BY <2>2, Fields
    <3> QED BY <2>1, <3>1, <3>2 DEF SpentBy
  <2>5. Over => Over'
    BY <2>1 DEF Over
  <2> QED BY <1>1, <2>1, <2>3, <2>4, <2>5, SettlePartsNext DEF Settled
<1>5. CASE PassCrash \/ OpCrash
  <2>1. "killed" \in marks'
    BY <1>5, PassCrashMove, OpCrashMove
  <2> QED BY <2>1, SettlePartsNext DEF Lacks
<1>6. ASSUME NEW kind \in Kinds, NEW p \in Sold, OpRead(kind, p) PROVE SettleInv'
  BY <1>2, <1>6 DEF OpRead, rows, hist, usage
<1>7. CASE OpPanel
  BY <1>2, <1>7, OpPanelMove, Turns
<1>8. CASE OpCommit
  <2>1. /\ op.pc = "commit" /\ plan'[cur'] = op.plan /\ squad'[cur'] = op.squad
        /\ Kept(window'[cur'], window[cur], op.plan, op.kind)
    BY <1>8, CommitMove
  <2>2. ASSUME Lacks' PROVE FALSE
    <3>1. op.plan \in Grants /\ ~op.squad /\ ~window'[cur'].exhausted
      BY <2>1, <2>2 DEF Lacks
    <3>2. ~NewTerm(op.kind) /\ Metered(op.plan) /\ window[cur].exhausted
      BY <2>1, <3>1, Withheld
    <3>3. window'[cur'] = window[cur]
      BY <2>1, <3>2 DEF Kept
    <3> QED BY <3>1, <3>2, <3>3
  <2> QED BY <2>2, SettlePartsNext
<1>9. CASE PassStep
  BY <1>9, Turns, SettlePass
<1> QED BY <1>3, <1>4, <1>5, <1>6, <1>7, <1>8, <1>9, Cases, Zenon

-----------------------------------------------------------------------------
(* The theorems.                                                            *)

LEMMA InitIInv ==
    ASSUME Init
    PROVE  IInv
<1>1. PICK p \in Held :
         /\ plan = [s \in Rows |-> IF s = 1 THEN p ELSE None]
         /\ squad = [s \in Rows |-> s = 1 /\ p \in Grants]
         /\ panel = [plan |-> p, squad |-> p \in Grants]
  BY DEF Init
<1>2. /\ month = 1 /\ total = 0 /\ at = [m \in Months |-> 0] /\ online = FALSE /\ cur = 1
      /\ made = [s \in Rows |-> 1] /\ window = [s \in Rows |-> NoWindow]
      /\ pass = NoPass /\ op = NoOp /\ ops = 0 /\ faults = 0
      /\ term = [month |-> 1, seeded |-> FALSE] /\ marks = {}
  BY DEF Init
<1>3. /\ p \in Plans /\ 1 \in Rows /\ 1 \in Months /\ MaxOps \in Nat /\ MaxFaults \in Nat
      /\ Months \subseteq Nat
  BY PoolsAssumption DEF Rows, Months
<1>4. /\ NoWindow \in Windows /\ ~NoWindow.open /\ ~NoWindow.exhausted /\ NoWindow.start = 1
  BY <1>3, FreshType
<1>5. NoPass \in Passes /\ NoPass.pc = "idle"
  BY <1>3, <1>4 DEF NoPass, Passes
<1>6. plan[cur] = p /\ window[cur] = NoWindow /\ made[cur] = 1
  BY <1>1, <1>2, <1>3
<1>7. squad[cur] <=> p \in Grants
  BY <1>1, <1>2, <1>3
<1>8. TypeInv
  <2>1. plan \in [Rows -> Plans \cup {None}]
    BY <1>1, <1>3
  <2>2. squad \in [Rows -> BOOLEAN] /\ panel \in [plan : Plans, squad : BOOLEAN]
    <3>1. (p \in Grants) \in BOOLEAN
      OBVIOUS
    <3>2. squad \in [Rows -> BOOLEAN]
      <4>1. \A s \in Rows : (s = 1 /\ p \in Grants) \in BOOLEAN
        OBVIOUS
      <4> QED BY <1>1, <4>1, Zenon
    <3> QED BY <1>1, <1>3, <3>1, <3>2
  <2>3. at \in [Months -> Nat] /\ made \in [Rows -> Months] /\ window \in [Rows -> Windows]
    BY <1>2, <1>3, <1>4
  <2>4. term \in [month : Months, seeded : BOOLEAN]
    BY <1>2, <1>3
  <2>5. /\ month \in Months /\ total \in Nat /\ online \in BOOLEAN /\ cur \in Rows
        /\ plan[cur] \in Plans /\ marks \subseteq {"killed", "undropped", "crossed"}
    BY <1>2, <1>3, <1>6
  <2>6. ops \in 0 .. MaxOps /\ faults \in 0 .. MaxFaults
    BY <1>2, <1>3
  <2>7. /\ pass \in Passes /\ op \in Operations /\ pass = NoPass /\ op = NoOp
    BY <1>2, <1>5, NoOpType
  <2> QED BY <1>5, <2>1, <2>2, <2>3, <2>4, <2>5, <2>6, <2>7, NoOpType DEF TypeInv
<1>9. Apart /\ OpInv /\ PassInv
  BY <1>2, <1>5, NoOpType DEF Apart, OpInv, PassInv
<1>10. WindowInv
  <2>1. \A m, n \in Months : at[m] = 0 /\ at[n] = 0
    BY <1>2
  <2>2. \A r \in Rows : made[r] = 1 /\ window[r] = NoWindow
    BY <1>2
  <2> QED BY <1>2, <1>4, <1>6, <2>1, <2>2 DEF WindowInv
<1>11. SquadInv
  <2>1. panel = [plan |-> plan[cur], squad |-> squad[cur]]
    <3>1. squad[cur] = (p \in Grants)
      BY <1>1, <1>2, <1>3
    <3> QED BY <1>1, <1>6, <3>1
  <2> QED BY <1>2, <1>4, <1>5, <1>6, <2>1, NoOpType DEF SquadInv
<1>12. SessionInv
  BY <1>2 DEF SessionInv
<1>13. SettleInv
  BY <1>6, <1>7 DEF SettleInv
<1> QED BY <1>8, <1>9, <1>10, <1>11, <1>12, <1>13 DEF IInv, Sound

LEMMA NextIInv ==
    ASSUME IInv, [Next]_vars
    PROVE  IInv'
<1>1. TypeInv /\ TypeInv'
  BY TypeNext DEF IInv
<1> SUFFICES ASSUME "crossed" \notin marks' PROVE Sound'
  BY <1>1 DEF IInv
<1>2. Sound
  BY <1>1, Turns DEF IInv
<1>3. /\ Apart /\ WindowInv /\ PassInv /\ OpInv /\ SquadInv /\ SessionInv /\ SettleInv
  BY <1>2 DEF Sound
<1>4. Apart' /\ WindowInv' /\ PassInv'
  BY <1>1, <1>3, ApartNext, WindowNext, PassNext
<1>5. OpInv' /\ SquadInv' /\ SessionInv' /\ SettleInv'
  BY <1>1, <1>3, OpNext, SquadNext, SessionNext, SettleNext
<1> QED BY <1>4, <1>5 DEF Sound

\* For any plans, quotas, calendar and faults, and however passes and operations overlap, the
\* types hold, and the windows, the pass, the operation, the squads and the sessions stay as
\* described above until the first write of one during the other (run_metering,
\* PurchaseSubscription, SetUserSubscription).
THEOREM Invariant == Spec => []IInv
<1>1. Init => IInv
  BY InitIInv
<1>2. IInv /\ [Next]_vars => IInv'
  BY NextIInv
<1> QED BY <1>1, <1>2, PTL DEF Spec

LEMMA SquadBy ==
    ASSUME IInv
    PROVE  SquadFollowsVerdict
<1>1. TypeInv
  BY DEF IInv
<1>2. TypeOK
  <2>1. plan[cur] # None
    BY <1>1, PoolsAssumption DEF TypeInv
  <2>2. pass = NoPass \/ (pass.row \in Rows /\ plan[pass.row] # None /\ Metered(pass.plan))
    BY <1>1, PoolsAssumption DEF TypeInv
  <2>3. op = NoOp \/ (op.row = cur /\ op.plan \in Sold)
    BY <1>1 DEF TypeInv
  <2> QED BY <1>1, <2>1, <2>2, <2>3 DEF TypeInv, TypeOK
<1>3. ASSUME AtRest
      PROVE  /\ panel = [plan |-> plan[cur], squad |-> squad[cur]]
             /\ window[cur].exhausted => ~squad[cur]
  <2>1. SquadInv /\ "killed" \notin marks
    BY <1>3 DEF AtRest, Upset, IInv, Sound
  <2> QED BY <1>3, <2>1 DEF AtRest, SquadInv
<1>4. PanelMatchesRow
  BY <1>3 DEF PanelMatchesRow
<1>5. SpentIsWithheld
  BY <1>3 DEF SpentIsWithheld
<1> QED BY <1>2, <1>4, <1>5 DEF SquadFollowsVerdict

\* At rest the squad of the row and of the panel is the one the window's verdict and the row
\* say, whatever passes, refused calls, renewals, swaps, grants and promo codes came before,
\* unless a process was killed between two commits or a pass and an operation wrote during
\* each other (_apply_verdict, effective_squads).
THEOREM SquadFollows == Spec => []SquadFollowsVerdict
BY Invariant, SquadBy, PTL

\* What a step makes of the window of a row.
LEMMA WindowSteps ==
    ASSUME TypeInv, Sound, [Next]_vars
    PROVE  \/ window' = window
           \/ pass.pc = "roll" /\ PassRoll /\ window' = [window EXCEPT ![cur] = Fresh(Start)]
           \/ /\ pass.pc \in {"verdict", "unspend", "spend"} /\ PassStep
              /\ \E w \in Windows :
                    /\ window' = [window EXCEPT ![cur] = w] /\ w.open = window[cur].open
                    /\ w.start = window[cur].start
                    /\ w.exhausted => window[cur].exhausted \/ PassSpend
           \/ OpCommit
<1>1. TypeInv /\ PassInv /\ WindowInv /\ OpInv
  BY DEF Sound
<1>2. pass.pc # "idle" => pass.win = window[cur]
  BY <1>1 DEF PassInv
<1>3. CASE UNCHANGED vars
  BY <1>3 DEF vars
<1>4. CASE Tick \/ Connect \/ Spend
  BY <1>1, <1>4, WorldMove
<1>5. CASE PassRoll
  BY <1>1, <1>5, RollMove
<1>6. CASE PassVerdict
  <2>1. pass.pc = "verdict" /\ PassStep
    BY <1>6 DEF PassVerdict, PassStep
  <2>2. CASE window' = window
    BY <2>2
  <2>3. CASE \E w \in Windows :
                /\ window' = [window EXCEPT ![cur] = w] /\ w.open = pass.win.open
                /\ w.start = pass.win.start /\ w.exhausted = pass.win.exhausted
    BY <1>2, <2>1, <2>3
  <2> QED BY <1>1, <1>6, <2>2, <2>3, VerdictMove
<1>7. CASE PassUnspend
  BY <1>1, <1>2, <1>7, UnspendMove DEF PassStep
<1>8. CASE PassSpend
  BY <1>1, <1>2, <1>8, SpendMove DEF PassStep
<1>9. CASE PassTargets \/ PassQuery \/ PassRestore \/ PassRestored \/ PassCut \/ PassWithdrawn
           \/ PassDrop \/ PassCrash
  BY <1>9 DEF PassTargets, PassQuery, PassRestore, PassRestored, PassCut, PassWithdrawn,
              PassDrop, PassCrash
<1>10. ASSUME NEW kind \in Kinds, NEW p \in Sold, OpRead(kind, p) PROVE window' = window
  BY <1>10 DEF OpRead
<1>11. CASE OpPanel \/ OpCrash
  BY <1>11 DEF OpPanel, OpCrash
<1> QED
  BY <1>3, <1>4, <1>5, <1>6, <1>7, <1>8, <1>9, <1>10, <1>11, Cases, Zenon DEF PassStep

LEMMA ForwardStep ==
    ASSUME IInv, [Next]_vars
    PROVE  WindowsMoveForward
<1>0. CASE "crossed" \in marks
  BY <1>0 DEF WindowsMoveForward
<1> SUFFICES ASSUME "crossed" \notin marks PROVE WindowsMoveForward
  BY <1>0
<1>1. TypeInv /\ PassInv /\ WindowInv /\ OpInv /\ Sound
  BY DEF IInv, Sound
<1>2. /\ window \in [Rows -> Windows] /\ \A r \in Rows : window[r].start \in Nat
      /\ \A r \in Rows : window[r].start <= month
  BY <1>1, Fields DEF TypeInv, WindowInv, Windows
<1>3. ASSUME NEW w \in Windows, window' = [window EXCEPT ![cur] = w],
             window[cur].open /\ w.open => w.start >= window[cur].start
      PROVE  WindowsMoveForward
  BY <1>1, <1>2, <1>3, StoredIn DEF WindowsMoveForward
<1>4. CASE window' = window
  BY <1>2, <1>4 DEF WindowsMoveForward
<1>5. CASE pass.pc = "roll" /\ window' = [window EXCEPT ![cur] = Fresh(Start)]
  <2>1. Start \in Months /\ Fresh(Start) \in Windows /\ Fresh(Start).start = Start
    BY <1>1, <1>5, StartPast, FreshType
  <2>2. window[cur].start <= pass.now
    BY <1>1, <1>5 DEF PassInv
  <2>3. window[cur].open => Start >= window[cur].start
    BY <1>1, <1>2, <1>5, <2>2, StartPast, Fields DEF TypeInv
  <2> QED BY <1>3, <1>5, <2>1, <2>3
<1>6. CASE \E w \in Windows :
              window' = [window EXCEPT ![cur] = w] /\ w.start = window[cur].start
  <2>1. window[cur].start \in Nat
    BY <1>1, <1>2 DEF TypeInv
  <2>2. PICK w \in Windows :
               window' = [window EXCEPT ![cur] = w] /\ w.start = window[cur].start
    BY <1>6
  <2>3. w.start >= window[cur].start
    BY <2>1, <2>2
  <2> QED BY <1>3, <2>2, <2>3
<1>7. CASE OpCommit
  <2>1. /\ Kept(window'[cur'], window[cur], op.plan, op.kind) /\ cur \in Rows /\ month \in Nat
        /\ cur' \in Rows /\ (cur' # cur => window'[cur] = NoWindow /\ cur' = cur + 1)
        /\ \A r \in Rows \ {cur, cur'} : window'[r] = window[r]
    BY <1>1, <1>7, CommitMove, Fields DEF TypeInv
  <2> SUFFICES ASSUME NEW r \in Rows, window[r].open, window'[r].open
               PROVE  window'[r].start >= window[r].start
    BY DEF WindowsMoveForward
  <2>2. ~NoWindow.open /\ Fresh(month).start = month
    BY <1>1, FreshType DEF TypeInv
  <2>3. CASE r = cur /\ cur' = cur
    <3>1. window'[cur] = Fresh(month) \/ window'[cur] = window[cur]
      BY <2>1, <2>2, <2>3 DEF Kept
    <3>2. CASE window'[cur] = Fresh(month)
      BY <1>2, <2>1, <2>2, <2>3, <3>2
    <3>3. CASE window'[cur] = window[cur]
      BY <1>2, <2>1, <2>3, <3>3
    <3> QED BY <3>1, <3>2, <3>3
  <2>4. CASE r = cur /\ cur' # cur
    BY <2>1, <2>2, <2>4
  <2>5. CASE r = cur' /\ cur' # cur
    <3>1. r > cur
      BY <2>1, <2>5, Fields, <1>1
    <3> QED BY <1>1, <2>2, <3>1 DEF WindowInv
  <2>6. CASE r # cur /\ r # cur'
    BY <1>2, <2>1, <2>6
  <2> QED BY <2>3, <2>4, <2>5, <2>6
<1> QED BY <1>1, <1>4, <1>5, <1>6, <1>7, WindowSteps

LEMMA SwapStep ==
    ASSUME IInv
    PROVE  SwapKeepsCounter
<1> SUFFICES ASSUME OpCommit, "crossed" \notin marks, ~NewTerm(op.kind), Metered(op.plan),
                    window[cur].open
             PROVE  window'[cur'] = window[cur] /\ (window[cur].exhausted => ~squad'[cur'])
  BY DEF SwapKeepsCounter
<1>1. TypeInv /\ PassInv /\ WindowInv /\ OpInv /\ SquadInv
  BY DEF IInv, Sound
<1>2. /\ Kept(window'[cur'], window[cur], op.plan, op.kind) /\ squad'[cur'] = op.squad
      /\ op.pc = "commit"
  BY <1>1, CommitMove
<1>3. window'[cur'] = window[cur]
  BY <1>2 DEF Kept
<1>4. window[cur].exhausted => ~op.squad
  BY <1>1, <1>2 DEF OpInv, Effective
<1> QED BY <1>2, <1>3, <1>4

\* Only the end of a cut marks a window spent.
LEMMA Spending ==
    ASSUME TypeInv, Sound, [Next]_vars, ~window[cur].exhausted, window'[cur].exhausted
    PROVE  PassSpend
<1>1. TypeInv /\ PassInv /\ WindowInv /\ OpInv
  BY DEF Sound
<1>2. CASE window' = window
  BY <1>2
<1>3. CASE pass.pc = "roll" /\ window' = [window EXCEPT ![cur] = Fresh(Start)]
  BY <1>1, <1>3, StartPast, FreshType, StoredIn
<1>4. CASE \E w \in Windows :
              /\ window' = [window EXCEPT ![cur] = w]
              /\ w.exhausted => window[cur].exhausted \/ PassSpend
  BY <1>1, <1>4, StoredIn
<1>5. CASE OpCommit
  <2>1. /\ Kept(window'[cur'], window[cur], op.plan, op.kind)
        /\ cur' # cur => window'[cur] = NoWindow
    BY <1>1, <1>5, CommitMove
  <2>2. ~NoWindow.exhausted /\ ~Fresh(month).exhausted
    BY <1>1, FreshType DEF TypeInv
  <2> QED BY <2>1, <2>2 DEF Kept
<1> QED BY <1>2, <1>3, <1>4, <1>5, WindowSteps

LEMMA CutStep ==
    ASSUME IInv, [Next]_vars
    PROVE  CutForItsMonths
<1> SUFFICES ASSUME ~window[cur].exhausted, window'[cur].exhausted, ~term.seeded,
                    "crossed" \notin marks
             PROVE  total - at[term.month] >= Quota[plan[cur]]
  BY DEF CutForItsMonths
<1>1. TypeInv /\ PassInv /\ WindowInv /\ Sound
  BY DEF IInv, Sound
<1>2. pass.pc = "spend"
  BY Spending, SpendMove, <1>1
<1>3. PassBase /\ PassPart
  BY <1>1, <1>2, PassParts
<1>4. Over /\ pass.used + at[Start] <= total /\ pass.plan = plan[cur]
  BY <1>2, <1>3 DEF PassPart, PassBase
<1>5. term.month <= Start /\ Start \in Months /\ Start <= month
  BY <1>1, <1>2, StartInTerm, StartPast
<1>6. at[term.month] <= at[Start]
  BY <1>1, <1>5, Fields DEF WindowInv
<1> QED BY <1>1, <1>4, <1>5, <1>6, Fields DEF Over

LEMMA EffectiveStep ==
    ASSUME Granting, IInv, [Next]_vars
    PROVE  CutIsEffective
<1> SUFFICES ASSUME cur' = cur, marks' = {}, ~window[cur].exhausted, window'[cur].exhausted
             PROVE  ~online'
  BY DEF CutIsEffective
<1>0. TypeInv /\ "crossed" \notin marks
  BY Turns DEF IInv
<1>1. TypeInv /\ PassInv /\ SquadInv /\ SessionInv /\ Sound
  BY <1>0 DEF IInv, Sound
<1>2. pass.pc = "spend" /\ online' = online /\ op.pc = "idle" /\ marks = {}
  <2>1. PassSpend
    BY <1>1, Spending
  <2>2. Crossing(op)
    BY <2>1, Zenon DEF PassSpend, Save
  <2>3. op.pc = "idle" /\ marks = {}
    BY <2>2 DEF Crossing
  <2> QED BY <1>1, <2>1, <2>3, SpendMove
<1>3. Metered(plan[cur]) /\ ~squad[cur]
  BY <1>1, <1>2 DEF PassInv, SquadInv
<1>4. CutOff
  BY <1>2, <1>3 DEF CutOff
<1> QED BY <1>1, <1>2, <1>4, SessionParts

\* No traffic is counted twice, a swap or a promo code is no reset of the quota, and a user is
\* cut only for traffic of the running term, however passes, roll-overs and operations follow
\* each other (_roll_window, carry_over, reconcile_windows, get_traffic_period_start).
THEOREM CountedOnce ==
    Spec => [][WindowsMoveForward /\ SwapKeepsCounter /\ CutForItsMonths]_vars
<1>1. IInv /\ [Next]_vars => [WindowsMoveForward /\ SwapKeepsCounter /\ CutForItsMonths]_vars
  BY ForwardStep, SwapStep, CutStep
<1> QED BY Invariant, <1>1, PTL DEF Spec

\* Where every plan with a quota on the pool grants its squad, as the editor of plans sees to
\* (_prune_pool_quotas), no session of a user is left either once the window is marked spent.
THEOREM Fair ==
    ASSUME Granting
    PROVE  Spec => CountersAreFair
<1>1. IInv /\ [Next]_vars
        => [WindowsMoveForward /\ SwapKeepsCounter /\ CutForItsMonths /\ CutIsEffective]_vars
  BY ForwardStep, SwapStep, CutStep, EffectiveStep
<1> QED BY Invariant, <1>1, PTL DEF Spec, CountersAreFair

\* What CleanPassSettles says of a step.
PassSettles ==
    pass.pc # "idle" /\ pass'.pc = "idle" /\ faults' = pass.since /\ plan[cur] \in Grants
    /\ Strategy[plan[cur]] = "NO_RESET" /\ ~Upset
    => squad'[cur] = ~window'[cur].exhausted

LEMMA PassSettlesStep ==
    ASSUME IInv, [Next]_vars
    PROVE  PassSettles
<1> SUFFICES ASSUME pass.pc # "idle", pass'.pc = "idle", faults' = pass.since,
                    plan[cur] \in Grants, Strategy[plan[cur]] = "NO_RESET",
                    "killed" \notin marks, "crossed" \notin marks
             PROVE  squad'[cur] = ~window'[cur].exhausted
  BY DEF PassSettles, Upset
<1>1. /\ TypeInv /\ PassInv /\ WindowInv /\ OpInv /\ SquadInv /\ SettleInv
  BY DEF IInv, Sound
<1>2. /\ PassBase /\ PassPart /\ Metered(plan[cur]) /\ pass.win = window[cur]
  BY <1>1, PassParts DEF PassBase
<1>3. /\ pass.pc \in {"handing", "restoring", "drop", "spend"} => ~squad[cur]
      /\ pass.pc \in {"cutting", "unspend"} => squad[cur]
      /\ window[cur].exhausted /\ pass.pc # "unspend" => ~squad[cur]
  BY <1>1 DEF SquadInv
<1>4. squad[cur] \in BOOLEAN /\ window[cur].exhausted \in BOOLEAN
  BY <1>1, Fields DEF Windows
<1>5. ASSUME NEW kind, Fault(kind) PROVE FALSE
  <2>1. faults' = faults + 1
    BY <1>1, <1>5, Faulty
  <2>2. pass.since <= faults /\ faults \in Nat /\ pass.since \in Nat
    BY <1>1, <1>2, Fields, PoolsAssumption DEF PassBase, TypeInv
  <2> QED BY <2>1, <2>2
<1>6. ASSUME NEW p \in Passing, PassGoto(p) PROVE FALSE
  BY <1>1, <1>6, GotoMove
<1>7. CASE PassVerdict
  <2>1. /\ pass.win.exhausted <=> Over
        /\ \E w \in Windows :
              window' = [window EXCEPT ![cur] = w] /\ w.exhausted = pass.win.exhausted
    BY <1>1, <1>6, <1>7, VerdictMove DEF Passing
  <2>2. pass.pc = "verdict" /\ squad' = squad
    BY <1>7 DEF PassVerdict
  <2>3. window'[cur].exhausted = window[cur].exhausted
    BY <1>1, <1>2, <2>1, StoredIn
  <2>4. window[cur].exhausted => ~squad[cur]
    BY <1>3, <2>2
  <2>5. ASSUME ~window[cur].exhausted, ~squad[cur] PROVE FALSE
    <3>1. Lacks
      BY <1>2, <2>2, <2>5 DEF Lacks
    <3>2. Over
      BY <1>1, <2>2, <3>1, SettleParts DEF Settled
    <3> QED BY <1>2, <2>1, <2>5, <3>2
  <2>6. squad[cur] = ~window[cur].exhausted
    BY <1>4, <2>4, <2>5
  <2> QED BY <1>1, <2>2, <2>3, <2>6
<1>8. CASE PassRestore
  <2>1. pass.pc = "restore" /\ ~Restorable(cur)
    BY <1>1, <1>5, <1>6, <1>8, RestoreMove DEF Passing
  <2>2. squad[cur]
    BY <1>4, <2>1 DEF Restorable
  <2>3. window[cur].exhausted
    BY <1>2, <2>1 DEF PassPart
  <2> QED BY <1>3, <2>1, <2>2, <2>3
<1>9. CASE PassUnspend
  <2>1. pass.pc = "unspend" /\ squad' = squad /\ ~window'[cur].exhausted
    BY <1>1, <1>9, UnspendMove, StoredIn
  <2>2. squad[cur]
    BY <1>3, <2>1
  <2>3. window'[cur].exhausted \in BOOLEAN /\ cur' = cur
    BY <1>1, <1>9, PassTypesStep, PassSteady DEF PassTypes, PassStep, Steady, TypeInv, Windows
  <2>4. squad'[cur] = TRUE /\ window'[cur].exhausted = FALSE
    BY <1>4, <2>1, <2>2, <2>3
  <2> QED BY <2>4
<1>10. CASE PassSpend
  <2>1. pass.pc = "spend" /\ squad' = squad /\ window'[cur].exhausted
    BY <1>1, <1>10, SpendMove, StoredIn
  <2>2. ~squad[cur]
    BY <1>3, <2>1
  <2>3. window'[cur].exhausted \in BOOLEAN /\ cur' = cur
    BY <1>1, <1>10, PassTypesStep, PassSteady DEF PassTypes, PassStep, Steady, TypeInv, Windows
  <2>4. squad'[cur] = FALSE /\ window'[cur].exhausted = TRUE
    BY <1>4, <2>1, <2>2, <2>3
  <2> QED BY <2>4
<1>11. ~PassTargets
  BY <1>1, TargetsMove
<1>12. ~PassQuery
  BY <1>1, <1>5, QueryMove
<1>13. ~PassRoll
  BY <1>1, RollMove
<1>14. ~PassRestored /\ ~PassWithdrawn
  BY <1>1, <1>6, RestoredMove, WithdrawnMove DEF Passing
<1>15. ~PassCut /\ ~PassDrop /\ ~PassCrash
  BY <1>1, <1>5, <1>6, CutMove, DropMove, PassCrashMove DEF Passing
<1>16. ~UNCHANGED vars
  BY DEF vars
<1>17. ~Tick /\ ~Connect /\ ~Spend
  BY DEF Tick, Connect, Spend
<1>18. ~OpPanel /\ ~OpCommit /\ ~OpCrash /\ \A kind \in Kinds, p \in Sold : ~OpRead(kind, p)
  BY DEF OpPanel, OpCommit, OpCrash, OpRead
<1> QED
  BY <1>7, <1>8, <1>9, <1>10, <1>11, <1>12, <1>13, <1>14, <1>15, <1>16, <1>17, <1>18, Cases,
     Zenon
  DEF PassStep

\* A pass that ends with no fault leaves a user metered by the term with the squad exactly when
\* the window is not spent: what refused calls kept earlier passes from doing is made up for
\* (_apply_verdict, _restore_access, _cut_access).
THEOREM PassesSettle == Spec => CleanPassSettles
<1>1. IInv /\ [Next]_vars => [PassSettles]_vars
  BY PassSettlesStep
<1>2. Spec => [][PassSettles]_vars
  BY Invariant, <1>1, PTL DEF Spec
<1> QED BY <1>2 DEF CleanPassSettles, PassSettles

=============================================================================
