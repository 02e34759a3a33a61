---------------------------- MODULE TrafficPools ----------------------------
(***************************************************************************)
(* Metered quotas on a premium squad of the panel.  The panel cannot limit *)
(* traffic per squad, so every fifteen minutes a metering pass reads the   *)
(* traffic of the users whose plan meters the pool and takes the squad off *)
(* those who spent their quota; renewals, plan changes, grants and promo   *)
(* codes rewrite the squads and the accounting window at the same time.    *)
(*                                                                         *)
(* One pool and one user: a pass treats its targets one after the other,   *)
(* and what the others add is time, which the interleavings already give.  *)
(* The subscription is running.  One transaction, one group of reads, or   *)
(* one call of the panel is one action.                                    *)
(*                                                                         *)
(* Every window opens on the 1st of a month, so time counts months.  at[m] *)
(* is what the user had spent on the pool when month m began.              *)
(***************************************************************************)
EXTENDS Integers

CONSTANTS
    Plans,      \* plan snapshots, as a subscription freezes them
    Held,       \* those the user may hold at first
    Sold,       \* those a purchase, grant or promo code may assign
    Quota,      \* quota of the pool under each plan, 0 where it is not metered
    Strategy,   \* "NO_RESET" or "MONTH"
    Grants,     \* plans that grant the squad of the pool
    MaxRows,    \* bound: rows of subscriptions, numbered as they are inserted
    None,       \* no row
    Faults,     \* faults that may occur
    MaxFaults,  \* bound on how many
    MaxOps,     \* bound on operations
    MaxMonth,   \* bound on the calendar
    MaxUse      \* bound on traffic

Months == 1 .. MaxMonth
Rows   == 1 .. MaxRows
Kinds  == {"RENEW", "CHANGE", "GRANT", "PROMO"}

ASSUME PoolsAssumption ==
    /\ None \notin Rows /\ None \notin Plans
    /\ Held \cup Sold \subseteq Plans
    /\ Grants \subseteq Plans
    /\ Quota \in [Plans -> Nat]
    /\ Strategy \in [Plans -> {"NO_RESET", "MONTH"}]
    /\ Faults \subseteq {"update", "drop", "query", "crash"}
    /\ {MaxFaults, MaxOps, MaxUse} \subseteq Nat
    /\ {MaxRows, MaxMonth} \subseteq Nat \ {0}

VARIABLES
    month,    \* the current month
    total,    \* traffic of the user on the pool, as the panel counts it
    at,       \* total at the beginning of each month
    online,   \* a session through a premium node is established
    plan,     \* plan_snapshot of each row, None where there is no row
    made,     \* month each row was created
    squad,    \* whether internal_squads of each row holds the squad
    window,   \* subscription_pool_usage of each row
    cur,      \* users.current_subscription_id
    panel,    \* the plan and the squad the panel has for the user
    pass,     \* program counter and locals of the metering pass
    op,       \* program counter and locals of the operation in flight
    ops,      \* operations begun
    faults,   \* faults so far
    term,     \* history: month when the running term was bought, and
              \* whether a promo code since then put the row on the pool
    marks     \* history: "killed" once a process was killed, "undropped" once the
              \* panel refused to drop the sessions of a user who was cut, "crossed"
              \* once a pass wrote during an operation or an operation during a pass

vars  == <<month, total, at, online, plan, made, squad, window, cur, panel, pass, op,
           ops, faults, term, marks>>
usage == <<month, total, at>>
rows  == <<plan, made, cur>>
hist  == <<term, marks>>

-----------------------------------------------------------------------------

NoWindow == [open |-> FALSE, start |-> 1, exhausted |-> FALSE, warned |-> FALSE]
Fresh(m) == [open |-> TRUE, start |-> m, exhausted |-> FALSE, warned |-> FALSE]
NoPass   == [pc |-> "idle", row |-> None, plan |-> None, win |-> NoWindow, now |-> 1,
             used |-> 0, since |-> 0]
NoOp     == [pc |-> "idle", kind |-> "RENEW", row |-> None, plan |-> None,
             squad |-> FALSE, seen |-> FALSE]

Metered(p) == Quota[p] > 0

Init ==
    /\ month = 1 /\ total = 0 /\ at = [m \in Months |-> 0] /\ online = FALSE
    /\ cur = 1
    /\ \E p \in Held :
        /\ plan = [s \in Rows |-> IF s = 1 THEN p ELSE None]
        /\ squad = [s \in Rows |-> s = 1 /\ p \in Grants]
        /\ panel = [plan |-> p, squad |-> p \in Grants]
    /\ made = [s \in Rows |-> 1]
    /\ window = [s \in Rows |-> NoWindow]
    /\ pass = NoPass /\ op = NoOp
    /\ ops = 0 /\ faults = 0
    /\ term = [month |-> 1, seeded |-> FALSE] /\ marks = {}

\* One more fault of a kind that may occur.
Fault(kind) ==
    /\ kind \in Faults /\ faults < MaxFaults
    /\ faults' = faults + 1

\* A write while the other one is between its reads and its last write.
Crossing(other) ==
    marks' = IF other.pc = "idle" THEN marks ELSE marks \cup {"crossed"}

-----------------------------------------------------------------------------
(* The calendar and the user.  A session outlives the squad: it goes on     *)
(* until the client reconnects or the panel drops it.                       *)

Tick ==
    /\ month < MaxMonth
    /\ month' = month + 1
    /\ at' = [at EXCEPT ![month + 1] = total]
    /\ UNCHANGED <<total, online, rows, squad, window, panel, pass, op, ops, faults, hist>>

Connect ==
    /\ \/ ~online /\ panel.squad /\ online' = TRUE
       \/ online /\ online' = FALSE
    /\ UNCHANGED <<usage, rows, squad, window, panel, pass, op, ops, faults, hist>>

Spend ==
    /\ online /\ total < MaxUse
    /\ total' = total + 1
    /\ UNCHANGED <<month, at, online, rows, squad, window, panel, pass, op, ops, faults, hist>>

-----------------------------------------------------------------------------
(* What a transaction in flight makes another one wait for.                 *)

\* CHANGE retires the row before it calls the panel, the pass updates it before.
RowHeldByOp(r) == op.pc = "commit" /\ op.kind = "CHANGE" /\ op.row = r
RowHeldByPass  == pass.pc \in {"handing", "restoring", "cutting"} /\ pass.row = op.row

\* What reconcile_windows leaves of the window of a subscription.
Reconciled(w, p, newTerm) ==
    IF ~Metered(p) THEN NoWindow ELSE IF newTerm THEN Fresh(month) ELSE w

\* A swap and a promo code do not buy a term.
NewTerm(kind) == kind \in {"RENEW", "GRANT"}

\* RENEW and PROMO reconcile the window before they call the panel.
WindowHeldByOp(r) ==
    /\ op.pc = "commit" /\ op.kind \in {"RENEW", "PROMO"} /\ op.row = r
    /\ Reconciled(window[r], op.plan, NewTerm(op.kind)) # window[r]

-----------------------------------------------------------------------------
(* The metering pass.                                                       *)

PassGoto(pc) == pass' = [pass EXCEPT !.pc = pc]
PassEnd      == pass' = NoPass

\* upsert_usage in a transaction of its own.
Save(w) ==
    /\ ~WindowHeldByOp(pass.row)
    /\ window' = [window EXCEPT ![pass.row] = w]
    /\ Crossing(op)

\* Mutation of Targets: plans that do not meter the pool are metered too.
TargetsAny(p) == TRUE

\* get_metering_targets: the current row, when its snapshot meters the pool.
Targets(p) == Metered(p)

\* get_traffic_period_start anchored on period_anchor, by month.
PeriodStart(p, w, r, now) ==
    IF Strategy[p] = "MONTH" THEN now ELSE IF w.open THEN w.start ELSE made[r]

WarnFloor(quota) == IF (quota * 8) \div 10 > 1 THEN (quota * 8) \div 10 ELSE 1

PassTargets ==
    /\ pass.pc = "idle"
    /\ Targets(plan[cur])
    /\ pass' = [pc |-> "query", row |-> cur, plan |-> plan[cur], win |-> window[cur],
                now |-> month, used |-> 0, since |-> faults]
    /\ UNCHANGED <<usage, online, rows, squad, window, panel, op, ops, faults, hist>>

\* A reading below the floor is not returned: used is None, here 0.  A page that
\* cannot be read abandons the pool.
PassQuery ==
    /\ pass.pc = "query"
    /\ LET used == total - at[PeriodStart(pass.plan, pass.win, pass.row, pass.now)]
       IN \/ /\ pass' = [pass EXCEPT !.pc = "roll",
                             !.used = IF used >= WarnFloor(Quota[pass.plan]) THEN used ELSE 0]
             /\ UNCHANGED faults
          \/ Fault("query") /\ PassEnd
    /\ UNCHANGED <<usage, online, rows, squad, window, panel, op, ops, hist>>

PassRoll ==
    /\ pass.pc = "roll"
    /\ LET start == PeriodStart(pass.plan, pass.win, pass.row, pass.now)
       IN IF pass.win.open /\ pass.win.start = start
          THEN PassGoto("verdict") /\ UNCHANGED <<window, marks>>
          ELSE /\ Save(Fresh(start))
               /\ pass' = [pass EXCEPT !.win = Fresh(start),
                               !.pc = IF pass.win.open /\ pass.win.exhausted
                                      THEN "handback" ELSE "verdict"]
    /\ UNCHANGED <<usage, online, rows, squad, panel, op, ops, faults, term>>

\* Mutation of Over: exactly the quota is not over it.
OverLate == pass.used > Quota[pass.plan]

Over == pass.used > 0 /\ pass.used >= Quota[pass.plan]

\* Nothing to cut or to hand back: the heartbeat, and the warning once.
Heartbeat ==
    /\ pass.win.exhausted = Over
    /\ Save([pass.win EXCEPT !.warned = @ \/ (pass.used > 0 /\ ~Over)])
    /\ PassEnd

PassVerdict ==
    /\ pass.pc = "verdict"
    /\ \/ Heartbeat
       \/ pass.win.exhausted /\ ~Over /\ PassGoto("restore") /\ UNCHANGED <<window, marks>>
       \/ ~pass.win.exhausted /\ Over /\ PassGoto("cut") /\ UNCHANGED <<window, marks>>
    /\ UNCHANGED <<usage, online, rows, squad, panel, op, ops, faults, term>>

\* Mutation of Push: the squads of the plan are pushed.
PushPlan(r, held) ==
    /\ ~RowHeldByOp(r)
    /\ panel' = [plan |-> plan[r], squad |-> plan[r] \in Grants]
    /\ Crossing(op)

\* remnawave.update_user with the row as read: the panel takes all of it.
Push(r, held) ==
    /\ ~RowHeldByOp(r)
    /\ panel' = [plan |-> plan[r], squad |-> held]
    /\ Crossing(op)

\* Mutation of Restorable: the row is asked the wrong way round.
RestorableHeld(r) == plan[r] \in Grants /\ squad[r]

\* _restore_access hands back what the snapshot grants and the row lacks.
Restorable(r) == plan[r] \in Grants /\ ~squad[r]

\* After a roll nothing depends on whether the squad came back; after a verdict
\* a squad that did not come back leaves the window as it was.
NotRestored == IF pass.pc = "handback" THEN PassGoto("verdict") ELSE PassEnd

PassRestore ==
    /\ pass.pc \in {"handback", "restore"}
    /\ \/ ~Restorable(pass.row) /\ NotRestored /\ UNCHANGED <<panel, faults, marks>>
       \/ /\ Restorable(pass.row) /\ Fault("update") /\ NotRestored
          /\ UNCHANGED <<panel, marks>>
       \/ /\ Restorable(pass.row) /\ Push(pass.row, TRUE)
          /\ PassGoto(IF pass.pc = "handback" THEN "handing" ELSE "restoring")
          /\ UNCHANGED faults
    /\ UNCHANGED <<usage, online, rows, squad, window, op, ops, term>>

PassRestored ==
    /\ pass.pc \in {"handing", "restoring"}
    /\ squad' = [squad EXCEPT ![pass.row] = TRUE]
    /\ PassGoto(IF pass.pc = "handing" THEN "verdict" ELSE "unspend") /\ Crossing(op)
    /\ UNCHANGED <<usage, online, rows, window, panel, op, ops, faults, term>>

PassUnspend ==
    /\ pass.pc = "unspend"
    /\ Save([pass.win EXCEPT !.exhausted = FALSE, !.warned = FALSE])
    /\ PassEnd
    /\ UNCHANGED <<usage, online, rows, squad, panel, op, ops, faults, term>>

\* Mutation of NotCut: a cut that never happened is recorded.
NotCutButSaved == PassGoto("spend")

NotCut == PassEnd

\* _cut_access: a squad that is not there counts as withdrawn.
PassCut ==
    /\ pass.pc = "cut"
    /\ \/ ~squad[pass.row] /\ PassGoto("spend") /\ UNCHANGED <<panel, faults, marks>>
       \/ squad[pass.row] /\ Fault("update") /\ NotCut /\ UNCHANGED <<panel, marks>>
       \/ squad[pass.row] /\ Push(pass.row, FALSE) /\ PassGoto("cutting") /\ UNCHANGED faults
    /\ UNCHANGED <<usage, online, rows, squad, window, op, ops, term>>

PassWithdrawn ==
    /\ pass.pc = "cutting"
    /\ squad' = [squad EXCEPT ![pass.row] = FALSE]
    /\ PassGoto("drop") /\ Crossing(op)
    /\ UNCHANGED <<usage, online, rows, window, panel, op, ops, faults, term>>

\* Mutation of Dropped: the session is left alone.
DroppedLater == online

Dropped == FALSE

PassDrop ==
    /\ pass.pc = "drop"
    /\ \/ online' = Dropped /\ PassGoto("spend") /\ UNCHANGED <<faults, marks>>
       \/ /\ Fault("drop") /\ PassEnd /\ UNCHANGED online
          /\ marks' = marks \cup {"undropped"}
    /\ UNCHANGED <<usage, rows, squad, window, panel, op, ops, term>>

PassSpend ==
    /\ pass.pc = "spend"
    /\ Save([pass.win EXCEPT !.exhausted = TRUE])
    /\ PassEnd
    /\ UNCHANGED <<usage, online, rows, squad, panel, op, ops, faults, term>>

\* The worker stops: what was not committed is lost.
PassCrash ==
    /\ pass.pc # "idle" /\ Fault("crash") /\ PassEnd /\ marks' = marks \cup {"killed"}
    /\ UNCHANGED <<usage, online, rows, squad, window, panel, op, ops, term>>

PassStep ==
    \/ PassTargets \/ PassQuery \/ PassRoll \/ PassVerdict
    \/ PassRestore \/ PassRestored \/ PassUnspend
    \/ PassCut \/ PassWithdrawn \/ PassDrop \/ PassSpend

-----------------------------------------------------------------------------
(* The operations that assign a plan: PurchaseSubscription (RENEW, CHANGE), *)
(* PayWithBalance (as RENEW), SetUserSubscription (GRANT), and a promo code *)
(* whose reward is a subscription (PROMO).                                  *)

\* Mutation of Effective: a spent pool is not withheld.
EffectiveAll(p, kind) == p \in Grants

\* effective_squads: a spent pool stays withheld unless a term is bought or the
\* new plan does not meter it.
Effective(p, kind) ==
    p \in Grants /\ (NewTerm(kind) \/ ~Metered(p) \/ ~window[cur].exhausted)

OpRead(kind, p) ==
    /\ op.pc = "idle" /\ ops < MaxOps
    /\ kind \in {"CHANGE", "GRANT"} => cur < MaxRows
    /\ op' = [pc |-> "panel", kind |-> kind, row |-> cur, plan |-> p,
              squad |-> Effective(p, kind), seen |-> squad[cur]]
    /\ ops' = ops + 1
    /\ UNCHANGED <<usage, online, rows, squad, window, panel, pass, faults, hist>>

OpPanel ==
    /\ op.pc = "panel"
    /\ op.kind = "CHANGE" => ~RowHeldByPass
    /\ \/ op' = NoOp /\ UNCHANGED <<panel, marks>>        \* refused
       \/ /\ panel' = [plan |-> op.plan, squad |-> op.squad]
          /\ op' = [op EXCEPT !.pc = "commit"]
          /\ Crossing(pass)
    /\ UNCHANGED <<usage, online, rows, squad, window, pass, ops, faults, term>>

\* Only attributes that differ from what was read are written.
Written == IF op.squad = op.seen THEN squad[op.row] ELSE op.squad

\* Mutations of Renewed: no fresh window, one anchored on the row;
\* of Replaced: the window is not carried over.
RenewedKept == Reconciled(window[op.row], op.plan, FALSE)
RenewedBack == IF Metered(op.plan) THEN Fresh(made[op.row]) ELSE NoWindow
ReplacedFresh(r) == [window EXCEPT ![op.row] = NoWindow]

Renewed == Reconciled(window[op.row], op.plan, NewTerm(op.kind))

\* carry_over and then reconcile_windows.
Replaced(r) ==
    [window EXCEPT ![op.row] = NoWindow,
                   ![r] = Reconciled(window[op.row], op.plan, NewTerm(op.kind))]

\* RENEW and PROMO update the row.
OpUpdate ==
    /\ op.kind \in {"RENEW", "PROMO"}
    /\ plan' = [plan EXCEPT ![op.row] = op.plan]
    /\ squad' = [squad EXCEPT ![op.row] = Written]
    /\ window' = [window EXCEPT ![op.row] = Renewed]
    /\ UNCHANGED <<made, cur>>

\* CHANGE and GRANT retire it and insert another.
OpReplace ==
    /\ op.kind \in {"CHANGE", "GRANT"}
    /\ LET r == cur + 1 IN
        /\ plan' = [plan EXCEPT ![r] = op.plan]
        /\ squad' = [squad EXCEPT ![r] = op.squad]
        /\ made' = [made EXCEPT ![r] = month]
        /\ window' = Replaced(r)
        /\ cur' = r

OpCommit ==
    /\ op.pc = "commit" /\ ~RowHeldByPass
    /\ OpUpdate \/ OpReplace
    /\ op' = NoOp /\ Crossing(pass)
    /\ term' = IF NewTerm(op.kind) THEN [month |-> month, seeded |-> FALSE]
               ELSE [term EXCEPT !.seeded = @ \/ (op.kind = "PROMO" /\ ~window[op.row].open)]
    /\ UNCHANGED <<usage, online, panel, pass, ops, faults>>

OpCrash ==
    /\ op.pc # "idle" /\ Fault("crash") /\ op' = NoOp /\ marks' = marks \cup {"killed"}
    /\ UNCHANGED <<usage, online, rows, squad, window, panel, pass, ops, term>>

OpStep == OpPanel \/ OpCommit

Next ==
    \/ Tick \/ Connect \/ Spend
    \/ PassStep \/ PassCrash
    \/ \E kind \in Kinds, p \in Sold : OpRead(kind, p)
    \/ OpStep \/ OpCrash

Spec == Init /\ [][Next]_vars

\* The scheduler starts a pass every fifteen minutes, and a step begun ends.
Fairness == WF_vars(PassStep) /\ WF_vars(OpStep)
FairSpec == Spec /\ Fairness

-----------------------------------------------------------------------------
(* Properties.                                                              *)

Windows == [open : BOOLEAN, start : Months, exhausted : BOOLEAN, warned : BOOLEAN]

\* Every variable keeps its type, and the window a pass or an operation works on
\* is one of a row that exists (the columns of subscription_pool_usage).
TypeOK ==
    /\ month \in Months /\ total \in Nat /\ at \in [Months -> Nat] /\ online \in BOOLEAN
    /\ plan \in [Rows -> Plans \cup {None}] /\ cur \in Rows /\ plan[cur] # None
    /\ made \in [Rows -> Months] /\ squad \in [Rows -> BOOLEAN]
    /\ window \in [Rows -> Windows]
    /\ panel \in [plan : Plans, squad : BOOLEAN]
    /\ pass = NoPass \/ (pass.row \in Rows /\ plan[pass.row] # None /\ Metered(pass.plan))
    /\ op = NoOp \/ (op.row = cur /\ op.plan \in Sold)
    /\ ops \in 0 .. MaxOps /\ faults \in 0 .. MaxFaults
    /\ term \in [month : Months, seeded : BOOLEAN]
    /\ marks \subseteq {"killed", "undropped", "crossed"}

\* What the row, the window and the panel cannot be held to: a process killed between
\* two commits, and a pass and an operation of which one wrote during the other.
Upset == marks \cap {"killed", "crossed"} # {}

AtRest == pass.pc = "idle" /\ op.pc = "idle" /\ ~Upset

\* Whatever the sequence of passes, refused calls, renewals, swaps, grants and
\* promo codes, begun and refused during each other too, a pool whose window is spent
\* is withheld, in the row and on the panel, unless a process was killed or one wrote
\* during the other (_apply_verdict, effective_squads).
SpentIsWithheld == AtRest /\ window[cur].exhausted => ~squad[cur] /\ ~panel.squad

\* The panel has the plan and the squad of the current row: a pass that pushes the
\* row it works on, or an operation that is refused, leaves no other plan behind.
PanelMatchesRow == AtRest => panel = [plan |-> plan[cur], squad |-> squad[cur]]

\* The window of a row never reopens further back: neither a pass nor an operation
\* counts again what an earlier window counted, until one wrote during the other
\* (_roll_window, reconcile_windows).
WindowsMoveForward ==
    "crossed" \notin marks =>
    \A r \in Rows : window[r].open /\ window'[r].open => window'[r].start >= window[r].start

\* A pass that ends with no fault leaves a user metered by the term with the squad
\* exactly when the window is not spent: whatever refused calls kept earlier passes
\* from doing is made up for.
CleanPassSettles ==
    [][pass.pc # "idle" /\ pass'.pc = "idle" /\ faults' = pass.since /\ plan[cur] \in Grants
       /\ Strategy[plan[cur]] = "NO_RESET" /\ ~Upset
       => squad'[cur] = ~window'[cur].exhausted]_vars

\* When a window is marked spent, no session of the user is left on the premium
\* nodes (_cut_access drops the connections after the squad is gone).  It holds
\* while no process is killed, none wrote during the other and the panel never
\* refuses to drop them: a pass that is refused has committed the row, so no later
\* one drops them either.
CutIsEffective ==
    cur' = cur /\ marks' = {} /\ ~window[cur].exhausted /\ window'[cur].exhausted => ~online'

\* A plan change or a promo code onto a plan that meters the pool is no reset: the
\* window keeps its start and its verdict, and a spent pool is not handed back.
SwapKeepsCounter ==
    OpCommit /\ "crossed" \notin marks
    /\ ~NewTerm(op.kind) /\ Metered(op.plan) /\ window[cur].open
      => /\ window'[cur'] = window[cur]
         /\ window[cur].exhausted => ~squad'[cur']

\* A user is cut only for traffic of the months of the running term
\* (get_traffic_period_start, which snaps the start of a window to the 1st).  The
\* exception is the month of the purchase: it counts whole, so what the user spent
\* in it before a renewal is metered again.  RenewalStartsOver below is what the
\* repository says instead, and a run shows that it does not hold.  A promo code that
\* puts a row on the pool counts from the month of the row.
CutForItsMonths ==
    ~window[cur].exhausted /\ window'[cur].exhausted /\ ~term.seeded
    /\ "crossed" \notin marks
      => total - at[term.month] >= Quota[plan[cur]]

SpentNow ==
    /\ Metered(plan[cur])
    /\ total - at[PeriodStart(plan[cur], window[cur], cur, month)] >= Quota[plan[cur]]

Owed ==
    Metered(plan[cur]) /\ plan[cur] \in Grants /\ Strategy[plan[cur]] = "NO_RESET" /\ ~SpentNow

\* A user over the quota loses the squad on the panel, unless a term or a bigger
\* quota is bought first.
OverIsCut == SpentNow ~> (~panel.squad \/ ~SpentNow \/ Upset)

\* A user under the quota of a plan that grants the pool has the squad, or gets it.
UnderIsRestored == Owed ~> (panel.squad \/ ~Owed \/ Upset)

\* A purchase of a term starts the quota over: nothing the user spent before counts
\* (core/utils/time.py:117-119, "a renewal, where the quota is meant to start over
\* anyway").  It fails: the new window opens on the 1st of the month, and a pool spent
\* in that month is found spent again by the next pass.
RenewalStartsOver ==
    [][OpCommit /\ "crossed" \notin marks /\ NewTerm(op.kind) /\ Metered(op.plan)
       => ~SpentNow']_vars

\* What TLC checks of the above.  At rest the squads of the row and of the panel are
\* those the window's verdict and the row say, however passes, operations and refused
\* calls follow each other.
SquadFollowsVerdict == TypeOK /\ SpentIsWithheld /\ PanelMatchesRow

\* A step of the pass or of an operation counts traffic once, for the running term, and
\* cuts with effect.
CountersAreFair ==
    [][WindowsMoveForward /\ SwapKeepsCounter /\ CutForItsMonths /\ CutIsEffective]_vars

\* The traffic decides in the end who has the squad, although the panel refuses calls.
QuotaDecides == OverIsCut /\ UnderIsRestored

=============================================================================
