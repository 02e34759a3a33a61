------------------------------ MODULE Payments ------------------------------
(***************************************************************************)
(* The paid path of the shop: an invoice is created, the payment provider  *)
(* (PSP) reports what became of it by webhooks that are duplicated and     *)
(* reordered, a task worker moves the transaction's status and provisions  *)
(* the subscription on the panel and in the database.                      *)
(*                                                                         *)
(* A worker is any execution of ProcessPayment: a taskiq worker handling a *)
(* queued webhook, or a request that confirms a free checkout in place.    *)
(* One database transaction, and one call of the panel, is one action.     *)
(*                                                                         *)
(* Time is measured in plan durations: every plan lasts Term, Now is the   *)
(* present, an expiry of 0 has passed.  One plan and one gateway stand for *)
(* all: only "same plan, same gateway" matters to get_recent_pending.      *)
(***************************************************************************)
EXTENDS Integers, FiniteSets

CONSTANTS
    Users,        \* customers
    Payments,     \* payment ids
    Workers,      \* concurrent executions of ProcessPayment
    None,         \* NULL in a column, "no payment" in a worker
    Offers,       \* the purchases customers make: see Offer
    Held,         \* the subscriptions they may have at first: see RowType
    MaxCrashes    \* bound: processes killed in the whole behaviour

Now  == 1
Term == 1

\* A subscription row is named after the payment that created it; the row a
\* user may already have is named after the user.
Rows == Users \cup Payments

Statuses  == {"NONE", "PENDING", "COMPLETED", "FAILED", "CANCELED", "REFUNDED"}
Types     == {"NEW", "RENEW", "CHANGE"}
Ages      == {"recent", "old"}  \* below 15 minutes, above 30
Outcomes  == {"none", "open", "captured", "voided", "refunded"}
Steps     == {"idle", "completed", "purchase", "panel", "commit", "failed", "reward"}
Reports   == {"COMPLETED", "CANCELED", "REFUNDED"}

\* A purchase: its type, and whether it is a trial plan, free, or a gateway test.
Offer == [type : Types, trial : BOOLEAN, priced : BOOLEAN, test : BOOLEAN]
RowType == [live : BOOLEAN, expire : Nat, trial : BOOLEAN]

ASSUME PaymentsAssumption ==
    /\ None \notin Users \cup Payments
    /\ Users \cap Payments = {}
    /\ Offers \subseteq Offer
    /\ \A o \in Offers : o.trial \/ o.test => o.type = "NEW" /\ o.priced
    /\ Held \subseteq RowType
    /\ \A h \in Held : h.live
    /\ MaxCrashes \in Nat

VARIABLES
    tx,          \* transactions table: payment id -> row
    gateway,     \* the PSP's own state of each payment
    offered,     \* payments the UI may confirm without a PSP (free checkouts)
    rows,        \* subscriptions table
    current,     \* users.current_subscription_id
    panel,       \* what the Remnawave panel holds for each user
    worker,      \* program counter and locals of each worker
    commission,  \* payment ids with a row in referral_events
    grants,      \* history: purchases committed per payment
    crashes,     \* history: crashes so far
    raced        \* history: users of whom one purchase wrote over what another
                 \* under way had written, or had read and not yet written

vars == <<tx, gateway, offered, rows, current, panel, worker, commission, grants, crashes, raced>>

-----------------------------------------------------------------------------

NoTx    == [status |-> "NONE", user |-> None, type |-> "NEW", age |-> "recent",
            priced |-> FALSE, trial |-> FALSE, test |-> FALSE]
NoRow   == [live |-> FALSE, expire |-> 0, trial |-> FALSE]
NoSub   == [row |-> None, expire |-> 0, trial |-> FALSE]
Idle    == [step |-> "idle", pay |-> None, seen |-> NoSub, target |-> 0]

Init ==
    /\ tx = [p \in Payments |-> NoTx]
    /\ gateway = [p \in Payments |-> "none"]
    /\ offered = {}
    /\ \E old \in [Users -> {NoRow} \cup Held] :
          /\ rows = [r \in Rows |-> IF r \in Users THEN old[r] ELSE NoRow]
          /\ current = [u \in Users |-> IF old[u].live THEN u ELSE None]
          /\ panel = [u \in Users |-> [exists |-> old[u].live, expire |-> old[u].expire]]
    /\ worker = [w \in Workers |-> Idle]
    /\ commission = {}
    /\ grants = [p \in Payments |-> 0]
    /\ crashes = 0
    /\ raced = {}

-----------------------------------------------------------------------------
(* Invoices: CreatePayment, CreateTestPayment, CancelOldTransactions.       *)

Unused(p) == tx[p].status = "NONE" /\ gateway[p] = "none"

\* RENEW and CHANGE are offered to a user with a subscription only.
Orderable(u, type) == type = "NEW" \/ current[u] # None

NewTx(u, o) ==
    [status |-> "PENDING", user |-> u, type |-> o.type, age |-> "recent",
     priced |-> o.priced, trial |-> o.trial, test |-> o.test]

\* Paid branch, and an operator's test of a gateway: the invoice is created at
\* the PSP, then the row is committed.
CreatePaid(p, u, o) ==
    /\ o.priced
    /\ Unused(p) /\ Orderable(u, o.type)
    /\ gateway' = [gateway EXCEPT ![p] = "open"]
    /\ tx' = [tx EXCEPT ![p] = NewTx(u, o)]
    /\ UNCHANGED <<offered, rows, current, panel, worker, commission, grants, crashes, raced>>

\* A crash after the PSP accepted the invoice and before the row is committed.
LoseInvoice(p) ==
    /\ Unused(p)
    /\ crashes < MaxCrashes
    /\ gateway' = [gateway EXCEPT ![p] = "open"]
    /\ crashes' = crashes + 1
    /\ UNCHANGED <<tx, offered, rows, current, panel, worker, commission, grants, raced>>

\* get_recent_pending does not look at the price, the type or the offer.
RecentPending(u) ==
    {p \in Payments : /\ tx[p].user = u
                      /\ tx[p].status = "PENDING"
                      /\ tx[p].age = "recent"
                      /\ ~tx[p].test}

\* Free branch: a recent pending transaction is reused, whatever its price.
CreateFree(u, o) ==
    /\ ~o.priced
    /\ Orderable(u, o.type)
    /\ \/ \E p \in RecentPending(u) :
             /\ offered' = offered \cup {p}
             /\ tx' = tx
       \/ /\ RecentPending(u) = {}
          /\ \E p \in Payments :
                /\ Unused(p)
                /\ tx' = [tx EXCEPT ![p] = NewTx(u, o)]
                /\ offered' = offered \cup {p}
    /\ UNCHANGED <<gateway, rows, current, panel, worker, commission, grants, crashes, raced>>

GrowOld(p) ==
    /\ tx[p].status = "PENDING" /\ tx[p].age = "recent"
    /\ tx' = [tx EXCEPT ![p].age = "old"]
    /\ UNCHANGED <<gateway, offered, rows, current, panel, worker, commission, grants, crashes, raced>>

\* Mutation of CanceledByAge: the status is not looked at.
CancelsAnyOld(t) == IF t.age = "old" THEN [t EXCEPT !.status = "CANCELED"] ELSE t

CanceledByAge(t) == IF t.status = "PENDING" /\ t.age = "old"
                    THEN [t EXCEPT !.status = "CANCELED"] ELSE t

\* The half-hourly job; it fires only when there is something to cancel.
CancelOldTransactions ==
    /\ \E p \in Payments : CanceledByAge(tx[p]) # tx[p]
    /\ tx' = [p \in Payments |-> CanceledByAge(tx[p])]
    /\ UNCHANGED <<gateway, offered, rows, current, panel, worker, commission, grants, crashes, raced>>

-----------------------------------------------------------------------------
(* The PSP (outside src) and the webhook endpoint.                          *)

Settle(p) ==
    /\ \/ gateway[p] = "open" /\ gateway' = [gateway EXCEPT ![p] = "captured"]
       \/ gateway[p] = "open" /\ gateway' = [gateway EXCEPT ![p] = "voided"]
       \/ gateway[p] = "captured" /\ gateway' = [gateway EXCEPT ![p] = "refunded"]
    /\ UNCHANGED <<tx, offered, rows, current, panel, worker, commission, grants, crashes, raced>>

\* What the PSP may have said of a payment by now.  The webhook endpoint turns
\* a report into a task of the stream; a report may be repeated, the stream
\* delivers again what a dead worker had taken, and nothing keeps an order, so
\* the stream holds, at any time, any of the reports made so far.  A refund is
\* reported as CANCELED when the shop's owner pays with Stars.
Reportable(p) == CASE gateway[p] = "captured" -> {"COMPLETED"}
                   [] gateway[p] = "voided"   -> {"CANCELED"}
                   [] gateway[p] = "refunded" -> Reports
                   [] OTHER                   -> {}

-----------------------------------------------------------------------------
(* ProcessPayment._execute: one conditional UPDATE decides.                 *)

\* Mutation of AllowedFrom: a repeated COMPLETED is accepted.
AllowedAgain(to) == CASE to = "CANCELED"  -> {"PENDING"}
                      [] to = "COMPLETED" -> {"PENDING", "FAILED", "COMPLETED"}
                      [] to = "REFUNDED"  -> {"COMPLETED"}

AllowedFrom(to) == CASE to = "CANCELED"  -> {"PENDING"}
                     [] to = "COMPLETED" -> {"PENDING", "FAILED"}
                     [] to = "REFUNDED"  -> {"COMPLETED"}

\* Mutation of TransitionStatus: the UPDATE has no condition.
TransitionAlways(p, to) == tx' = [tx EXCEPT ![p].status = to]

TransitionStatus(p, to) ==
    tx' = IF tx[p].status \in AllowedFrom(to) THEN [tx EXCEPT ![p].status = to] ELSE tx

\* Only a transaction that was moved to COMPLETED is provisioned; every other
\* report is finished, and acknowledged, with the status change.
ProcessPayment(w, p, to) ==
    /\ worker[w].step = "idle"
    /\ TransitionStatus(p, to)
    /\ worker' = IF to = "COMPLETED" /\ tx[p].status \in AllowedFrom(to)
                 THEN [worker EXCEPT ![w] = [Idle EXCEPT !.step = "completed", !.pay = p]]
                 ELSE worker
    /\ UNCHANGED <<gateway, offered, rows, current, panel, commission, grants, crashes, raced>>

HandleReport(w, p, to) == to \in Reportable(p) /\ ProcessPayment(w, p, to)

\* The user takes a free checkout: no PSP and no queue.
ConfirmFree(w, p) == p \in offered /\ ProcessPayment(w, p, "COMPLETED")

-----------------------------------------------------------------------------
(* ProcessPayment._handle_success and PurchaseSubscription._execute.        *)

Goto(w, step)  == worker' = [worker EXCEPT ![w].step = step]
Finish(w)      == worker' = [worker EXCEPT ![w] = Idle]
Buyer(w)       == tx[worker[w].pay].user

CurrentOf(u) == IF current[u] = None THEN NoSub
                ELSE [row |-> current[u], expire |-> rows[current[u]].expire,
                      trial |-> rows[current[u]].trial]

\* get_current: the row as of now travels through the rest of the purchase.
ReadCurrent(w) ==
    /\ worker[w].step = "completed"
    /\ IF tx[worker[w].pay].test THEN Finish(w)
       ELSE worker' = [worker EXCEPT ![w].step = "purchase", ![w].seen = CurrentOf(Buyer(w))]
    /\ UNCHANGED <<tx, gateway, offered, rows, current, panel, commission, grants, crashes, raced>>

Branch(w) == IF worker[w].seen.trial THEN "CHANGE" ELSE tx[worker[w].pay].type

\* The CHANGE branch writes the old row before it calls the panel, so it holds
\* the row's lock until it commits or rolls back.
Locked(r, w) == \E v \in Workers \ {w} : /\ worker[v].step \in {"panel", "commit"}
                                         /\ Branch(v) = "CHANGE"
                                         /\ worker[v].seen.row = r

MaxOf(a, b) == IF a >= b THEN a ELSE b

\* Mutation of Targets: a renewal starts from now, not from the old expiry.
TargetsFromNow(w) == {Now + Term}

\* What compute_change_expiry may make of the rest of the old term: nothing of a
\* trial, the same time when one of the plans has no price, more or less of it
\* on a cheaper or dearer plan.
Bonuses(w) == LET left == MaxOf(worker[w].seen.expire - Now, 0) IN
    IF worker[w].seen.trial THEN {0}
    ELSE IF ~tx[worker[w].pay].priced THEN {left}
    ELSE 0..(2 * left)

\* The expiry the branch computes.
Targets(w) ==
    CASE Branch(w) = "NEW"    -> {Now + Term}
      [] Branch(w) = "RENEW"  -> {MaxOf(worker[w].seen.expire, Now) + Term}
      [] Branch(w) = "CHANGE" -> {Now + Term + bonus : bonus \in Bonuses(w)}

OpenPurchase(w) ==
    /\ worker[w].step = "purchase"
    /\ IF Branch(w) # "NEW" /\ worker[w].seen.row = None
       THEN Goto(w, "failed")
       ELSE /\ Branch(w) = "CHANGE" => ~Locked(worker[w].seen.row, w)
            /\ \E t \in Targets(w) :
                  worker' = [worker EXCEPT ![w].step = "panel", ![w].target = t]
    /\ UNCHANGED <<tx, gateway, offered, rows, current, panel, commission, grants, crashes, raced>>

\* create_user conflicts when the panel already knows the name; update_user
\* needs it to.
PanelAccepts(w) == panel[Buyer(w)].exists = (Branch(w) # "NEW")

\* Another purchase of the buyer is at one of these steps, and will not look again.
Overtakes(w, steps) ==
    raced' = IF \E v \in Workers \ {w} : worker[v].step \in steps /\ Buyer(v) = Buyer(w)
             THEN raced \cup {Buyer(w)} ELSE raced

CallPanel(w) ==
    /\ worker[w].step = "panel"
    /\ PanelAccepts(w)
    /\ panel' = [panel EXCEPT ![Buyer(w)] = [exists |-> TRUE, expire |-> worker[w].target]]
    /\ \/ Goto(w, "commit")
       \/ Goto(w, "failed")    \* the answer, or the traffic reset after it, is lost
    /\ Overtakes(w, {"commit"})
    /\ UNCHANGED <<tx, gateway, offered, rows, current, commission, grants, crashes>>

\* Mutation of PurchaseRaises: the exception ends the task.
PurchaseRaisesUncaught(w) ==
    /\ worker[w].step \in {"purchase", "panel", "commit"}
    /\ Finish(w)
    /\ UNCHANGED <<tx, gateway, offered, rows, current, panel, commission, grants, crashes, raced>>

\* An exception anywhere in the purchase: the unit of work rolls back.
PurchaseRaises(w) ==
    /\ worker[w].step \in {"purchase", "panel", "commit"}
    /\ Goto(w, "failed")
    /\ UNCHANGED <<tx, gateway, offered, rows, current, panel, commission, grants, crashes, raced>>

Fresh(w) == [live |-> TRUE, expire |-> worker[w].target, trial |-> tx[worker[w].pay].trial]

\* Mutation of WriteRows: a new row is not made the current one.
WriteRowsUnlinked(w) ==
    /\ rows' = [rows EXCEPT ![worker[w].pay] = Fresh(w), ![worker[w].seen.row].live = FALSE]
    /\ current' = current

\* SubscriptionDao.update sends the changed fields only: not the row's status.
WriteRows(w) == LET p == worker[w].pay  old == worker[w].seen.row IN
    CASE Branch(w) = "NEW" ->
            /\ rows' = [rows EXCEPT ![p] = Fresh(w)]
            /\ current' = [current EXCEPT ![Buyer(w)] = p]
      [] Branch(w) = "RENEW" ->
            /\ ~Locked(old, w)
            /\ rows' = [rows EXCEPT ![old].expire = worker[w].target]
            /\ current' = current
      [] Branch(w) = "CHANGE" ->
            /\ rows' = [rows EXCEPT ![old].live = FALSE, ![p] = Fresh(w)]
            /\ current' = [current EXCEPT ![Buyer(w)] = p]

CommitPurchase(w) ==
    /\ worker[w].step = "commit"
    /\ WriteRows(w)
    /\ grants' = [grants EXCEPT ![worker[w].pay] = @ + 1]
    /\ Overtakes(w, {"purchase", "panel", "commit"})
    /\ Goto(w, "reward")
    /\ UNCHANGED <<tx, gateway, offered, panel, commission, crashes>>

\* The handler of the exception writes FAILED whatever the status is by then.
MarkFailed(w) ==
    /\ worker[w].step = "failed"
    /\ tx' = [tx EXCEPT ![worker[w].pay].status = "FAILED"]
    /\ Finish(w)
    /\ UNCHANGED <<gateway, offered, rows, current, panel, commission, grants, crashes, raced>>

\* Mutation of Commissionable: the price is not looked at.
CommissionableFree(t) == ~t.trial

Commissionable(t) == t.priced /\ ~t.trial

\* Best effort: a failure is logged and the purchase stands.
RecordCommission(w) ==
    /\ worker[w].step = "reward"
    /\ \/ /\ Commissionable(tx[worker[w].pay])
          /\ commission' = commission \cup {worker[w].pay}
       \/ commission' = commission
    /\ Finish(w)
    /\ UNCHANGED <<tx, gateway, offered, rows, current, panel, grants, crashes, raced>>

\* The process dies, or an exception outside the purchase ends the task: the
\* transaction keeps the status that was committed.
Crash(w) ==
    /\ worker[w].step # "idle"
    /\ crashes < MaxCrashes
    /\ crashes' = crashes + 1
    /\ Finish(w)
    /\ UNCHANGED <<tx, gateway, offered, rows, current, panel, commission, grants, raced>>

-----------------------------------------------------------------------------

WorkerStep(w) ==
    \/ ReadCurrent(w) \/ OpenPurchase(w) \/ CallPanel(w) \/ PurchaseRaises(w)
    \/ CommitPurchase(w) \/ MarkFailed(w) \/ RecordCommission(w)

Next ==
    \/ \E p \in Payments :
          \/ \E u \in Users, o \in Offers : CreatePaid(p, u, o)
          \/ LoseInvoice(p) \/ GrowOld(p) \/ Settle(p)
    \/ \E u \in Users, o \in Offers : CreateFree(u, o)
    \/ CancelOldTransactions
    \/ \E w \in Workers :
          \/ \E p \in Payments, to \in Reports : HandleReport(w, p, to)
          \/ \E p \in Payments : ConfirmFree(w, p)
          \/ WorkerStep(w) \/ Crash(w)

Spec == Init /\ [][Next]_vars

\* A started handler runs on: the event loop serves every coroutine.
FairSpec == Spec /\ \A w \in Workers : WF_vars(WorkerStep(w))

-----------------------------------------------------------------------------
(* Properties.                                                              *)

TxType == [status : Statuses, user : Users \cup {None}, type : Types, age : Ages,
           priced : BOOLEAN, trial : BOOLEAN, test : BOOLEAN]
SeenType == [row : Rows \cup {None}, expire : Nat, trial : BOOLEAN]
WorkerType == [step : Steps, pay : Payments \cup {None},
               seen : SeenType, target : Nat]

\* Every variable keeps its type; a busy worker has a payment whose
\* transaction has a buyer.
TypeOK ==
    /\ tx \in [Payments -> TxType]
    /\ gateway \in [Payments -> Outcomes]
    /\ offered \subseteq Payments
    /\ rows \in [Rows -> RowType]
    /\ current \in [Users -> Rows \cup {None}]
    /\ panel \in [Users -> [exists : BOOLEAN, expire : Nat]]
    /\ worker \in [Workers -> WorkerType]
    /\ commission \subseteq Payments
    /\ grants \in [Payments -> Nat]
    /\ crashes \in 0..MaxCrashes
    /\ raced \subseteq Users

\* A payment provisions one subscription term at most, however often its
\* webhook is delivered, its task redelivered and its purchase retried after
\* FAILED (ProcessPayment._execute and _handle_success).
ProvisionedAtMostOnce == \A p \in Payments : grants[p] <= 1

\* Once the purchase is committed the transaction is never again FAILED,
\* CANCELED or PENDING: neither the half-hourly job nor the handler of a
\* failed purchase may reopen what was delivered.
DeliveredStaysCompleted ==
    \A p \in Payments : grants[p] > 0 => tx[p].status \in {"COMPLETED", "REFUNDED"}

\* A referral commission exists only for a payment that was provisioned, is
\* not a trial and not a test (RecordReferralCommission is called last).
CommissionOnlyIfProvisioned ==
    \A p \in commission : grants[p] = 1 /\ tx[p].priced /\ ~tx[p].trial /\ ~tx[p].test

\* users.current_subscription_id never names a row a plan change retired,
\* also when two purchases of one user run from the same stale row.
CurrentRowIsLive == \A u \in Users : current[u] # None => rows[current[u]].live

\* When nothing runs and no purchase was cut short, the panel and the database
\* agree on the expiry of a user of whom no two purchases wrote over each other;
\* a purchase that fails between its panel call and its commit leaves the two
\* apart until a report takes it up again.
NothingCutShort ==
    /\ crashes = 0
    /\ \A w \in Workers : worker[w].step = "idle"
    /\ \A p \in Payments : tx[p].status # "FAILED" /\ (grants[p] = 0 => tx[p].status # "COMPLETED")
PanelAgreesWhenQuiet ==
    NothingCutShort =>
        \A u \in Users \ raced : current[u] # None => rows[current[u]].expire = panel[u].expire

\* A renewal adds its term to the expiry in force when it commits, not to one
\* read earlier, up to and including the first purchase of the user that commits
\* while another has read the row: that one writes the old term plus its own.
TermStacks ==
    [][\A u \in Users \ raced, p \in Payments :
          (/\ grants'[p] > grants[p] /\ tx[p].user = u
           /\ tx[p].type = "RENEW" /\ ~rows[current[u]].trial)
          => rows'[current'[u]].expire = MaxOf(rows[current[u]].expire, Now) + Term]_vars

\* Unless a process is killed, a transaction that reached COMPLETED is either
\* provisioned, or marked FAILED so that the PSP's retry can provision it, or
\* refunded meanwhile.
CompletedIsResolved ==
    \A p \in Payments :
        (tx[p].status = "COMPLETED" /\ ~tx[p].test)
            ~> (grants[p] > 0 \/ tx[p].status \in {"FAILED", "REFUNDED"} \/ crashes > 0)

-----------------------------------------------------------------------------
(* What the paid path promises, as the module Fulfilment states it.         *)

Phase == [p \in Payments |->
            IF grants[p] > 0 THEN "delivered"
            ELSE CASE tx[p].status \in {"COMPLETED", "REFUNDED"} -> "owed"
                   [] tx[p].status = "FAILED"                    -> "failed"
                   [] OTHER                                      -> "open"]

F == INSTANCE Fulfilment WITH phase <- Phase
Fulfils == F!Spec
=============================================================================
