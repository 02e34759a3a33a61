--------------------------- MODULE PaymentsProofs ---------------------------
(* Theorems of Payments for any users, payments, workers and crashes.       *)
EXTENDS Payments, TLAPS

USE DEF Now, Term

(***************************************************************************)
(* The inductive invariant.  Every safety theorem below rests on it.       *)
(***************************************************************************)

Busy(w) == worker[w].step # "idle"

\* A transaction has a buyer from the moment it exists.
BuyerInv == \A p \in Payments : tx[p].status = "NONE" <=> tx[p].user = None

\* A busy worker owns its payment: the conditional UPDATE let it in, and none
\* can follow while the status is COMPLETED or REFUNDED.
OwnerInv ==
    /\ \A w \in Workers : Busy(w) =>
          /\ worker[w].pay \in Payments
          /\ tx[worker[w].pay].status \in {"COMPLETED", "REFUNDED"}
          /\ grants[worker[w].pay] = IF worker[w].step = "reward" THEN 1 ELSE 0
    /\ \A v, w \in Workers : Busy(v) /\ Busy(w) /\ worker[v].pay = worker[w].pay => v = w

GrantInv == ProvisionedAtMostOnce /\ DeliveredStaysCompleted

IInv == TypeOK /\ BuyerInv /\ OwnerInv /\ GrantInv

-----------------------------------------------------------------------------

LEMMA MaxIsNat == ASSUME NEW a \in Nat, NEW b \in Int PROVE MaxOf(a, b) \in Nat /\ MaxOf(b, a) \in Nat
BY DEF MaxOf

LEMMA TargetsAreNat == ASSUME TypeOK, NEW w \in Workers, NEW t \in Targets(w),
                              tx[worker[w].pay].type \in Types
                       PROVE  t \in Nat
<1>1. worker[w].seen.expire \in Nat /\ worker[w].seen.trial \in BOOLEAN
  BY DEF TypeOK, WorkerType, SeenType
<1>2. MaxOf(worker[w].seen.expire - Now, 0) \in Nat /\ MaxOf(worker[w].seen.expire, Now) \in Nat
  BY <1>1 DEF MaxOf
<1>3. Branch(w) \in Types
  BY <1>1 DEF Branch, Types
<1>4. \A bonus \in Bonuses(w) : bonus \in Nat
  BY <1>2 DEF Bonuses
<1> QED BY <1>2, <1>3, <1>4 DEF Targets, Types

LEMMA InitInv == Init => IInv
<1> SUFFICES ASSUME Init PROVE IInv OBVIOUS
<1> USE PaymentsAssumption
<1>1. NoTx \in TxType /\ Idle \in WorkerType /\ NoRow \in RowType
  BY DEF TxType, NoTx, Statuses, Types, Ages, Steps, RowType, SeenType, WorkerType, Idle,
         NoSub, NoRow
<1>2. PICK old \in [Users -> {NoRow} \cup Held] :
        /\ rows = [r \in Rows |-> IF r \in Users THEN old[r] ELSE NoRow]
        /\ current = [u \in Users |-> IF old[u].live THEN u ELSE None]
        /\ panel = [u \in Users |-> [exists |-> old[u].live, expire |-> old[u].expire]]
  BY DEF Init
<1>3. \A u \in Users : old[u] \in RowType
  BY <1>1
<1>4. rows \in [Rows -> RowType]
  BY <1>1, <1>2, <1>3
<1>5. current \in [Users -> Rows \cup {None}]
  BY <1>2 DEF Rows
<1>6. panel \in [Users -> [exists : BOOLEAN, expire : Nat]]
  BY <1>2, <1>3 DEF RowType
<1>7. TypeOK
  BY <1>1, <1>4, <1>5, <1>6 DEF Init, TypeOK, Outcomes
<1>8. BuyerInv /\ OwnerInv /\ GrantInv
  BY DEF Init, BuyerInv, OwnerInv, GrantInv, ProvisionedAtMostOnce, DeliveredStaysCompleted,
         Busy, Idle, NoTx
<1> QED BY <1>7, <1>8 DEF IInv

(***************************************************************************)
(* What each group of actions leaves alone, so that a step's proof only    *)
(* speaks of what the step writes.                                         *)
(***************************************************************************)

\* Invoices and the PSP touch no worker, no row and no grant; a status changes
\* only from NONE, or from PENDING to CANCELED.
InvoiceStep ==
    \/ \E p \in Payments : \/ \E u \in Users, o \in Offers : CreatePaid(p, u, o)
                           \/ LoseInvoice(p) \/ GrowOld(p) \/ Settle(p)
    \/ \E u \in Users, o \in Offers : CreateFree(u, o)
    \/ CancelOldTransactions

LEMMA NewTxType == ASSUME NEW u \in Users, NEW o \in Offers
                   PROVE  /\ NewTx(u, o) \in TxType
                          /\ NewTx(u, o).status = "PENDING"
                          /\ NewTx(u, o).user = u
BY PaymentsAssumption DEF NewTx, TxType, Offer, Statuses, Ages

LEMMA StatusUpdate ==
    ASSUME NEW t \in TxType, NEW s \in Statuses
    PROVE  /\ [t EXCEPT !.status = s] \in TxType
           /\ [t EXCEPT !.status = s].status = s
           /\ [t EXCEPT !.status = s].user = t.user
           /\ [t EXCEPT !.status = s].type = t.type
BY DEF TxType

LEMMA CanceledByAgeUpdate ==
    ASSUME NEW t \in TxType
    PROVE  /\ CanceledByAge(t) \in TxType
           /\ CanceledByAge(t).user = t.user
           /\ \/ CanceledByAge(t).status = t.status
              \/ t.status = "PENDING" /\ CanceledByAge(t).status = "CANCELED"
BY StatusUpdate DEF CanceledByAge, Statuses

LEMMA InvoiceStepTx ==
    ASSUME TypeOK, BuyerInv, InvoiceStep
    PROVE  /\ tx' \in [Payments -> TxType]
           /\ BuyerInv'
           /\ \A p \in Payments : \/ tx'[p].status = tx[p].status
                                  \/ /\ tx[p].status \in {"NONE", "PENDING"}
                                     /\ tx'[p].status \in {"PENDING", "CANCELED"}
           /\ \A p \in Payments : tx[p].status # "NONE" => tx'[p].user = tx[p].user
<1> USE PaymentsAssumption DEF TypeOK, BuyerInv
<1>1. CASE \E p \in Payments, u \in Users, o \in Offers :
                /\ tx[p].status = "NONE"
                /\ tx' = [tx EXCEPT ![p] = NewTx(u, o)]
  BY <1>1, NewTxType DEF TxType
<1>2. CASE tx' = tx
  BY <1>2
<1>3. CASE \E p \in Payments : GrowOld(p)
  BY <1>3 DEF GrowOld, TxType, Ages
<1>4. CASE CancelOldTransactions
  <2>1. \A p \in Payments : tx'[p] = CanceledByAge(tx[p])
    BY <1>4 DEF CancelOldTransactions
  <2>2. tx' \in [Payments -> TxType]
    BY <1>4, CanceledByAgeUpdate DEF CancelOldTransactions
  <2>3. \A p \in Payments :
            /\ tx'[p].user = tx[p].user
            /\ \/ tx'[p].status = tx[p].status
               \/ tx[p].status = "PENDING" /\ tx'[p].status = "CANCELED"
    BY <2>1, CanceledByAgeUpdate
  <2> QED BY <2>2, <2>3
<1> QED BY <1>1, <1>2, <1>3, <1>4
        DEF InvoiceStep, CreatePaid, CreateFree, LoseInvoice, Settle, Unused

-----------------------------------------------------------------------------
(* A worker that moves on or finishes, with the transactions as they are.   *)

LEMMA MoveWorker ==
    ASSUME IInv, NEW w \in Workers, NEW x \in WorkerType, Busy(w),
           UNCHANGED <<tx, grants>>,
           worker' = [worker EXCEPT ![w] = x],
           \/ x.step = "idle"
           \/ /\ x.pay = worker[w].pay
              /\ x.step # "reward" /\ worker[w].step # "reward"
    PROVE  /\ worker' \in [Workers -> WorkerType]
           /\ BuyerInv' /\ OwnerInv' /\ GrantInv'
<1> USE DEF IInv
<1>1. worker' \in [Workers -> WorkerType]
  BY DEF TypeOK
<1>2. \A v \in Workers : worker'[v] = IF v = w THEN x ELSE worker[v]
  BY DEF TypeOK
<1>3. OwnerInv'
  BY <1>2 DEF OwnerInv, Busy
<1>4. BuyerInv' /\ GrantInv'
  BY DEF BuyerInv, GrantInv, ProvisionedAtMostOnce, DeliveredStaysCompleted
<1> QED BY <1>1, <1>3, <1>4

LEMMA StepUpdate ==
    ASSUME NEW x \in WorkerType, NEW s \in Steps
    PROVE  /\ [x EXCEPT !.step = s] \in WorkerType
           /\ [x EXCEPT !.step = s].step = s
           /\ [x EXCEPT !.step = s].pay = x.pay
BY DEF WorkerType

LEMMA IdleType == Idle \in WorkerType /\ Idle.step = "idle"
BY PaymentsAssumption DEF Idle, WorkerType, SeenType, NoSub, Steps

LEMMA GotoKeeps ==
    ASSUME IInv, NEW w \in Workers, NEW s \in Steps, Goto(w, s),
           worker[w].step \notin {"idle", "reward"}, s \notin {"idle", "reward"},
           UNCHANGED <<tx, grants>>
    PROVE  /\ worker' \in [Workers -> WorkerType]
           /\ BuyerInv' /\ OwnerInv' /\ GrantInv'
<1> DEFINE x == [worker[w] EXCEPT !.step = s]
<1>1. worker[w] \in WorkerType
  BY DEF IInv, TypeOK
<1>2. x \in WorkerType /\ x.step = s /\ x.pay = worker[w].pay
  BY <1>1, StepUpdate
<1>3. worker' = [worker EXCEPT ![w] = x]
  BY DEF Goto, IInv, TypeOK
<1> HIDE DEF x
<1> QED BY <1>2, <1>3, MoveWorker DEF Busy

LEMMA FinishKeeps ==
    ASSUME IInv, NEW w \in Workers, Finish(w), Busy(w), UNCHANGED <<tx, grants>>
    PROVE  /\ worker' \in [Workers -> WorkerType]
           /\ BuyerInv' /\ OwnerInv' /\ GrantInv'
BY IdleType, MoveWorker DEF Finish

-----------------------------------------------------------------------------
(* One lemma per action of a worker.                                        *)

LEMMA BuyerIsUser == ASSUME IInv, NEW w \in Workers, Busy(w)
                     PROVE  /\ worker[w].pay \in Payments
                            /\ Buyer(w) \in Users
                            /\ tx[worker[w].pay] \in TxType
BY DEF IInv, TypeOK, TxType, OwnerInv, BuyerInv, Buyer

LEMMA ReadCurrentInv == ASSUME IInv, NEW w \in Workers, ReadCurrent(w) PROVE IInv'
<1>1. Busy(w) /\ UNCHANGED <<tx, grants>>
  BY DEF ReadCurrent, Busy
<1>2. CASE tx[worker[w].pay].test
  BY <1>1, <1>2, FinishKeeps DEF ReadCurrent, IInv, TypeOK
<1>3. CASE ~tx[worker[w].pay].test
  <2> DEFINE x == [worker[w] EXCEPT !.step = "purchase", !.seen = CurrentOf(Buyer(w))]
  <2>1. CurrentOf(Buyer(w)) \in SeenType
    BY <1>1, BuyerIsUser, PaymentsAssumption DEF CurrentOf, SeenType, NoSub, IInv, TypeOK, RowType
  <2>2. worker[w] \in WorkerType
    BY DEF IInv, TypeOK
  <2>3. x \in WorkerType /\ x.step = "purchase" /\ x.pay = worker[w].pay
    BY <2>1, <2>2 DEF WorkerType, Steps
  <2>4. worker' = [worker EXCEPT ![w] = x]
    BY <1>3 DEF ReadCurrent, IInv, TypeOK
  <2>5. worker[w].step # "reward"
    BY DEF ReadCurrent
  <2> HIDE DEF x
  <2>6. worker' \in [Workers -> WorkerType] /\ BuyerInv' /\ OwnerInv' /\ GrantInv'
    BY <1>1, <2>3, <2>4, <2>5, MoveWorker
  <2> QED BY <2>6 DEF ReadCurrent, IInv, TypeOK
<1> QED BY <1>2, <1>3

LEMMA OpenPurchaseInv == ASSUME IInv, NEW w \in Workers, OpenPurchase(w) PROVE IInv'
<1>1. Busy(w) /\ UNCHANGED <<tx, grants>> /\ worker[w].step = "purchase"
  BY DEF OpenPurchase, Busy
<1>2. CASE Goto(w, "failed")
  BY <1>1, <1>2, GotoKeeps DEF OpenPurchase, IInv, TypeOK, Steps
<1>3. CASE \E t \in Targets(w) :
             worker' = [worker EXCEPT ![w].step = "panel", ![w].target = t]
  <2>1. PICK t \in Targets(w) :
             worker' = [worker EXCEPT ![w].step = "panel", ![w].target = t]
    BY <1>3
  <2> DEFINE x == [worker[w] EXCEPT !.step = "panel", !.target = t]
  <2>2. t \in Nat
    BY <1>1, BuyerIsUser, TargetsAreNat DEF IInv, TxType
  <2>3. worker[w] \in WorkerType
    BY DEF IInv, TypeOK
  <2>4. x \in WorkerType /\ x.step = "panel" /\ x.pay = worker[w].pay
    BY <2>2, <2>3 DEF WorkerType, Steps
  <2>5. worker' = [worker EXCEPT ![w] = x]
    BY <2>1 DEF IInv, TypeOK
  <2> HIDE DEF x
  <2>6. worker' \in [Workers -> WorkerType] /\ BuyerInv' /\ OwnerInv' /\ GrantInv'
    BY <1>1, <2>4, <2>5, MoveWorker
  <2> QED BY <2>6 DEF OpenPurchase, IInv, TypeOK
<1> QED BY <1>2, <1>3 DEF OpenPurchase

LEMMA CallPanelInv == ASSUME IInv, NEW w \in Workers, CallPanel(w) PROVE IInv'
<1>1. Busy(w) /\ UNCHANGED <<tx, grants>> /\ worker[w].step = "panel"
  BY DEF CallPanel, Busy
<1>2. worker' \in [Workers -> WorkerType] /\ BuyerInv' /\ OwnerInv' /\ GrantInv'
  BY <1>1, GotoKeeps DEF CallPanel, Steps
<1>3. panel' \in [Users -> [exists : BOOLEAN, expire : Nat]]
  BY DEF CallPanel, IInv, TypeOK, WorkerType
<1>4. raced' \subseteq Users
  BY <1>1, BuyerIsUser DEF CallPanel, Overtakes, IInv, TypeOK
<1> QED BY <1>2, <1>3, <1>4 DEF CallPanel, IInv, TypeOK

LEMMA PurchaseRaisesInv == ASSUME IInv, NEW w \in Workers, PurchaseRaises(w) PROVE IInv'
BY GotoKeeps DEF PurchaseRaises, IInv, TypeOK, Steps

LEMMA RecordCommissionInv == ASSUME IInv, NEW w \in Workers, RecordCommission(w) PROVE IInv'
<1>1. Busy(w) /\ UNCHANGED <<tx, grants>> /\ Finish(w)
  BY DEF RecordCommission, Busy
<1>2. worker[w].pay \in Payments
  BY <1>1, BuyerIsUser
<1> QED BY <1>1, <1>2, FinishKeeps DEF RecordCommission, IInv, TypeOK

LEMMA CrashInv == ASSUME IInv, NEW w \in Workers, Crash(w) PROVE IInv'
<1>1. crashes' \in 0..MaxCrashes
  BY PaymentsAssumption DEF Crash, IInv, TypeOK
<1> QED BY <1>1, FinishKeeps DEF Crash, Busy, IInv, TypeOK

\* The conditional UPDATE: a report either changes nothing or moves the
\* transaction along an allowed edge, and only COMPLETED starts a purchase.
LEMMA ProcessPaymentInv ==
    ASSUME IInv, NEW w \in Workers, NEW p \in Payments, NEW to \in Reports, ProcessPayment(w, p, to)
    PROVE  IInv'
<1> USE DEF IInv
<1>1. CASE tx[p].status \notin AllowedFrom(to)
  BY <1>1 DEF ProcessPayment, TransitionStatus, TypeOK, BuyerInv, OwnerInv, GrantInv,
              ProvisionedAtMostOnce, DeliveredStaysCompleted, Busy
<1>2. CASE tx[p].status \in AllowedFrom(to)
  <2> DEFINE t == [tx[p] EXCEPT !.status = to]
  <2>1. tx[p] \in TxType /\ to \in Statuses
    BY DEF TypeOK, Reports, Statuses
  <2>2. t \in TxType /\ t.status = to /\ t.user = tx[p].user
    BY <2>1, StatusUpdate
  <2>3. tx' = [tx EXCEPT ![p] = t]
    BY <1>2 DEF ProcessPayment, TransitionStatus, TypeOK
  <2> HIDE DEF t
  <2>4. tx' \in [Payments -> TxType] /\ \A q \in Payments : tx'[q] = IF q = p THEN t ELSE tx[q]
    BY <2>2, <2>3 DEF TypeOK
  <2>5. tx[p].status # "NONE" /\ to # "NONE"
    BY <1>2 DEF AllowedFrom, Reports
  <2>6. BuyerInv'
    BY <2>2, <2>4, <2>5 DEF BuyerInv
  <2>7. CASE to = "COMPLETED"
    <3>1. tx[p].status \in {"PENDING", "FAILED"}
      BY <1>2, <2>7 DEF AllowedFrom
    <3>2. grants[p] = 0
      BY <3>1 DEF GrantInv, DeliveredStaysCompleted, TypeOK
    <3>3. \A v \in Workers : Busy(v) => worker[v].pay # p
      BY <3>1 DEF OwnerInv
    <3> DEFINE x == [Idle EXCEPT !.step = "completed", !.pay = p]
    <3>4. x \in WorkerType /\ x.step = "completed" /\ x.pay = p
      BY IdleType DEF WorkerType, Steps
    <3>5. worker' = [worker EXCEPT ![w] = x]
      BY <1>2, <2>7 DEF ProcessPayment
    <3> HIDE DEF x
    <3>6. /\ worker' \in [Workers -> WorkerType]
          /\ \A v \in Workers : worker'[v] = IF v = w THEN x ELSE worker[v]
      BY <3>4, <3>5 DEF TypeOK
    <3>7. grants' = grants
      BY DEF ProcessPayment
    <3>8. OwnerInv'
      BY <2>2, <2>4, <2>7, <3>2, <3>3, <3>4, <3>6, <3>7 DEF OwnerInv, Busy
    <3>9. GrantInv'
      BY <2>2, <2>4, <2>7, <3>7 DEF GrantInv, ProvisionedAtMostOnce, DeliveredStaysCompleted
    <3> QED BY <2>4, <2>6, <3>6, <3>8, <3>9 DEF ProcessPayment, TypeOK
  <2>8. CASE to # "COMPLETED"
    <3>1. worker' = worker /\ grants' = grants
      BY <2>8 DEF ProcessPayment
    <3>2. to = "REFUNDED" \/ tx[p].status = "PENDING"
      BY <1>2, <2>8 DEF AllowedFrom, Reports
    <3>3. OwnerInv'
      BY <2>2, <2>4, <3>1, <3>2 DEF OwnerInv, Busy
    <3>4. GrantInv'
      BY <2>2, <2>4, <3>1, <3>2 DEF GrantInv, ProvisionedAtMostOnce, DeliveredStaysCompleted
    <3> QED BY <2>4, <2>6, <3>1, <3>3, <3>4 DEF ProcessPayment, TypeOK
  <2> QED BY <2>7, <2>8
<1> QED BY <1>1, <1>2

\* What the three branches write is well typed.
LEMMA WriteRowsType ==
    ASSUME IInv, NEW w \in Workers, Busy(w), WriteRows(w)
    PROVE  rows' \in [Rows -> RowType] /\ current' \in [Users -> Rows \cup {None}]
<1>1. worker[w].pay \in Rows /\ Buyer(w) \in Users /\ worker[w].target \in Nat
  BY BuyerIsUser DEF Rows, IInv, TypeOK, WorkerType
<1>2. Fresh(w) \in RowType
  BY <1>1, BuyerIsUser DEF Fresh, RowType, TxType
<1>3. Branch(w) \in Types
  BY BuyerIsUser DEF Branch, Types, TxType
<1> DEFINE p == worker[w].pay
           old == worker[w].seen.row
<1>4. rows \in [Rows -> RowType] /\ current \in [Users -> Rows \cup {None}]
  BY DEF IInv, TypeOK
<1>5. /\ [rows EXCEPT ![p] = Fresh(w)] \in [Rows -> RowType]
      /\ [rows EXCEPT ![old].expire = worker[w].target] \in [Rows -> RowType]
      /\ [rows EXCEPT ![old].live = FALSE] \in [Rows -> RowType]
  BY <1>1, <1>2, <1>4 DEF RowType
<1>6. [rows EXCEPT ![old].live = FALSE, ![p] = Fresh(w)] \in [Rows -> RowType]
  BY <1>1, <1>2, <1>5
<1>7. [current EXCEPT ![Buyer(w)] = p] \in [Users -> Rows \cup {None}]
  BY <1>1, <1>4
<1>8. CASE Branch(w) = "NEW"    BY <1>4, <1>5, <1>7, <1>8 DEF WriteRows
<1>9. CASE Branch(w) = "RENEW"  BY <1>4, <1>5, <1>9 DEF WriteRows
<1>10. CASE Branch(w) = "CHANGE" BY <1>6, <1>7, <1>10 DEF WriteRows
<1> QED BY <1>3, <1>8, <1>9, <1>10 DEF Types

LEMMA CommitPurchaseInv == ASSUME IInv, NEW w \in Workers, CommitPurchase(w) PROVE IInv'
<1> USE DEF IInv
<1>1. Busy(w) /\ worker[w].step = "commit" /\ UNCHANGED tx
  BY DEF CommitPurchase, Busy
<1>2. worker[w] \in WorkerType /\ worker[w].pay \in Payments
  BY <1>1, BuyerIsUser DEF TypeOK
<1> DEFINE p == worker[w].pay
           x == [worker[w] EXCEPT !.step = "reward"]
<1>3. x \in WorkerType /\ x.step = "reward" /\ x.pay = p
  BY <1>2, StepUpdate DEF Steps
<1>4. worker' = [worker EXCEPT ![w] = x]
  BY DEF CommitPurchase, Goto, TypeOK
<1> HIDE DEF x
<1>5. /\ worker' \in [Workers -> WorkerType]
      /\ \A v \in Workers : worker'[v] = IF v = w THEN x ELSE worker[v]
  BY <1>3, <1>4 DEF TypeOK
<1>6. grants[p] = 0 /\ tx[p].status \in {"COMPLETED", "REFUNDED"}
  BY <1>1 DEF OwnerInv
<1>7. /\ grants' \in [Payments -> Nat]
      /\ \A q \in Payments : grants'[q] = IF q = p THEN 1 ELSE grants[q]
  BY <1>2, <1>6 DEF CommitPurchase, TypeOK
<1>8. OwnerInv'
  BY <1>1, <1>3, <1>5, <1>6, <1>7 DEF OwnerInv, Busy
<1>9. GrantInv' /\ BuyerInv'
  BY <1>1, <1>6, <1>7 DEF GrantInv, BuyerInv, ProvisionedAtMostOnce, DeliveredStaysCompleted, TypeOK
<1>10. rows' \in [Rows -> RowType] /\ current' \in [Users -> Rows \cup {None}]
  BY <1>1, WriteRowsType DEF CommitPurchase
<1>11. raced' \subseteq Users
  BY <1>1, BuyerIsUser DEF CommitPurchase, Overtakes, TypeOK
<1> QED BY <1>1, <1>5, <1>7, <1>8, <1>9, <1>10, <1>11 DEF CommitPurchase, TypeOK

\* FAILED is written without a condition; it is harmless to what was delivered
\* because the worker that writes it is the only one and did not deliver.
LEMMA MarkFailedInv == ASSUME IInv, NEW w \in Workers, MarkFailed(w) PROVE IInv'
<1> USE DEF IInv
<1>1. Busy(w) /\ worker[w].step = "failed" /\ UNCHANGED grants /\ Finish(w)
  BY DEF MarkFailed, Busy
<1>2. worker[w].pay \in Payments
  BY <1>1, BuyerIsUser
<1> DEFINE p == worker[w].pay
           t == [tx[p] EXCEPT !.status = "FAILED"]
<1>3. t \in TxType /\ t.status = "FAILED" /\ t.user = tx[p].user
  BY <1>2, StatusUpdate DEF TypeOK, Statuses
<1>4. tx' = [tx EXCEPT ![p] = t]
  BY <1>2 DEF MarkFailed, TypeOK
<1> HIDE DEF t
<1>5. tx' \in [Payments -> TxType] /\ \A q \in Payments : tx'[q] = IF q = p THEN t ELSE tx[q]
  BY <1>2, <1>3, <1>4 DEF TypeOK
<1>6. /\ worker' \in [Workers -> WorkerType]
      /\ \A v \in Workers : worker'[v] = IF v = w THEN Idle ELSE worker[v]
  BY <1>1, IdleType DEF Finish, TypeOK
<1>7. grants[p] = 0 /\ tx[p].status # "NONE"
  BY <1>1 DEF OwnerInv
<1>8. OwnerInv'
  BY <1>1, <1>5, <1>6, IdleType DEF OwnerInv, Busy
<1>9. GrantInv' /\ BuyerInv'
  BY <1>1, <1>2, <1>3, <1>5, <1>7 DEF GrantInv, BuyerInv, ProvisionedAtMostOnce,
                                      DeliveredStaysCompleted, TypeOK
<1> QED BY <1>5, <1>6, <1>8, <1>9 DEF MarkFailed, TypeOK

LEMMA InvoiceInv == ASSUME IInv, InvoiceStep PROVE IInv'
<1> USE DEF IInv
<1>1. UNCHANGED <<rows, current, panel, worker, commission, grants, raced>>
  BY DEF InvoiceStep, CreatePaid, LoseInvoice, GrowOld, Settle, CreateFree, CancelOldTransactions
<1>2. /\ gateway' \in [Payments -> Outcomes]
      /\ offered' \subseteq Payments
      /\ crashes' \in 0..MaxCrashes
  BY PaymentsAssumption
     DEF InvoiceStep, CreatePaid, LoseInvoice, GrowOld, Settle, CreateFree, CancelOldTransactions,
         RecentPending, TypeOK, Outcomes
<1>3. OwnerInv' /\ GrantInv'
  BY <1>1, InvoiceStepTx
     DEF OwnerInv, GrantInv, Busy, ProvisionedAtMostOnce, DeliveredStaysCompleted
<1> QED BY <1>1, <1>2, <1>3, InvoiceStepTx DEF TypeOK

LEMMA StepInv == IInv /\ [Next]_vars => IInv'
<1> SUFFICES ASSUME IInv, [Next]_vars PROVE IInv' OBVIOUS
<1>1. CASE InvoiceStep
  BY <1>1, InvoiceInv
<1>2. ASSUME NEW w \in Workers, NEW p \in Payments, NEW to \in Reports, HandleReport(w, p, to)
      PROVE  IInv'
  BY <1>2, ProcessPaymentInv DEF HandleReport
<1>3. ASSUME NEW w \in Workers, NEW p \in Payments, ConfirmFree(w, p)
      PROVE  IInv'
  BY <1>3, ProcessPaymentInv DEF ConfirmFree, Reports
<1>4. ASSUME NEW w \in Workers, WorkerStep(w)
      PROVE  IInv'
  BY <1>4, ReadCurrentInv, OpenPurchaseInv, CallPanelInv, PurchaseRaisesInv, CommitPurchaseInv,
     MarkFailedInv, RecordCommissionInv DEF WorkerStep
<1>5. ASSUME NEW w \in Workers, Crash(w) PROVE IInv'
  BY <1>5, CrashInv
<1>6. CASE UNCHANGED vars
  BY <1>6 DEF vars, IInv, TypeOK, BuyerInv, OwnerInv, GrantInv, ProvisionedAtMostOnce,
              DeliveredStaysCompleted, Busy
<1> QED BY <1>1, <1>2, <1>3, <1>4, <1>5, <1>6 DEF Next, InvoiceStep

\* Of every payment: a worker on it owns it, it has a buyer once it exists, and it was granted
\* at most once, by a worker that is past the commit of its purchase (ProcessPayment).
THEOREM Invariance == Spec => []IInv
BY InitInv, StepInv, PTL DEF Spec

-----------------------------------------------------------------------------
(* The theorems.                                                            *)

\* Every variable keeps its type.
THEOREM TypeCorrect == Spec => []TypeOK
<1>1. IInv => TypeOK BY DEF IInv
<1> QED BY <1>1, Invariance, PTL

\* However reports are repeated, reordered and retried after a failure, and
\* however workers overlap and die, a payment provisions one term at most.
THEOREM AtMostOnce == Spec => []ProvisionedAtMostOnce
<1>1. IInv => ProvisionedAtMostOnce BY DEF IInv, GrantInv
<1> QED BY <1>1, Invariance, PTL

\* What was delivered is never reopened: not by the unconditional FAILED, not
\* by the cancellation of old transactions.
THEOREM DeliveryIsFinal == Spec => []DeliveredStaysCompleted
<1>1. IInv => DeliveredStaysCompleted BY DEF IInv, GrantInv
<1> QED BY <1>1, Invariance, PTL

-----------------------------------------------------------------------------
(* What a transaction was created with never changes.                       *)

SameTerms(s, t) == /\ s.user = t.user /\ s.type = t.type /\ s.priced = t.priced
                   /\ s.trial = t.trial /\ s.test = t.test

LEMMA TermsAreFixed ==
    IInv /\ [Next]_vars => \A p \in Payments : tx[p].status # "NONE" => SameTerms(tx[p], tx'[p])
<1> SUFFICES ASSUME IInv, [Next]_vars, NEW p \in Payments, tx[p].status # "NONE"
             PROVE  SameTerms(tx[p], tx'[p])
  OBVIOUS
<1> USE DEF SameTerms
<1>1. tx[p] \in TxType /\ tx \in [Payments -> TxType]
  BY DEF IInv, TypeOK
<1>2. CASE \E q \in Payments, s \in Statuses : tx' = [tx EXCEPT ![q].status = s]
  BY <1>1, <1>2 DEF TxType
<1>3. CASE tx' = tx
  BY <1>3
<1>4. CASE InvoiceStep
  <2>1. CASE \E q \in Payments, u \in Users, o \in Offers :
                tx[q].status = "NONE" /\ tx' = [tx EXCEPT ![q] = NewTx(u, o)]
    BY <1>1, <2>1
  <2>2. CASE \E q \in Payments : GrowOld(q)
    BY <1>1, <2>2 DEF GrowOld, TxType
  <2>3. CASE CancelOldTransactions
    BY <1>1, <2>3 DEF CancelOldTransactions, CanceledByAge, TxType
  <2> QED BY <1>3, <1>4, <2>1, <2>2, <2>3
          DEF InvoiceStep, CreatePaid, CreateFree, LoseInvoice, Settle, Unused
<1>5. ASSUME NEW w \in Workers, NEW q \in Payments, NEW to \in Reports, ProcessPayment(w, q, to)
      PROVE  SameTerms(tx[p], tx'[p])
  BY <1>2, <1>3, <1>5 DEF ProcessPayment, TransitionStatus, Reports, Statuses
<1>6. ASSUME NEW w \in Workers, WorkerStep(w) \/ Crash(w)
      PROVE  SameTerms(tx[p], tx'[p])
  <2>1. CASE MarkFailed(w)
    BY <1>2, <2>1, BuyerIsUser DEF MarkFailed, Busy, Statuses
  <2> QED BY <1>3, <1>6, <2>1
          DEF WorkerStep, ReadCurrent, OpenPurchase, CallPanel, PurchaseRaises, CommitPurchase,
              RecordCommission, Crash
<1>7. CASE UNCHANGED vars
  BY <1>3, <1>7 DEF vars
<1> QED BY <1>4, <1>5, <1>6, <1>7 DEF Next, InvoiceStep, HandleReport, ConfirmFree, Reports

-----------------------------------------------------------------------------
(* The commission follows the delivery.                                     *)

\* A gateway test leaves the worker before it reads a subscription.
NoTestInv == \A w \in Workers : worker[w].step \notin {"idle", "completed"}
                                    => ~tx[worker[w].pay].test

CInv == IInv /\ NoTestInv /\ CommissionOnlyIfProvisioned

LEMMA WorkerFrame ==
    ASSUME IInv, [Next]_vars, NEW w \in Workers
    PROVE  \/ worker'[w] = worker[w]
           \/ worker'[w].step \in {"idle", "completed"}
           \/ ReadCurrent(w)
           \/ /\ worker'[w].pay = worker[w].pay
              /\ worker[w].step \notin {"idle", "completed"}
<1>1. worker \in [Workers -> WorkerType]
  BY DEF IInv, TypeOK
<1>2. CASE UNCHANGED worker
  BY <1>2
<1>3. ASSUME NEW v \in Workers, \/ \E p \in Payments, to \in Reports : ProcessPayment(v, p, to)
                                \/ WorkerStep(v) \/ Crash(v)
      PROVE  \/ worker'[w] = worker[w]
             \/ worker'[w].step \in {"idle", "completed"}
             \/ ReadCurrent(w)
             \/ /\ worker'[w].pay = worker[w].pay
                /\ worker[w].step \notin {"idle", "completed"}
  <2>1. CASE v # w
    BY <1>1, <1>3, <2>1
       DEF ProcessPayment, WorkerStep, ReadCurrent, OpenPurchase, CallPanel, PurchaseRaises,
           CommitPurchase, MarkFailed, RecordCommission, Crash, Goto, Finish
  <2>2. CASE v = w
    <3>1. CASE \E p \in Payments, to \in Reports : ProcessPayment(v, p, to)
      BY <1>1, <2>2, <3>1 DEF ProcessPayment, Idle
    <3>2. CASE OpenPurchase(v) \/ CallPanel(v) \/ PurchaseRaises(v) \/ CommitPurchase(v)
      BY <1>1, <2>2, <3>2
         DEF OpenPurchase, CallPanel, PurchaseRaises, CommitPurchase, Goto, WorkerType
    <3>3. CASE MarkFailed(v) \/ RecordCommission(v) \/ Crash(v)
      BY <1>1, <2>2, <3>3 DEF MarkFailed, RecordCommission, Crash, Finish, Idle
    <3> QED BY <1>3, <2>2, <3>1, <3>2, <3>3 DEF WorkerStep
  <2> QED BY <2>1, <2>2
<1> QED BY <1>2, <1>3
        DEF Next, vars, CreatePaid, LoseInvoice, GrowOld, Settle, CreateFree, CancelOldTransactions,
            HandleReport, ConfirmFree, Reports

LEMMA CommissionFrame ==
    ASSUME [Next]_vars, commission' # commission
    PROVE  \E w \in Workers : RecordCommission(w)
BY DEF Next, vars, CreatePaid, LoseInvoice, GrowOld, Settle, CreateFree, CancelOldTransactions,
       HandleReport, ConfirmFree, ProcessPayment, WorkerStep, ReadCurrent, OpenPurchase, CallPanel,
       PurchaseRaises, CommitPurchase, MarkFailed, Crash

LEMMA GrantsFrame ==
    ASSUME IInv, [Next]_vars, NEW p \in Payments, grants[p] = 1
    PROVE  grants'[p] = 1
<1>1. CASE UNCHANGED grants
  BY <1>1
<1>2. ASSUME NEW w \in Workers, CommitPurchase(w)
      PROVE  grants'[p] = 1
  <2>1. grants[worker[w].pay] = 0
    BY <1>2 DEF IInv, OwnerInv, CommitPurchase, Busy
  <2> QED BY <1>2, <2>1 DEF CommitPurchase, IInv, TypeOK
<1> QED BY <1>1, <1>2
        DEF Next, vars, CreatePaid, LoseInvoice, GrowOld, Settle, CreateFree, CancelOldTransactions,
            HandleReport, ConfirmFree, ProcessPayment, WorkerStep, ReadCurrent, OpenPurchase,
            CallPanel, PurchaseRaises, MarkFailed, RecordCommission, Crash

LEMMA CommissionStep == CInv /\ [Next]_vars => CInv'
<1> SUFFICES ASSUME CInv, [Next]_vars PROVE CInv' OBVIOUS
<1> USE DEF CInv
<1>1. IInv'
  BY StepInv
<1>2. NoTestInv'
  <2> SUFFICES ASSUME NEW w \in Workers, worker'[w].step \notin {"idle", "completed"}
               PROVE  ~tx'[worker'[w].pay].test
    BY DEF NoTestInv
  <2>1. CASE ReadCurrent(w)
    <3>1. worker[w].pay \in Payments /\ worker[w] \in WorkerType
      BY <2>1, BuyerIsUser DEF ReadCurrent, Busy, IInv, TypeOK
    <3> QED BY <2>1, <3>1 DEF ReadCurrent, Finish, Idle, IInv, TypeOK, WorkerType
  <2>2. CASE ~ReadCurrent(w)
    <3>1. worker'[w].pay = worker[w].pay /\ worker[w].step \notin {"idle", "completed"}
      BY <2>2, WorkerFrame
    <3>2. worker[w].pay \in Payments /\ tx[worker[w].pay].status # "NONE" /\ ~tx[worker[w].pay].test
      BY <3>1 DEF NoTestInv, IInv, OwnerInv, Busy
    <3> QED BY <3>1, <3>2, TermsAreFixed DEF SameTerms
  <2> QED BY <2>1, <2>2
<1>3. CommissionOnlyIfProvisioned'
  <2> SUFFICES ASSUME NEW p \in commission'
               PROVE  grants'[p] = 1 /\ Commissionable(tx'[p]) /\ ~tx'[p].test
    BY DEF CommissionOnlyIfProvisioned, Commissionable
  <2>1. grants[p] = 1 /\ Commissionable(tx[p]) /\ ~tx[p].test /\ p \in Payments
    <3>1. CASE p \in commission
      BY <3>1 DEF CommissionOnlyIfProvisioned, Commissionable, IInv, TypeOK
    <3>2. CASE p \notin commission
      <4>1. PICK w \in Workers : RecordCommission(w)
        BY <3>2, CommissionFrame
      <4>2. p = worker[w].pay /\ Commissionable(tx[p]) /\ worker[w].step = "reward"
        BY <3>2, <4>1 DEF RecordCommission
      <4> QED BY <4>2 DEF IInv, OwnerInv, Busy, NoTestInv
    <3> QED BY <3>1, <3>2
  <2>2. tx[p].status # "NONE"
    BY <2>1 DEF IInv, GrantInv, DeliveredStaysCompleted
  <2>3. grants'[p] = 1
    BY <2>1, GrantsFrame
  <2> QED BY <2>1, <2>2, <2>3, TermsAreFixed DEF SameTerms, Commissionable
<1> QED BY <1>1, <1>2, <1>3

\* A referral commission exists only for a payment that was provisioned, is not
\* a trial and not a gateway test, whatever fails or is repeated on the way.
THEOREM CommissionFollowsDelivery == Spec => []CommissionOnlyIfProvisioned
<1>1. Init => CInv
  BY InitInv DEF CInv, NoTestInv, CommissionOnlyIfProvisioned, Init, Idle
<1>2. CInv => CommissionOnlyIfProvisioned
  BY DEF CInv
<1> QED BY <1>1, <1>2, CommissionStep, PTL DEF Spec

-----------------------------------------------------------------------------
(* The current row is live: a row belongs to one user, and whoever retires  *)
(* it replaces that user's current row in the same transaction.             *)

Owns(u, r) == r = u \/ (r \in Payments /\ tx[r].user = u)

RowInv ==
    /\ \A u \in Users : current[u] # None => Owns(u, current[u])
    /\ \A w \in Workers : worker[w].step \notin {"idle", "completed"} /\ worker[w].seen.row # None
                             => Owns(Buyer(w), worker[w].seen.row)

LInv == IInv /\ RowInv /\ CurrentRowIsLive

LEMMA OwnsIsFixed ==
    ASSUME IInv, [Next]_vars, NEW u \in Users, NEW r, Owns(u, r)
    PROVE  Owns(u, r)'
<1>1. r \in Payments /\ tx[r].user = u => tx[r].status # "NONE"
  BY PaymentsAssumption DEF IInv, BuyerInv
<1> QED BY <1>1, TermsAreFixed DEF Owns, SameTerms

LEMMA RowsFrame ==
    ASSUME [Next]_vars, <<rows, current>>' # <<rows, current>>
    PROVE  \E w \in Workers : CommitPurchase(w)
BY DEF Next, vars, CreatePaid, LoseInvoice, GrowOld, Settle, CreateFree, CancelOldTransactions,
       HandleReport, ConfirmFree, ProcessPayment, WorkerStep, ReadCurrent, OpenPurchase, CallPanel,
       PurchaseRaises, RecordCommission, MarkFailed, Crash

\* A step past the read keeps the row that was read, or has just read it.
LEMMA SeenFrame ==
    ASSUME IInv, [Next]_vars, NEW w \in Workers, worker'[w].step \notin {"idle", "completed"}
    PROVE  \/ /\ worker[w].step \notin {"idle", "completed"}
              /\ worker'[w].pay = worker[w].pay /\ worker'[w].seen = worker[w].seen
           \/ /\ worker[w].step = "completed" /\ UNCHANGED <<tx, current>>
              /\ worker'[w].pay = worker[w].pay
              /\ worker'[w].seen = CurrentOf(Buyer(w))
<1>1. worker \in [Workers -> WorkerType]
  BY DEF IInv, TypeOK
<1>2. CASE worker'[w] = worker[w]
  BY <1>2
<1>3. CASE ReadCurrent(w)
  BY <1>1, <1>3 DEF ReadCurrent, Finish, Idle, WorkerType
<1>4. CASE OpenPurchase(w) \/ CallPanel(w) \/ PurchaseRaises(w) \/ CommitPurchase(w)
  BY <1>1, <1>4 DEF OpenPurchase, CallPanel, PurchaseRaises, CommitPurchase, Goto, WorkerType
<1>5. CASE MarkFailed(w) \/ RecordCommission(w) \/ Crash(w)
  BY <1>1, <1>5 DEF MarkFailed, RecordCommission, Crash, Finish, Idle
<1>6. CASE \E p \in Payments, to \in Reports : ProcessPayment(w, p, to)
  BY <1>1, <1>6 DEF ProcessPayment, Idle
<1>7. ASSUME NEW v \in Workers \ {w}, \/ \E p \in Payments, to \in Reports : ProcessPayment(v, p, to)
                                      \/ WorkerStep(v) \/ Crash(v)
      PROVE  worker'[w] = worker[w]
  BY <1>1, <1>7
     DEF ProcessPayment, WorkerStep, ReadCurrent, OpenPurchase, CallPanel, PurchaseRaises,
         CommitPurchase, MarkFailed, RecordCommission, Crash, Goto, Finish
<1>8. CASE UNCHANGED worker
  BY <1>8
<1> QED BY <1>2, <1>3, <1>4, <1>5, <1>6, <1>7, <1>8
        DEF Next, vars, CreatePaid, LoseInvoice, GrowOld, Settle, CreateFree, CancelOldTransactions,
            HandleReport, ConfirmFree, Reports, WorkerStep

LEMMA RowStep == LInv /\ [Next]_vars => LInv'
<1> SUFFICES ASSUME LInv, [Next]_vars PROVE LInv' OBVIOUS
<1> USE DEF LInv
<1>1. IInv'
  BY StepInv
<1>2. ASSUME NEW w \in Workers, CommitPurchase(w)
      PROVE  /\ \A u \in Users : current'[u] # None => Owns(u, current'[u])
             /\ CurrentRowIsLive'
  <2> DEFINE p == worker[w].pay
             old == worker[w].seen.row
  <2>1. p \in Payments /\ Buyer(w) \in Users /\ Busy(w) /\ worker[w] \in WorkerType
    BY <1>2, BuyerIsUser DEF CommitPurchase, Busy, IInv, TypeOK
  <2>2. Owns(Buyer(w), p)
    BY <2>1 DEF Owns, Buyer
  <2>3. rows \in [Rows -> RowType] /\ current \in [Users -> Rows \cup {None}] /\ p \in Rows
    BY <2>1 DEF IInv, TypeOK, Rows
  <2>4. Fresh(w).live
    BY DEF Fresh
  <2>5. Branch(w) \in Types /\ WriteRows(w)
    BY <1>2, <2>1, BuyerIsUser DEF Branch, Types, TxType, CommitPurchase
  <2>6. CASE Branch(w) = "RENEW"
    <3>1. current' = current /\ \A r \in Rows : rows'[r].live = rows[r].live
      BY <2>3, <2>6, <1>2 DEF CommitPurchase, WriteRows, RowType
    <3> QED BY <2>3, <3>1 DEF RowInv, CurrentRowIsLive
  <2>7. CASE Branch(w) = "NEW"
    <3>1. /\ current' = [current EXCEPT ![Buyer(w)] = p]
          /\ rows' = [rows EXCEPT ![p] = Fresh(w)]
      BY <2>7, <1>2 DEF CommitPurchase, WriteRows
    <3> QED BY <2>1, <2>2, <2>3, <2>4, <3>1 DEF RowInv, CurrentRowIsLive
  <2>8. CASE Branch(w) = "CHANGE"
    <3>1. /\ current' = [current EXCEPT ![Buyer(w)] = p]
          /\ rows' = [rows EXCEPT ![old].live = FALSE, ![p] = Fresh(w)]
      BY <2>8, <1>2 DEF CommitPurchase, WriteRows
    <3>2. \A r \in Rows : rows'[r].live = IF r = p THEN TRUE ELSE IF r = old THEN FALSE ELSE rows[r].live
      BY <2>3, <2>4, <3>1 DEF RowType
    <3>3. old \in Rows => Owns(Buyer(w), old)
      BY <1>2, PaymentsAssumption DEF RowInv, CommitPurchase, Rows
    <3>4. ASSUME NEW u \in Users \ {Buyer(w)}, current[u] # None
          PROVE  current[u] # old \/ current[u] = p
      BY <2>1, <2>3, <3>3, <3>4, PaymentsAssumption DEF RowInv, Owns
    <3>5. \A u \in Users : current'[u] = IF u = Buyer(w) THEN p ELSE current[u]
      BY <2>3, <3>1
    <3>6. CurrentRowIsLive'
      <4> SUFFICES ASSUME NEW u \in Users, current'[u] # None PROVE rows'[current'[u]].live
        BY DEF CurrentRowIsLive
      <4>1. CASE u = Buyer(w)
        BY <2>3, <3>2, <3>5, <4>1
      <4>2. CASE u # Buyer(w)
        <5>1. current'[u] = current[u] /\ current[u] \in Rows /\ rows[current[u]].live
          BY <2>3, <3>5, <4>2 DEF CurrentRowIsLive
        <5>2. current[u] # old \/ current[u] = p
          BY <3>4, <4>2, <5>1
        <5> QED BY <3>2, <5>1, <5>2
      <4> QED BY <4>1, <4>2
    <3>7. \A u \in Users : current'[u] # None => Owns(u, current'[u])
      BY <2>1, <2>2, <2>3, <3>5 DEF RowInv
    <3> QED BY <3>6, <3>7
  <2> QED BY <2>5, <2>6, <2>7, <2>8 DEF Types
<1>3. /\ \A u \in Users : current'[u] # None => Owns(u, current'[u])
      /\ CurrentRowIsLive'
  <2>1. CASE UNCHANGED <<rows, current>>
    BY <2>1 DEF RowInv, CurrentRowIsLive
  <2> QED BY <2>1, <1>2, RowsFrame
<1>4. \A u \in Users : (current[u] # None => Owns(u, current[u]))'
  BY <1>3, OwnsIsFixed DEF Owns
<1>5. ASSUME NEW w \in Workers, worker'[w].step \notin {"idle", "completed"},
             worker'[w].seen.row # None
      PROVE  Owns(Buyer(w), worker[w].seen.row)'
  <2>1. worker[w].pay \in Payments /\ Buyer(w) \in Users /\ tx[worker[w].pay].status # "NONE"
    BY <1>5, SeenFrame, BuyerIsUser DEF Busy, IInv, OwnerInv
  <2>2. Buyer(w)' = Buyer(w)
    BY <2>1, <1>5, SeenFrame, TermsAreFixed DEF Buyer, SameTerms
  <2>3. Owns(Buyer(w), worker'[w].seen.row)
    <3>1. CASE /\ worker[w].step \notin {"idle", "completed"}
               /\ worker'[w].seen = worker[w].seen
      BY <1>5, <3>1 DEF RowInv
    <3>2. CASE worker'[w].seen = CurrentOf(Buyer(w))
      BY <2>1, <1>5, <3>2 DEF RowInv, CurrentOf, NoSub
    <3> QED BY <1>5, <3>1, <3>2, SeenFrame
  <2> QED BY <2>1, <2>2, <2>3, OwnsIsFixed DEF Owns
<1>6. RowInv'
  BY <1>4, <1>5 DEF RowInv
<1> QED BY <1>1, <1>3, <1>6

LEMMA RowInit == Init => LInv
<1> SUFFICES ASSUME Init PROVE RowInv /\ CurrentRowIsLive
  BY InitInv DEF LInv
<1>1. PICK old \in [Users -> {NoRow} \cup Held] :
        /\ rows = [r \in Rows |-> IF r \in Users THEN old[r] ELSE NoRow]
        /\ current = [u \in Users |-> IF old[u].live THEN u ELSE None]
  BY DEF Init
<1>2. RowInv
  BY <1>1 DEF RowInv, Owns, Init, Idle
<1>3. \A u \in Users : current[u] # None => current[u] = u /\ rows[u].live
  BY <1>1 DEF Rows
<1> QED BY <1>2, <1>3 DEF CurrentRowIsLive

\* users.current_subscription_id never names a retired row, for any number of
\* overlapping purchases that act on rows read earlier.
THEOREM CurrentRowStaysLive == Spec => []CurrentRowIsLive
<1>1. LInv => CurrentRowIsLive
  BY DEF LInv
<1> QED BY <1>1, RowInit, RowStep, PTL DEF Spec

-----------------------------------------------------------------------------
(* Payments implements Fulfilment.                                          *)

LEMMA PhaseIsFixed ==
    ASSUME IInv, [Next]_vars, UNCHANGED grants,
           \A p \in Payments : \/ tx'[p].status = tx[p].status
                               \/ tx[p].status \in {"NONE", "PENDING"}
                                  /\ tx'[p].status \in {"PENDING", "CANCELED"}
                               \/ tx[p].status = "COMPLETED" /\ tx'[p].status = "REFUNDED"
    PROVE  Phase' = Phase
<1>1. \A p \in Payments : Phase'[p] = Phase[p]
  BY DEF Phase, IInv, GrantInv, DeliveredStaysCompleted
<1> QED BY <1>1 DEF Phase

\* One payment moves from one phase to another: a step of the abstract module.
LEMMA PhaseMoves ==
    ASSUME NEW p \in Payments, NEW new, Phase'[p] = new,
           \A q \in Payments \ {p} : Phase'[q] = Phase[q]
    PROVE  Phase' = [Phase EXCEPT ![p] = new]
<1>1. Phase' = [q \in Payments |-> Phase'[q]] /\ DOMAIN Phase = Payments
  BY DEF Phase
<1>2. \A q \in Payments : Phase'[q] = [Phase EXCEPT ![p] = new][q]
  BY <1>1
<1>3. [Phase EXCEPT ![p] = new] = [q \in Payments |-> [Phase EXCEPT ![p] = new][q]]
  BY <1>1
<1> HIDE DEF Phase
<1> QED BY <1>1, <1>2, <1>3

LEMMA ProcessPaymentRefines ==
    ASSUME IInv, [Next]_vars, NEW w \in Workers, NEW p \in Payments, NEW to \in Reports,
           ProcessPayment(w, p, to)
    PROVE  [F!Next]_Phase
<1>1. UNCHANGED grants /\ tx \in [Payments -> TxType]
  BY DEF ProcessPayment, IInv, TypeOK
<1>2. CASE tx[p].status \notin AllowedFrom(to)
  BY <1>1, <1>2, PhaseIsFixed DEF ProcessPayment, TransitionStatus
<1>3. CASE tx[p].status \in AllowedFrom(to)
  <2>1. /\ tx'[p].status = to
        /\ \A q \in Payments \ {p} : tx'[q] = tx[q]
    BY <1>1, <1>3 DEF ProcessPayment, TransitionStatus, TxType
  <2>2. CASE to = "COMPLETED"
    <3>1. tx[p].status \in {"PENDING", "FAILED"} /\ grants[p] = 0
      BY <1>3, <2>2 DEF AllowedFrom, IInv, GrantInv, DeliveredStaysCompleted, TypeOK
    <3>2. Phase[p] \in {"open", "failed"} /\ Phase'[p] = "owed"
      BY <1>1, <2>1, <2>2, <3>1 DEF Phase
    <3>3. \A q \in Payments \ {p} : Phase'[q] = Phase[q]
      BY <1>1, <2>1 DEF Phase
    <3>4. F!Owe(p)
      BY <3>2, <3>3, PhaseMoves DEF F!Owe
    <3> QED BY <3>4 DEF F!Next
  <2>3. CASE to # "COMPLETED"
    <3>1. \/ tx[p].status = "PENDING" /\ to = "CANCELED"
          \/ tx[p].status = "COMPLETED" /\ to = "REFUNDED"
      BY <1>3, <2>3 DEF AllowedFrom, Reports
    <3> QED BY <1>1, <2>1, <3>1, PhaseIsFixed
  <2> QED BY <2>2, <2>3
<1> QED BY <1>2, <1>3

LEMMA CommitPurchaseRefines ==
    ASSUME IInv, NEW w \in Workers, CommitPurchase(w)
    PROVE  [F!Next]_Phase
<1> DEFINE p == worker[w].pay
<1>1. p \in Payments /\ grants[p] = 0 /\ tx[p].status \in {"COMPLETED", "REFUNDED"}
  BY DEF CommitPurchase, Busy, IInv, OwnerInv
<1>2. UNCHANGED tx /\ \A q \in Payments : grants'[q] = IF q = p THEN 1 ELSE grants[q]
  BY <1>1 DEF CommitPurchase, IInv, TypeOK
<1>3. Phase[p] = "owed" /\ Phase'[p] = "delivered"
  BY <1>1, <1>2 DEF Phase
<1>4. \A q \in Payments \ {p} : Phase'[q] = Phase[q]
  BY <1>2 DEF Phase
<1>5. F!Deliver(p)
  BY <1>1, <1>3, <1>4, PhaseMoves DEF F!Deliver
<1> QED BY <1>1, <1>5 DEF F!Next

LEMMA MarkFailedRefines ==
    ASSUME IInv, NEW w \in Workers, MarkFailed(w)
    PROVE  [F!Next]_Phase
<1> DEFINE p == worker[w].pay
<1>1. p \in Payments /\ grants[p] = 0 /\ tx[p].status \in {"COMPLETED", "REFUNDED"}
  BY DEF MarkFailed, Busy, IInv, OwnerInv
<1>2. /\ UNCHANGED grants /\ tx'[p].status = "FAILED"
      /\ \A q \in Payments \ {p} : tx'[q] = tx[q]
  BY <1>1 DEF MarkFailed, IInv, TypeOK, TxType
<1>3. Phase[p] = "owed" /\ Phase'[p] = "failed"
  BY <1>1, <1>2 DEF Phase
<1>4. \A q \in Payments \ {p} : Phase'[q] = Phase[q]
  BY <1>2 DEF Phase
<1>5. F!Fail(p)
  BY <1>1, <1>3, <1>4, PhaseMoves DEF F!Fail
<1> QED BY <1>1, <1>5 DEF F!Next

\* The paid path implements Fulfilment: a payment is owed, then delivered once
\* and for good or marked failed, whatever the workers, the PSP and the panel do.
THEOREM Implements == Spec => Fulfils
<1>1. Init => F!Init
  BY DEF Init, F!Init, Phase, NoTx
<1>2. IInv /\ [Next]_vars => [F!Next]_Phase
  <2> SUFFICES ASSUME IInv, [Next]_vars PROVE [F!Next]_Phase OBVIOUS
  <2>1. CASE InvoiceStep
    <3>1. UNCHANGED grants
      BY <2>1 DEF InvoiceStep, CreatePaid, LoseInvoice, GrowOld, Settle, CreateFree,
                  CancelOldTransactions
    <3> QED BY <2>1, <3>1, InvoiceStepTx, PhaseIsFixed DEF IInv
  <2>2. ASSUME NEW w \in Workers, NEW p \in Payments, NEW to \in Reports, ProcessPayment(w, p, to)
        PROVE  [F!Next]_Phase
    BY <2>2, ProcessPaymentRefines
  <2>3. ASSUME NEW w \in Workers, WorkerStep(w) \/ Crash(w)
        PROVE  [F!Next]_Phase
    <3>1. CASE UNCHANGED <<tx, grants>>
      BY <3>1, PhaseIsFixed
    <3> QED BY <2>3, <3>1, CommitPurchaseRefines, MarkFailedRefines
            DEF WorkerStep, ReadCurrent, OpenPurchase, CallPanel, PurchaseRaises,
                RecordCommission, Crash
  <2>4. CASE UNCHANGED vars
    BY <2>4, PhaseIsFixed DEF vars
  <2> QED BY <2>1, <2>2, <2>3, <2>4 DEF Next, InvoiceStep, HandleReport, ConfirmFree, Reports
<1> QED BY <1>1, <1>2, Invariance, PTL DEF Spec, F!Spec, Fulfils

-----------------------------------------------------------------------------
(* A user of whom no purchase overtook another: the panel and the database  *)
(* settle, and terms stack, however many purchases are under way.           *)

\* What the purchase read is still so.
SeenNow == \A w \in Workers :
    worker[w].step \in {"purchase", "panel", "commit"} /\ Buyer(w) \notin raced
        => worker[w].seen = CurrentOf(Buyer(w))

TargetNow == \A w \in Workers :
    worker[w].step \in {"panel", "commit"} /\ Branch(w) # "NEW" =>
        /\ worker[w].seen.row # None
        /\ Branch(w) = "RENEW" => worker[w].target = MaxOf(worker[w].seen.expire, Now) + Term

PanelNow == \A w \in Workers :
    worker[w].step = "commit" /\ Buyer(w) \notin raced
        => panel[Buyer(w)].expire = worker[w].target

Agrees(u) == current[u] # None => rows[current[u]].expire = panel[u].expire

\* The purchase of the payment is under way, or failed and waits for a retry.
Settling(q) ==
    \/ tx[q].status = "FAILED"
    \/ \E w \in Workers : worker[w].pay = q /\ worker[w].step \notin {"idle", "reward"}

Unsettled(u) ==
    \/ crashes > 0
    \/ \E q \in Payments : tx[q].user = u /\ ~tx[q].test /\ Settling(q)

AgreeInv == \A u \in Users \ raced : Agrees(u) \/ Unsettled(u)

SInv == CInv /\ LInv /\ SeenNow /\ TargetNow /\ PanelNow /\ AgreeInv

LEMMA StepFrame ==
    ASSUME IInv, [Next]_vars, NEW w \in Workers
    PROVE  \/ worker'[w] = worker[w]
           \/ worker'[w].step \in {"idle", "completed", "failed", "reward"}
           \/ ReadCurrent(w) \/ OpenPurchase(w) \/ CallPanel(w)
<1>1. worker \in [Workers -> WorkerType]
  BY DEF IInv, TypeOK
<1>2. CASE UNCHANGED worker
  BY <1>2
<1>3. ASSUME NEW v \in Workers, \/ \E p \in Payments, to \in Reports : ProcessPayment(v, p, to)
                                \/ WorkerStep(v) \/ Crash(v)
      PROVE  \/ worker'[w] = worker[w]
             \/ worker'[w].step \in {"idle", "completed", "failed", "reward"}
             \/ ReadCurrent(w) \/ OpenPurchase(w) \/ CallPanel(w)
  <2>1. CASE v # w
    BY <1>1, <1>3, <2>1
       DEF ProcessPayment, WorkerStep, ReadCurrent, OpenPurchase, CallPanel, PurchaseRaises,
           CommitPurchase, MarkFailed, RecordCommission, Crash, Goto, Finish
  <2>2. CASE v = w
    <3>1. CASE \E p \in Payments, to \in Reports : ProcessPayment(v, p, to)
      BY <1>1, <2>2, <3>1 DEF ProcessPayment, Idle
    <3>2. CASE PurchaseRaises(v) \/ CommitPurchase(v)
      BY <1>1, <2>2, <3>2 DEF PurchaseRaises, CommitPurchase, Goto, WorkerType
    <3>3. CASE MarkFailed(v) \/ RecordCommission(v) \/ Crash(v)
      BY <1>1, <2>2, <3>3 DEF MarkFailed, RecordCommission, Crash, Finish, Idle
    <3> QED BY <1>3, <2>2, <3>1, <3>2, <3>3 DEF WorkerStep
  <2> QED BY <2>1, <2>2
<1> QED BY <1>2, <1>3
        DEF Next, vars, CreatePaid, LoseInvoice, GrowOld, Settle, CreateFree, CancelOldTransactions,
            HandleReport, ConfirmFree, Reports

\* A busy worker has a buyer and a branch that do not change.
LEMMA BuyerIsFixed ==
    ASSUME IInv, [Next]_vars, NEW w \in Workers, Busy(w), worker'[w].pay = worker[w].pay
    PROVE  /\ Buyer(w)' = Buyer(w) /\ Buyer(w) \in Users /\ worker[w].pay \in Payments
           /\ worker'[w].seen = worker[w].seen => Branch(w)' = Branch(w)
<1>1. worker[w].pay \in Payments /\ tx[worker[w].pay].status # "NONE"
  BY DEF IInv, OwnerInv
<1>2. SameTerms(tx[worker[w].pay], tx'[worker[w].pay])
  BY <1>1, TermsAreFixed
<1> QED BY <1>1, <1>2, BuyerIsUser DEF Buyer, Branch, SameTerms

\* Users are marked for good.
LEMMA RacedGrows == ASSUME [Next]_vars PROVE raced \subseteq raced'
BY DEF Next, vars, CreatePaid, LoseInvoice, GrowOld, Settle, CreateFree, CancelOldTransactions,
       HandleReport, ConfirmFree, ProcessPayment, WorkerStep, ReadCurrent, OpenPurchase,
       CallPanel, CommitPurchase, PurchaseRaises, RecordCommission, MarkFailed, Crash, Overtakes

\* A purchase that commits makes the buyer's current row expire when the panel's user
\* does, and touches nobody else's.
LEMMA CommitEffect ==
    ASSUME SInv, NEW w \in Workers, CommitPurchase(w)
    PROVE  /\ Buyer(w) \notin raced =>
                 /\ current'[Buyer(w)] # None
                 /\ rows'[current'[Buyer(w)]].expire = worker[w].target
           /\ \A u \in Users \ {Buyer(w)} :
                 /\ current'[u] = current[u]
                 /\ current[u] # None => rows'[current[u]] = rows[current[u]]
<1> DEFINE p == worker[w].pay
           old == worker[w].seen.row
<1> USE PaymentsAssumption
<1>0. IInv /\ RowInv /\ SeenNow /\ TargetNow
  BY DEF SInv, LInv
<1>1. p \in Payments /\ Buyer(w) \in Users /\ Busy(w) /\ worker[w] \in WorkerType
  BY <1>0, BuyerIsUser DEF CommitPurchase, Busy, IInv, TypeOK
<1>2. rows \in [Rows -> RowType] /\ current \in [Users -> Rows \cup {None}] /\ p \in Rows /\ p # None
  BY <1>0, <1>1 DEF IInv, TypeOK, Rows
<1>3. Fresh(w).expire = worker[w].target
  BY DEF Fresh
<1>4. Branch(w) \in Types /\ WriteRows(w) /\ worker[w].step = "commit"
  BY <1>0, <1>1, BuyerIsUser DEF Branch, Types, TxType, CommitPurchase
<1>5. \A u \in Users \ {Buyer(w)} : current[u] # None => current[u] # p /\ current[u] # old
  <2> SUFFICES ASSUME NEW u \in Users \ {Buyer(w)}, current[u] # None
               PROVE  current[u] # p /\ current[u] # old
    OBVIOUS
  <2>1. Owns(u, current[u])
    BY <1>0 DEF RowInv
  <2>2. current[u] # p
    BY <2>1, <1>1 DEF Owns, Buyer
  <2>3. old = None \/ Owns(Buyer(w), old)
    BY <1>0, <1>4 DEF RowInv
  <2>4. current[u] # old
    BY <1>1, <2>1, <2>3 DEF Owns
  <2> QED BY <2>2, <2>4
<1>6. CASE Branch(w) = "RENEW"
  <2>1. current' = current /\ rows' = [rows EXCEPT ![old].expire = worker[w].target]
    BY <1>4, <1>6 DEF WriteRows
  <2>2. \A r \in Rows \ {old} : rows'[r] = rows[r]
    BY <1>2, <2>1
  <2>3. ASSUME Buyer(w) \notin raced
        PROVE  current'[Buyer(w)] # None /\ rows'[current'[Buyer(w)]].expire = worker[w].target
    <3>1. old # None /\ worker[w].seen = CurrentOf(Buyer(w))
      BY <1>0, <1>4, <1>6, <2>3 DEF SeenNow, TargetNow
    <3>2. current[Buyer(w)] = old
      BY <3>1 DEF CurrentOf, NoSub
    <3>3. old \in Rows
      BY <1>1, <1>2, <3>1, <3>2
    <3>4. rows'[old].expire = worker[w].target
      BY <1>2, <2>1, <3>3 DEF RowType
    <3> QED BY <2>1, <3>1, <3>2, <3>4
  <2> QED BY <1>2, <1>5, <2>1, <2>2, <2>3
<1>7. CASE Branch(w) = "NEW"
  <2>1. /\ current' = [current EXCEPT ![Buyer(w)] = p]
        /\ rows' = [rows EXCEPT ![p] = Fresh(w)]
    BY <1>4, <1>7 DEF WriteRows
  <2> QED BY <1>1, <1>2, <1>3, <1>5, <2>1
<1>8. CASE Branch(w) = "CHANGE"
  <2>1. /\ current' = [current EXCEPT ![Buyer(w)] = p]
        /\ rows' = [rows EXCEPT ![old].live = FALSE, ![p] = Fresh(w)]
    BY <1>4, <1>8 DEF WriteRows
  <2>2. rows'[p] = Fresh(w) /\ \A r \in Rows \ {p, old} : rows'[r] = rows[r]
    BY <1>2, <2>1
  <2> QED BY <1>1, <1>2, <1>3, <1>5, <2>1, <2>2
<1> QED BY <1>4, <1>6, <1>7, <1>8 DEF Types

LEMMA PanelFrame ==
    ASSUME [Next]_vars, panel' # panel
    PROVE  \E w \in Workers : CallPanel(w)
BY DEF Next, vars, CreatePaid, LoseInvoice, GrowOld, Settle, CreateFree, CancelOldTransactions,
       HandleReport, ConfirmFree, ProcessPayment, WorkerStep, ReadCurrent, OpenPurchase,
       CommitPurchase, PurchaseRaises, RecordCommission, MarkFailed, Crash

\* What a worker that stands still has read stays so: who else commits has another buyer.
LEMMA StillSeen ==
    ASSUME SInv, [Next]_vars, NEW w \in Workers, worker'[w] = worker[w],
           worker[w].step \in {"purchase", "panel", "commit"}, Buyer(w) \notin raced'
    PROVE  CurrentOf(Buyer(w))' = CurrentOf(Buyer(w))
<1>1. IInv /\ Busy(w)
  BY DEF SInv, LInv, Busy
<1>2. Buyer(w)' = Buyer(w) /\ Buyer(w) \in Users
  BY <1>1, BuyerIsFixed
<1>3. CASE UNCHANGED <<rows, current>>
  BY <1>2, <1>3 DEF CurrentOf
<1>4. ASSUME NEW v \in Workers, CommitPurchase(v)
      PROVE  CurrentOf(Buyer(w))' = CurrentOf(Buyer(w))
  <2>1. worker'[v].step = "reward" /\ worker[v].step = "commit"
    BY <1>1, <1>4 DEF CommitPurchase, Goto, IInv, TypeOK, WorkerType
  <2>2. v # w
    BY <2>1
  <2>3. Buyer(v) # Buyer(w)
    BY <1>4, <2>2 DEF CommitPurchase, Overtakes
  <2>4. /\ current'[Buyer(w)] = current[Buyer(w)]
        /\ current[Buyer(w)] # None => rows'[current[Buyer(w)]] = rows[current[Buyer(w)]]
    BY <1>2, <1>4, <2>3, CommitEffect
  <2> QED BY <1>2, <2>4 DEF CurrentOf
<1> QED BY <1>3, <1>4, RowsFrame

LEMMA SeenStep == SInv /\ [Next]_vars => SeenNow'
<1> SUFFICES ASSUME SInv, [Next]_vars, NEW w \in Workers, Buyer(w)' \notin raced',
                    worker'[w].step \in {"purchase", "panel", "commit"}
             PROVE  worker'[w].seen = CurrentOf(Buyer(w))'
  BY DEF SeenNow
<1>1. IInv /\ SeenNow
  BY DEF SInv, LInv
<1>2. worker[w] \in WorkerType
  BY <1>1 DEF IInv, TypeOK
<1>3. CASE worker'[w] = worker[w]
  <2>1. Buyer(w)' = Buyer(w)
    BY <1>1, <1>3, BuyerIsFixed DEF Busy
  <2>2. worker[w].seen = CurrentOf(Buyer(w))
    BY <1>1, <1>3, <2>1, RacedGrows DEF SeenNow
  <2> QED BY <1>3, <2>1, <2>2, StillSeen
<1>4. CASE ReadCurrent(w)
  <2>1. worker' = [worker EXCEPT ![w].step = "purchase", ![w].seen = CurrentOf(Buyer(w))]
    BY <1>1, <1>4 DEF ReadCurrent, Finish, Idle, IInv, TypeOK
  <2>2. worker'[w].pay = worker[w].pay /\ worker'[w].seen = CurrentOf(Buyer(w))
    BY <1>1, <1>2, <2>1 DEF IInv, TypeOK, WorkerType
  <2> QED BY <1>4, <2>2 DEF ReadCurrent, CurrentOf, Buyer
<1>5. CASE OpenPurchase(w) \/ CallPanel(w)
  <2>2. worker'[w].pay = worker[w].pay /\ worker'[w].seen = worker[w].seen
    BY <1>1, <1>2, <1>5 DEF OpenPurchase, CallPanel, Goto, IInv, TypeOK, WorkerType
  <2>3. Buyer(w)' = Buyer(w)
    BY <1>1, <1>5, <2>2, BuyerIsFixed DEF Busy, OpenPurchase, CallPanel
  <2>1. worker[w].seen = CurrentOf(Buyer(w))
    BY <1>1, <1>5, <2>3, RacedGrows DEF SeenNow, OpenPurchase, CallPanel
  <2> QED BY <1>5, <2>1, <2>2 DEF OpenPurchase, CallPanel, CurrentOf, Buyer
<1> QED BY <1>1, <1>3, <1>4, <1>5, StepFrame

LEMMA TargetStep == SInv /\ [Next]_vars => TargetNow'
<1> SUFFICES ASSUME SInv, [Next]_vars, NEW w \in Workers,
                    worker'[w].step \in {"panel", "commit"}, Branch(w)' # "NEW"
             PROVE  /\ worker'[w].seen.row # None
                    /\ Branch(w)' = "RENEW" =>
                          worker'[w].target = MaxOf(worker'[w].seen.expire, Now) + Term
  BY DEF TargetNow, MaxOf
<1>1. IInv /\ TargetNow
  BY DEF SInv, LInv
<1>2. worker[w] \in WorkerType
  BY <1>1 DEF IInv, TypeOK
<1>3. CASE worker'[w] = worker[w]
  <2>1. Branch(w)' = Branch(w)
    BY <1>1, <1>3, BuyerIsFixed DEF Busy
  <2> QED BY <1>1, <1>3, <2>1 DEF TargetNow
<1>4. CASE ReadCurrent(w)
  BY <1>1, <1>2, <1>4 DEF ReadCurrent, Finish, Idle, IInv, TypeOK, WorkerType
<1>5. CASE OpenPurchase(w)
  <2>1. PICK t \in Targets(w) : worker' = [worker EXCEPT ![w].step = "panel", ![w].target = t]
    BY <1>1, <1>2, <1>5 DEF OpenPurchase, Goto, IInv, TypeOK, WorkerType
  <2>2. /\ worker'[w].pay = worker[w].pay /\ worker'[w].seen = worker[w].seen
        /\ worker'[w].target = t
    BY <1>1, <1>2, <2>1 DEF IInv, TypeOK, WorkerType
  <2>3. Branch(w)' = Branch(w)
    BY <1>1, <1>5, <2>2, BuyerIsFixed DEF Busy, OpenPurchase
  <2>4. worker[w].seen.row # None
    <3>1. ~Goto(w, "failed")
      BY <1>1, <1>2 DEF Goto, IInv, TypeOK, WorkerType
    <3> QED BY <1>5, <2>3, <3>1 DEF OpenPurchase
  <2> QED BY <2>1, <2>2, <2>3, <2>4 DEF Targets
<1>6. CASE CallPanel(w)
  <2>1. /\ worker'[w].pay = worker[w].pay /\ worker'[w].seen = worker[w].seen
        /\ worker'[w].target = worker[w].target
    BY <1>1, <1>2, <1>6 DEF CallPanel, Goto, IInv, TypeOK, WorkerType
  <2>2. Branch(w)' = Branch(w)
    BY <1>1, <1>6, <2>1, BuyerIsFixed DEF Busy, CallPanel
  <2> QED BY <1>1, <1>6, <2>1, <2>2 DEF TargetNow, CallPanel
<1> QED BY <1>1, <1>3, <1>4, <1>5, <1>6, StepFrame

LEMMA PanelStep == SInv /\ [Next]_vars => PanelNow'
<1> SUFFICES ASSUME SInv, [Next]_vars, NEW w \in Workers, worker'[w].step = "commit",
                    Buyer(w)' \notin raced'
             PROVE  panel'[Buyer(w)'].expire = worker'[w].target
  BY DEF PanelNow
<1>1. IInv /\ PanelNow
  BY DEF SInv, LInv
<1>2. worker[w] \in WorkerType /\ panel \in [Users -> [exists : BOOLEAN, expire : Nat]]
  BY <1>1 DEF IInv, TypeOK
<1>3. CASE worker'[w] = worker[w]
  <2>1. Buyer(w)' = Buyer(w) /\ Buyer(w) \in Users /\ Busy(w)
    BY <1>1, <1>3, BuyerIsFixed DEF Busy
  <2>2. panel[Buyer(w)].expire = worker[w].target
    BY <1>1, <1>3, <2>1, RacedGrows DEF PanelNow
  <2>3. ASSUME NEW v \in Workers, CallPanel(v) PROVE panel'[Buyer(w)] = panel[Buyer(w)]
    <3>1. v # w
      BY <1>3, <2>3 DEF CallPanel
    <3>2. Buyer(v) # Buyer(w)
      BY <1>3, <2>1, <2>3, <3>1 DEF CallPanel, Overtakes
    <3> QED BY <1>2, <2>1, <2>3, <3>2 DEF CallPanel
  <2>4. panel'[Buyer(w)] = panel[Buyer(w)]
    BY <2>3, PanelFrame
  <2> QED BY <1>3, <2>1, <2>2, <2>4
<1>4. CASE ReadCurrent(w) \/ OpenPurchase(w)
  BY <1>1, <1>2, <1>4 DEF ReadCurrent, OpenPurchase, Goto, Finish, Idle, IInv, TypeOK, WorkerType
<1>5. CASE CallPanel(w)
  <2>1. worker'[w].pay = worker[w].pay /\ worker'[w].target = worker[w].target
    BY <1>1, <1>2, <1>5 DEF CallPanel, Goto, IInv, TypeOK, WorkerType
  <2>2. Buyer(w)' = Buyer(w) /\ Buyer(w) \in Users
    BY <1>1, <1>5, <2>1, BuyerIsFixed DEF Busy, CallPanel
  <2> QED BY <1>2, <1>5, <2>1, <2>2 DEF CallPanel
<1> QED BY <1>1, <1>3, <1>4, <1>5, StepFrame

\* A purchase under way stays so until it commits, its failure is recorded or the process
\* dies; a failed one until a report takes it up again.
LEMMA SettlingStep ==
    ASSUME SInv, [Next]_vars, NEW q \in Payments, tx[q].user \in Users, ~tx[q].test, Settling(q),
           \A w \in Workers : CommitPurchase(w) => worker[w].pay # q
    PROVE  Settling(q)' \/ crashes' > 0
<1>1. IInv /\ NoTestInv
  BY DEF SInv, LInv, CInv
<1>2. worker \in [Workers -> WorkerType] /\ tx \in [Payments -> TxType] /\ crashes \in Nat
  BY <1>1, PaymentsAssumption DEF IInv, TypeOK
<1>3. CASE InvoiceStep
  <2>1. worker' = worker
    BY <1>3 DEF InvoiceStep, CreatePaid, LoseInvoice, GrowOld, Settle, CreateFree,
                CancelOldTransactions
  <2>2. tx[q].status = "FAILED" => tx'[q].status = "FAILED"
    BY <1>1, <1>3, InvoiceStepTx DEF IInv
  <2> QED BY <2>1, <2>2 DEF Settling
<1>4. ASSUME NEW v \in Workers, NEW p \in Payments, NEW to \in Reports, ProcessPayment(v, p, to)
      PROVE  Settling(q)'
  <2>1. \A w \in Workers \ {v} : worker'[w] = worker[w]
    BY <1>2, <1>4 DEF ProcessPayment
  <2>2. ASSUME NEW w \in Workers, worker[w].pay = q, worker[w].step \notin {"idle", "reward"}
        PROVE  Settling(q)'
    BY <1>4, <2>1, <2>2 DEF Settling, ProcessPayment
  <2>3. CASE tx[q].status = "FAILED"
    <3>1. CASE p = q /\ tx[p].status \in AllowedFrom(to)
      <4>1. to = "COMPLETED"
        BY <2>3, <3>1 DEF AllowedFrom, Reports
      <4>2. worker'[v].pay = q /\ worker'[v].step = "completed"
        BY <1>2, <1>4, <3>1, <4>1 DEF ProcessPayment, Idle
      <4> QED BY <4>2 DEF Settling
    <3>2. CASE ~(p = q /\ tx[p].status \in AllowedFrom(to))
      <4>1. tx'[q] = tx[q]
        BY <1>2, <1>4, <3>2 DEF ProcessPayment, TransitionStatus
      <4> QED BY <2>3, <4>1 DEF Settling
    <3> QED BY <3>1, <3>2
  <2> QED BY <2>2, <2>3 DEF Settling
<1>5. ASSUME NEW v \in Workers, WorkerStep(v)
      PROVE  Settling(q)'
  <2>1. CASE tx[q].status = "FAILED"
    <3>1. tx' = tx \/ tx' = [tx EXCEPT ![worker[v].pay].status = "FAILED"]
      BY <1>5 DEF WorkerStep, ReadCurrent, OpenPurchase, CallPanel, PurchaseRaises, CommitPurchase,
                  MarkFailed, RecordCommission
    <3>2. tx'[q].status = "FAILED"
      BY <1>2, <2>1, <3>1 DEF TxType
    <3> QED BY <3>2 DEF Settling
  <2>2. ASSUME NEW w \in Workers \ {v}, worker[w].pay = q, worker[w].step \notin {"idle", "reward"}
        PROVE  Settling(q)'
    <3>1. worker'[w] = worker[w]
      BY <1>2, <1>5 DEF WorkerStep, ReadCurrent, OpenPurchase, CallPanel, PurchaseRaises,
                        CommitPurchase, MarkFailed, RecordCommission, Goto, Finish
    <3> QED BY <2>2, <3>1 DEF Settling
  <2>3. CASE worker[v].pay = q /\ worker[v].step \notin {"idle", "reward"}
    <3>1. CASE MarkFailed(v)
      <4>1. tx'[q].status = "FAILED"
        BY <1>2, <2>3, <3>1 DEF MarkFailed, TxType
      <4> QED BY <4>1 DEF Settling
    <3>2. CASE ReadCurrent(v)
      <4>1. worker'[v].step = "purchase" /\ worker'[v].pay = q
        BY <1>2, <2>3, <3>2 DEF ReadCurrent, WorkerType
      <4> QED BY <4>1 DEF Settling
    <3>3. CASE OpenPurchase(v) \/ CallPanel(v) \/ PurchaseRaises(v)
      <4>1. worker'[v].step \in {"panel", "commit", "failed"} /\ worker'[v].pay = q
        BY <1>2, <2>3, <3>3 DEF OpenPurchase, CallPanel, PurchaseRaises, Goto, WorkerType
      <4> QED BY <4>1 DEF Settling
    <3>4. ~CommitPurchase(v)
      BY <2>3
    <3> QED BY <1>5, <2>3, <3>1, <3>2, <3>3, <3>4 DEF WorkerStep, RecordCommission
  <2> QED BY <2>1, <2>2, <2>3 DEF Settling
<1>6. ASSUME NEW v \in Workers, Crash(v) PROVE crashes' > 0
  BY <1>2, <1>6 DEF Crash
<1>7. CASE UNCHANGED vars
  BY <1>7 DEF vars, Settling
<1> QED BY <1>3, <1>4, <1>5, <1>6, <1>7 DEF Next, InvoiceStep, HandleReport, ConfirmFree, Reports

LEMMA AgreeStep == SInv /\ [Next]_vars => AgreeInv'
<1> SUFFICES ASSUME SInv, [Next]_vars, NEW u \in Users \ raced, u \notin raced'
             PROVE  Agrees(u)' \/ Unsettled(u)'
  BY RacedGrows DEF AgreeInv
<1>1. IInv /\ NoTestInv /\ PanelNow /\ AgreeInv
  BY DEF SInv, LInv, CInv
<1>2. worker \in [Workers -> WorkerType] /\ crashes \in Nat
      /\ panel \in [Users -> [exists : BOOLEAN, expire : Nat]]
  BY <1>1, PaymentsAssumption DEF IInv, TypeOK
<1>3. CASE \E w \in Workers : CallPanel(w) /\ Buyer(w) = u
  <2>1. PICK w \in Workers : CallPanel(w) /\ Buyer(w) = u
    BY <1>3
  <2>2. PICK q \in Payments : q = worker[w].pay
    BY <1>1, <2>1, BuyerIsUser DEF CallPanel, Busy
  <2>3. tx'[q].user = u /\ ~tx'[q].test
    BY <1>1, <2>1, <2>2 DEF CallPanel, Buyer, NoTestInv
  <2>4. worker'[w].pay = q /\ worker'[w].step \in {"commit", "failed"}
    BY <1>2, <2>1, <2>2 DEF CallPanel, Goto, WorkerType
  <2>5. Settling(q)'
    BY <2>4 DEF Settling
  <2> QED BY <2>3, <2>5 DEF Unsettled
<1>4. CASE \E w \in Workers : CommitPurchase(w) /\ Buyer(w) = u
  <2>1. PICK w \in Workers : CommitPurchase(w) /\ Buyer(w) = u
    BY <1>4
  <2>2. panel[u].expire = worker[w].target /\ panel' = panel
    BY <1>1, <2>1 DEF PanelNow, CommitPurchase
  <2>3. rows'[current'[u]].expire = worker[w].target
    BY <2>1, CommitEffect
  <2> QED BY <2>2, <2>3 DEF Agrees
<1>5. CASE /\ \A w \in Workers : CallPanel(w) => Buyer(w) # u
           /\ \A w \in Workers : CommitPurchase(w) => Buyer(w) # u
  <2>1. panel'[u] = panel[u]
    BY <1>2, <1>5, PanelFrame DEF CallPanel
  <2>2. current'[u] = current[u] /\ (current[u] # None => rows'[current[u]] = rows[current[u]])
    <3>1. CASE UNCHANGED <<rows, current>>
      BY <3>1
    <3>2. ASSUME NEW w \in Workers, CommitPurchase(w)
          PROVE  current'[u] = current[u] /\ (current[u] # None => rows'[current[u]] = rows[current[u]])
      BY <1>5, <3>2, CommitEffect
    <3> QED BY <3>1, <3>2, RowsFrame
  <2>3. CASE Agrees(u)
    BY <2>1, <2>2, <2>3 DEF Agrees
  <2>4. CASE crashes > 0
    <3>1. crashes' = crashes \/ crashes' = crashes + 1
      BY DEF Next, vars, CreatePaid, LoseInvoice, GrowOld, Settle, CreateFree,
             CancelOldTransactions, HandleReport, ConfirmFree, ProcessPayment, WorkerStep,
             ReadCurrent, OpenPurchase, CallPanel, CommitPurchase, PurchaseRaises,
             RecordCommission, MarkFailed, Crash
    <3> QED BY <1>2, <2>4, <3>1 DEF Unsettled
  <2>5. ASSUME NEW q \in Payments, tx[q].user = u, ~tx[q].test, Settling(q)
        PROVE  Unsettled(u)'
    <3>1. \A w \in Workers : CommitPurchase(w) => worker[w].pay # q
      BY <1>5, <2>5 DEF Buyer
    <3>2. Settling(q)' \/ crashes' > 0
      BY <2>5, <3>1, SettlingStep
    <3>3. tx[q].status # "NONE"
      BY <1>1, <2>5, PaymentsAssumption DEF IInv, BuyerInv
    <3>4. tx'[q].user = u /\ ~tx'[q].test
      BY <1>1, <2>5, <3>3, TermsAreFixed DEF SameTerms
    <3> QED BY <3>2, <3>4 DEF Unsettled
  <2> QED BY <1>1, <2>3, <2>4, <2>5 DEF AgreeInv, Unsettled
<1> QED BY <1>3, <1>4, <1>5

LEMMA SettlesInit == Init => SInv
<1> SUFFICES ASSUME Init PROVE SInv OBVIOUS
<1>1. CInv
  BY InitInv DEF CInv, NoTestInv, CommissionOnlyIfProvisioned, Init, Idle
<1>2. LInv
  BY RowInit
<1>3. SeenNow /\ TargetNow /\ PanelNow
  BY DEF SeenNow, TargetNow, PanelNow, Init, Idle
<1>4. AgreeInv
  <2>1. PICK old \in [Users -> {NoRow} \cup Held] :
          /\ rows = [r \in Rows |-> IF r \in Users THEN old[r] ELSE NoRow]
          /\ current = [u \in Users |-> IF old[u].live THEN u ELSE None]
          /\ panel = [u \in Users |-> [exists |-> old[u].live, expire |-> old[u].expire]]
    BY DEF Init
  <2> QED BY <2>1 DEF AgreeInv, Agrees, Rows
<1> QED BY <1>1, <1>2, <1>3, <1>4 DEF SInv

LEMMA SettlesStep == SInv /\ [Next]_vars => SInv'
<1> SUFFICES ASSUME SInv, [Next]_vars PROVE SInv' OBVIOUS
<1>1. CInv' /\ LInv'
  BY CommissionStep, RowStep DEF SInv
<1> QED BY <1>1, SeenStep, TargetStep, PanelStep, AgreeStep DEF SInv

\* The panel and the database agree on when the current subscription of a user expires
\* as soon as nothing runs and nothing was cut short, also after failed purchases that a
\* repeated report of the provider completed, and however purchases overlap, unless one
\* wrote over another of the same user (ProcessPayment, PurchaseSubscription).
THEOREM PanelSettles == Spec => []PanelAgreesWhenQuiet
<1>1. SInv => PanelAgreesWhenQuiet
  <2> SUFFICES ASSUME SInv, NothingCutShort, NEW u \in Users \ raced, current[u] # None
               PROVE  rows[current[u]].expire = panel[u].expire
    BY DEF PanelAgreesWhenQuiet
  <2>1. ~Unsettled(u)
    BY DEF NothingCutShort, Unsettled, Settling
  <2> QED BY <2>1 DEF SInv, AgreeInv, Agrees
<1> QED BY <1>1, SettlesInit, SettlesStep, PTL DEF Spec

\* A renewal adds its term to the expiry in force when it commits, whatever else is under
\* way, up to and including the first purchase of the user that overtakes another.
THEOREM TermsStack == Spec => TermStacks
<1>1. SInv /\ [Next]_vars =>
        [\A u \in Users \ raced, p \in Payments :
          (/\ grants'[p] > grants[p] /\ tx[p].user = u
           /\ tx[p].type = "RENEW" /\ ~rows[current[u]].trial)
          => rows'[current'[u]].expire = MaxOf(rows[current[u]].expire, Now) + Term]_vars
  <2> SUFFICES ASSUME SInv, [Next]_vars, NEW u \in Users \ raced, NEW p \in Payments,
                      grants'[p] > grants[p], tx[p].user = u,
                      tx[p].type = "RENEW", ~rows[current[u]].trial
               PROVE  rows'[current'[u]].expire = MaxOf(rows[current[u]].expire, Now) + Term
    OBVIOUS
  <2>1. IInv /\ SeenNow /\ TargetNow
    BY DEF SInv, LInv
  <2>2. grants \in [Payments -> Nat]
    BY <2>1 DEF IInv, TypeOK
  <2>3. \E w \in Workers : CommitPurchase(w) /\ worker[w].pay = p
    <3>1. grants' # grants
      BY <2>2
    <3>2. PICK w \in Workers : CommitPurchase(w)
      BY <3>1 DEF Next, vars, CreatePaid, LoseInvoice, GrowOld, Settle, CreateFree,
                  CancelOldTransactions, HandleReport, ConfirmFree, ProcessPayment, WorkerStep,
                  ReadCurrent, OpenPurchase, CallPanel, PurchaseRaises, MarkFailed,
                  RecordCommission, Crash
    <3>3. worker[w].pay = p
      BY <2>2, <3>2 DEF CommitPurchase
    <3> QED BY <3>2, <3>3
  <2>4. PICK w \in Workers : CommitPurchase(w) /\ worker[w].pay = p
    BY <2>3
  <2>5. worker[w].step = "commit" /\ Buyer(w) = u
    BY <2>4 DEF CommitPurchase, Buyer
  <2>6. worker[w].seen = CurrentOf(u)
    BY <2>1, <2>5 DEF SeenNow
  <2>7. ~worker[w].seen.trial
    BY <2>6 DEF CurrentOf, NoSub
  <2>8. Branch(w) = "RENEW"
    BY <2>4, <2>7 DEF Branch
  <2>9. worker[w].seen.row # None /\ worker[w].target = MaxOf(worker[w].seen.expire, Now) + Term
    BY <2>1, <2>5, <2>8 DEF TargetNow
  <2>10. worker[w].seen.expire = rows[current[u]].expire
    BY <2>6, <2>9 DEF CurrentOf, NoSub
  <2> QED BY <2>4, <2>5, <2>9, <2>10, CommitEffect
<1> QED BY <1>1, SettlesInit, SettlesStep, PTL DEF Spec, TermStacks

=============================================================================
