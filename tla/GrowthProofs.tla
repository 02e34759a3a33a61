---------------------------- MODULE GrowthProofs ----------------------------
(***************************************************************************)
(* Theorems of ReferralLedger, for any users, payouts, requests, operators *)
(* and amounts, and of Nudges, for any users, chains, sweeps and faults.   *)
(* The two share no state; each has its own specification.                 *)
(***************************************************************************)
EXTENDS ReferralLedger, Nudges, FiniteSetTheorems, SequenceTheorems, TLAPS

USE DEF Now, Term

(***************************************************************************)
(* What holds however many requests and operators there are: the types,    *)
(* and that the payout on an operator's desk exists.                       *)
(***************************************************************************)

DeskInv ==
    \A o \in Operators : desk[o].step # "idle" =>
        /\ desk[o].payout \in Payouts
        /\ payout[desk[o].payout].status # "none"

\* A request that passed the gates read a balance that covers what it asks for.
GateInv ==
    \A s \in Sessions :
        /\ session[s].step \in Past =>
              session[s].balance \in Nat /\ session[s].balance >= Least(session[s].kind)
        /\ session[s].step \in {"opened", "panelled"} => session[s].kind = "balance"

BaseInv == TypeOK /\ DeskInv /\ GateInv

LEMMA MaxIsNat == ASSUME NEW a \in Nat PROVE MaxOf(a, Now) \in Nat /\ MaxOf(a, Now) >= a
BY DEF MaxOf

LEMMA WholeStarsBound == ASSUME NEW a \in Nat PROVE WholeStars(a) \in 0..a
<1>1. a % StarsRate \in 0..(StarsRate - 1)
  BY LedgerAssumption
<1>2. a % StarsRate <= a
  BY LedgerAssumption
<1> QED BY <1>1, <1>2, LedgerAssumption DEF WholeStars

\* A payout is made of no more than the balance its request read.
LEMMA AmountsBound ==
    ASSUME NEW s \in Sessions, session[s].balance \in Nat, NEW a \in Amounts(s)
    PROVE  a \in 0..session[s].balance
BY WholeStarsBound DEF Amounts

LEMMA LeastIsNat == \A kind \in Kinds : Least(kind) \in Nat
BY LedgerAssumption DEF Least, Kinds

LEMMA InitBase == Init => BaseInv
<1> SUFFICES ASSUME Init PROVE BaseInv OBVIOUS
<1>1. NoPayout \in PayoutType /\ Quiet \in SessionType /\ Empty \in DeskType
  BY DEF NoPayout, PayoutType, Quiet, SessionType, Empty, DeskType, Methods, Statuses, Kinds, Verbs
<1>2. TypeOK
  BY <1>1 DEF Init, TypeOK, NoPayout
<1>3. DeskInv /\ GateInv
  BY DEF Init, DeskInv, GateInv, Empty, Quiet, Past
<1> QED BY <1>2, <1>3 DEF BaseInv

\* The steps of one request: they write the session, and one table each.
LEMMA SessionBase ==
    ASSUME BaseInv, NEW s \in Sessions, SessionStep(s)
    PROVE  BaseInv'
<1> USE LedgerAssumption DEF sums, subs, marks
<1> DEFINE u == Owner[s]
<1>0. /\ TypeOK /\ DeskInv /\ GateInv
      /\ u \in Users /\ session[s] \in SessionType
  BY DEF BaseInv, TypeOK
<1>1. Quiet \in SessionType /\ Quiet.step \notin Past
  BY DEF Quiet, SessionType, Kinds, Past
<1>2. \A t : Finish(s) => /\ session' \in [Sessions -> SessionType]
                          /\ GateInv'
  BY <1>0, <1>1 DEF Finish, TypeOK, GateInv, Past
<1>3. CASE \E kind \in Kinds : ReadSums(s, kind)
  <2> PICK kind \in Kinds : ReadSums(s, kind) BY <1>3
  <2>1. Balance(u) \in Int
    BY <1>0 DEF Balance, TypeOK
  <2>2. session' \in [Sessions -> SessionType] /\ GateInv'
    BY <1>0, <2>1 DEF ReadSums, TypeOK, SessionType, GateInv, Past
  <2> QED BY <1>0, <2>2 DEF ReadSums, BaseInv, TypeOK, DeskInv
<1>4. CASE ReadOpen(s)
  <2>1. CASE Refused(s)
    BY <1>0, <1>2, <1>4, <2>1 DEF ReadOpen, BaseInv, TypeOK, DeskInv
  <2>2. CASE ~Refused(s)
    <3>1. session' = [session EXCEPT ![s].step = "checked"]
      BY <1>4, <2>2 DEF ReadOpen, Goto
    <3>2. session' \in [Sessions -> SessionType]
      BY <1>0, <3>1 DEF TypeOK, SessionType
    <3>3. session[s].balance \in Nat /\ session[s].balance >= Least(session[s].kind)
      BY <1>0, <2>2, LeastIsNat DEF Refused, SessionType
    <3>4. GateInv'
      BY <1>0, <3>1, <3>3 DEF GateInv, TypeOK, Past, SessionType, Least
    <3> QED BY <1>0, <1>4, <3>2, <3>4 DEF ReadOpen, BaseInv, TypeOK, DeskInv
  <2> QED BY <2>1, <2>2
<1>5. CASE \E p \in Payouts, w \in Wallets : CreatePayout(s, p, w)
  <2> PICK p \in Payouts, w \in Wallets : CreatePayout(s, p, w) BY <1>5
  <2>1. session[s].balance \in Nat
    BY <1>0 DEF CreatePayout, GateInv, Past
  <2>2. PICK a \in Amounts(s) :
          payout' = [payout EXCEPT ![p] =
                       [user |-> u, method |-> session[s].kind, amount |-> a,
                        status |-> "requested",
                        wallet |-> IF session[s].kind = "crypto" THEN w ELSE None]]
    BY DEF CreatePayout
  <2>3. a \in Nat
    BY <2>1, AmountsBound
  <2>4. payout' \in [Payouts -> PayoutType]
    BY <1>0, <2>2, <2>3 DEF CreatePayout, TypeOK, PayoutType, Statuses
  <2>5. \A q \in Payouts : payout'[q].status # "none" => payout'[q].user \in Users
    BY <1>0, <2>2 DEF TypeOK
  <2>6. DeskInv'
    BY <1>0, <2>2 DEF CreatePayout, DeskInv, TypeOK
  <2> QED BY <1>0, <1>2, <2>4, <2>5, <2>6 DEF CreatePayout, Overtakes, BaseInv, TypeOK
<1>6. CASE ReadSubscription(s)
  <2>1. Extended(expire[u]) \in Nat
    BY <1>0, MaxIsNat DEF TypeOK, Extended
  <2>2. session' \in [Sessions -> SessionType] /\ GateInv'
    BY <1>0, <1>6, <2>1 DEF ReadSubscription, TypeOK, SessionType, GateInv, Past
  <2> QED BY <1>0, <1>6, <2>2 DEF ReadSubscription, BaseInv, TypeOK, DeskInv
<1>7. CASE ExtendPanel(s)
  <2>1. panel' \in [Users -> Nat]
    BY <1>0, <1>7 DEF ExtendPanel, TypeOK, SessionType
  <2>2. CASE Goto(s, "panelled")
    <3>1. session' \in [Sessions -> SessionType]
      BY <1>0, <2>2 DEF Goto, TypeOK, SessionType
    <3>2. GateInv'
      BY <1>0, <1>7, <2>2 DEF ExtendPanel, Goto, GateInv, TypeOK, SessionType, Past
    <3> QED BY <1>0, <1>7, <2>1, <3>1, <3>2 DEF ExtendPanel, BaseInv, TypeOK, DeskInv
  <2>3. CASE Finish(s)
    BY <1>0, <1>2, <1>7, <2>1, <2>3 DEF ExtendPanel, BaseInv, TypeOK, DeskInv
  <2> QED BY <1>7, <2>2, <2>3 DEF ExtendPanel
<1>8. CASE CommitSpend(s)
  <2>1. spent' \in [Users -> Nat] /\ expire' \in [Users -> Nat]
    BY <1>0, <1>8 DEF CommitSpend, TypeOK, SessionType
  <2> QED BY <1>0, <1>2, <1>8, <2>1 DEF CommitSpend, Overtakes, BaseInv, TypeOK, DeskInv
<1>9. CASE Abandon(s)
  BY <1>0, <1>2, <1>9 DEF Abandon, BaseInv, TypeOK, DeskInv
<1> QED BY <1>3, <1>4, <1>5, <1>6, <1>7, <1>8, <1>9 DEF SessionStep

\* Marking a payout keeps everything but its status.
LEMMA SettleUpdate ==
    ASSUME TypeOK, NEW p \in Payouts, payout[p].status # "none",
           NEW status \in Statuses \ {"none"}, Settle(p, status)
    PROVE  /\ payout' \in [Payouts -> PayoutType]
           /\ withdrawn' \in [Users -> Int]
           /\ \A q \in Payouts : /\ payout'[q].user = payout[q].user
                                 /\ payout'[q].amount = payout[q].amount
                                 /\ payout'[q].wallet = payout[q].wallet
                                 /\ payout'[q].method = payout[q].method
                                 /\ payout'[q].status = IF q = p THEN status ELSE payout[q].status
           /\ \A u \in Users \ {payout[p].user} : withdrawn'[u] = withdrawn[u]
<1> USE DEF TypeOK
<1>0. payout[p] \in PayoutType /\ payout[p].user \in Users
  OBVIOUS
<1>1. payout' = [payout EXCEPT ![p].status = status]
  BY DEF Settle
<1>2. payout' \in [Payouts -> PayoutType]
  BY <1>1 DEF PayoutType
<1>3. \A q \in Payouts : /\ payout'[q].user = payout[q].user
                         /\ payout'[q].amount = payout[q].amount
                         /\ payout'[q].wallet = payout[q].wallet
                         /\ payout'[q].method = payout[q].method
                         /\ payout'[q].status = IF q = p THEN status ELSE payout[q].status
  BY <1>1 DEF PayoutType
<1>4. payout[p].amount \in Nat /\ withdrawn[payout[p].user] \in Int
  BY <1>0 DEF PayoutType
<1>5. withdrawn' \in [Users -> Int]
  BY <1>0, <1>4 DEF Settle
<1>6. \A u \in Users \ {payout[p].user} : withdrawn'[u] = withdrawn[u]
  BY <1>0 DEF Settle
<1> QED BY <1>2, <1>3, <1>5, <1>6

LEMMA DeskBase ==
    ASSUME BaseInv, NEW o \in Operators, DeskStep(o)
    PROVE  BaseInv'
<1> USE DEF sums, subs, marks
<1>0. TypeOK /\ DeskInv /\ GateInv /\ desk[o] \in DeskType
  BY DEF BaseInv, TypeOK
<1>1. Empty \in DeskType /\ Empty.step = "idle"
  BY DEF Empty, DeskType, Verbs, Statuses
<1>2. CASE \E p \in Payouts : Show(o, p)
  <2> PICK p \in Payouts : Show(o, p) BY <1>2
  <2>1. payout[p] \in PayoutType /\ payout[p].status # "none"
    BY <1>0 DEF Show, Open, TypeOK
  <2>2. desk' \in [Operators -> DeskType]
    BY <1>0, <2>1 DEF Show, TypeOK, DeskType, PayoutType, Verbs
  <2>3. DeskInv'
    BY <1>0, <2>1 DEF Show, DeskInv, TypeOK
  <2> QED BY <1>0, <2>2, <2>3 DEF Show, BaseInv, TypeOK, GateInv
<1>3. CASE \E verb \in Verbs : LoadOpenPayout(o, verb)
  <2> PICK verb \in Verbs : LoadOpenPayout(o, verb) BY <1>3
  <2>1. desk' \in [Operators -> DeskType]
    BY <1>0 DEF LoadOpenPayout, TypeOK, DeskType
  <2>2. DeskInv'
    BY <1>0 DEF LoadOpenPayout, DeskInv, TypeOK, DeskType
  <2> QED BY <1>0, <2>1, <2>2 DEF LoadOpenPayout, BaseInv, TypeOK, GateInv
<1>4. ASSUME LeaveDesk(o) PROVE desk' \in [Operators -> DeskType]
  BY <1>0, <1>1, <1>4 DEF LeaveDesk, TypeOK
<1>5. ASSUME NEW status \in Statuses \ {"none"}, desk[o].step = "loaded",
             Settle(desk[o].payout, status), LeaveDesk(o)
      PROVE  /\ payout' \in [Payouts -> PayoutType]
             /\ withdrawn' \in [Users -> Int]
             /\ \A q \in Payouts : payout'[q].status # "none" => payout'[q].user \in Users
             /\ DeskInv'
  <2>1. desk[o].payout \in Payouts /\ payout[desk[o].payout].status # "none"
    BY <1>0, <1>5 DEF DeskInv
  <2>2. \A q \in Payouts : /\ payout'[q].user = payout[q].user
                           /\ payout'[q].status # "none" <=> payout[q].status # "none"
    BY <1>0, <1>5, <2>1, SettleUpdate
  <2>3. DeskInv'
    BY <1>0, <1>1, <1>5, <2>2 DEF DeskInv, LeaveDesk, TypeOK
  <2> QED BY <1>0, <1>5, <2>1, <2>2, <2>3, SettleUpdate DEF TypeOK
<1>6. CASE MarkProcessing(o)
  BY <1>0, <1>4, <1>5, <1>6 DEF MarkProcessing, BaseInv, TypeOK, GateInv, Statuses
<1>7. CASE MarkPaid(o)
  <2> DEFINE p == desk[o].payout
  <2>1. p \in Payouts /\ payout[p].user \in Users
    BY <1>0, <1>7 DEF MarkPaid, DeskInv, TypeOK
  <2>2. /\ sent' \in [Payouts -> Wallets \cup {None}]
        /\ torn' \subseteq Users /\ overruled' \subseteq Payouts
    BY <1>0, <1>7, <2>1 DEF MarkPaid, Overrules, TypeOK, DeskType
  <2>3. Settle(p, "paid") /\ LeaveDesk(o) /\ desk[o].step = "loaded" /\ "paid" \in Statuses \ {"none"}
    BY <1>7 DEF MarkPaid, Statuses
  <2>4. UNCHANGED <<credited, earned, spent, expire, panel, session, raced>>
    BY <1>7 DEF MarkPaid
  <2> QED BY <1>0, <1>4, <1>5, <2>2, <2>3, <2>4 DEF BaseInv, TypeOK, GateInv
<1>8. CASE MarkRejected(o)
  <2>1. overruled' \subseteq Payouts
    BY <1>0, <1>8 DEF MarkRejected, Overrules, DeskInv, TypeOK
  <2> QED BY <1>0, <1>4, <1>5, <1>8, <2>1 DEF MarkRejected, BaseInv, TypeOK, GateInv, Statuses
<1>9. CASE Leave(o)
  <2>1. DeskInv'
    BY <1>0, <1>1, <1>9 DEF Leave, LeaveDesk, DeskInv, TypeOK
  <2> QED BY <1>0, <1>4, <1>9, <2>1 DEF Leave, BaseInv, TypeOK, GateInv
<1> QED BY <1>2, <1>3, <1>6, <1>7, <1>8, <1>9 DEF DeskStep

LEMMA NextBase == BaseInv /\ [Next]_vars => BaseInv'
<1> SUFFICES ASSUME BaseInv, [Next]_vars PROVE BaseInv' OBVIOUS
<1> USE DEF sums, subs, marks
<1>1. CASE \E k \in Payments, u \in Users, c \in Commissions : RecordCommission(k, u, c)
  BY <1>1, LedgerAssumption DEF RecordCommission, BaseInv, TypeOK, DeskInv, GateInv
<1>2. CASE \E s \in Sessions : SessionStep(s)
  BY <1>2, SessionBase
<1>3. CASE \E u \in Users, w \in Wallets : ChangeWallet(u, w)
  <2> PICK u \in Users, w \in Wallets : ChangeWallet(u, w) BY <1>3
  <2>1. /\ payout' \in [Payouts -> PayoutType]
        /\ \A q \in Payouts : /\ payout'[q].user = payout[q].user
                              /\ payout'[q].status = payout[q].status
    BY DEF ChangeWallet, BaseInv, TypeOK, PayoutType
  <2> QED BY <2>1 DEF ChangeWallet, BaseInv, TypeOK, DeskInv, GateInv
<1>4. CASE \E o \in Operators : DeskStep(o)
  BY <1>4, DeskBase
<1>5. CASE RunCryptoBatch
  <2>1. /\ payout' \in [Payouts -> PayoutType]
        /\ \A q \in Payouts : /\ payout'[q].user = payout[q].user
                              /\ payout'[q].status = "none" <=> payout[q].status = "none"
    <3>1. payout \in [Payouts -> PayoutType]
      BY DEF BaseInv, TypeOK
    <3>2. payout' = [p \in Payouts |-> IF Collectable(payout[p])
                                       THEN [payout[p] EXCEPT !.status = "processing"]
                                       ELSE payout[p]]
      BY <1>5 DEF RunCryptoBatch
    <3>3. \A r \in PayoutType :
              LET c == [r EXCEPT !.status = "processing"]
              IN  c \in PayoutType /\ c.user = r.user /\ c.status = "processing"
      BY DEF PayoutType, Statuses
    <3>4. \A p \in Payouts : Collectable(payout[p]) => payout[p].status = "requested"
      BY DEF Collectable
    <3> QED BY <3>1, <3>2, <3>3, <3>4
  <2> QED BY <1>5, <2>1 DEF RunCryptoBatch, BaseInv, TypeOK, DeskInv, GateInv
<1>6. CASE UNCHANGED vars
  BY <1>6 DEF vars, BaseInv, TypeOK, DeskInv, GateInv
<1> QED BY <1>1, <1>2, <1>3, <1>4, <1>5, <1>6 DEF Next

\* The types of the ledger, and of every request and desk.
THEOREM TypeCorrect == Spec => []TypeOK
<1>1. BaseInv => TypeOK
  BY DEF BaseInv
<1> QED BY <1>1, InitBase, NextBase, PTL DEF Spec

(***************************************************************************)
(* The wallet under an operator's hands, however many operators there are. *)
(***************************************************************************)

Frozen == {"processing", "paid", "rejected"}

\* Nothing leaves Frozen, and a frozen payout keeps its wallet; what an operator
\* saw in processing is frozen.
WalletInv ==
    /\ \A p \in Payouts : sent[p] # None =>
          payout[p].status \in Frozen /\ payout[p].wallet = sent[p]
    /\ \A o \in Operators : (desk[o].step # "idle" /\ desk[o].seen = "processing") =>
          /\ payout[desk[o].payout].status \in Frozen
          /\ payout[desk[o].payout].wallet = desk[o].wallet

\* What every step does to a frozen payout.
LEMMA FrozenStays ==
    ASSUME BaseInv, Next, NEW p \in Payouts, payout[p].status \in Frozen
    PROVE  payout'[p].status \in Frozen /\ payout'[p].wallet = payout[p].wallet
<1> USE DEF sums, subs, marks, Frozen
<1>1. CASE \E s \in Sessions : SessionStep(s)
  <2>1. CASE \E s \in Sessions, q \in Payouts, w \in Wallets : CreatePayout(s, q, w)
    BY <2>1 DEF CreatePayout, BaseInv, TypeOK
  <2>2. CASE UNCHANGED payout
    BY <2>2
  <2> QED BY <1>1, <2>1, <2>2
          DEF SessionStep, ReadSums, ReadOpen, ReadSubscription, ExtendPanel, CommitSpend, Abandon
<1>2. CASE \E o \in Operators : DeskStep(o)
  <2> PICK o \in Operators : DeskStep(o) BY <1>2
  <2>1. ASSUME NEW status \in Frozen, desk[o].step = "loaded", Settle(desk[o].payout, status)
        PROVE  payout'[p].status \in Frozen /\ payout'[p].wallet = payout[p].wallet
    <3>1. desk[o].payout \in Payouts /\ payout[desk[o].payout].status # "none"
      BY <2>1 DEF BaseInv, DeskInv
    <3>2. status \in Statuses \ {"none"}
      BY DEF Statuses
    <3> QED BY <2>1, <3>1, <3>2, SettleUpdate DEF BaseInv
  <2>2. CASE MarkProcessing(o) \/ MarkPaid(o) \/ MarkRejected(o)
    BY <2>1, <2>2 DEF MarkProcessing, MarkPaid, MarkRejected
  <2>3. CASE UNCHANGED payout
    BY <2>3
  <2> QED BY <2>2, <2>3 DEF DeskStep, Show, LoadOpenPayout, Leave
<1>3. CASE \E u \in Users, w \in Wallets : ChangeWallet(u, w)
  BY <1>3 DEF ChangeWallet, Editable, BaseInv, TypeOK
<1>4. CASE RunCryptoBatch
  BY <1>4 DEF RunCryptoBatch, Collectable, BaseInv, TypeOK, PayoutType
<1>5. CASE \E k \in Payments, u \in Users, c \in Commissions : RecordCommission(k, u, c)
  BY <1>5 DEF RecordCommission
<1> QED BY <1>1, <1>2, <1>3, <1>4, <1>5 DEF Next

LEMMA NextWallet == BaseInv /\ WalletInv /\ [Next]_vars => WalletInv'
<1> SUFFICES ASSUME BaseInv, WalletInv, [Next]_vars PROVE WalletInv' OBVIOUS
<1> USE DEF sums, subs, marks
<1>0. DeskInv /\ desk \in [Operators -> DeskType] /\ sent \in [Payouts -> Wallets \cup {None}]
  BY DEF BaseInv, TypeOK
<1>1. CASE UNCHANGED vars
  BY <1>1 DEF vars, WalletInv
<1>2. CASE Next /\ UNCHANGED <<desk, sent>>
  BY <1>0, <1>2, FrozenStays DEF WalletInv, DeskInv
<1>3. CASE \E o \in Operators : DeskStep(o)
  <2> PICK o \in Operators : DeskStep(o) BY <1>3
  <2>0. Next
    BY DEF Next
  <2>1. ASSUME LeaveDesk(o)
        PROVE  \A q \in Operators : (desk'[q].step # "idle" /\ desk'[q].seen = "processing") =>
                  /\ payout'[desk'[q].payout].status \in Frozen
                  /\ payout'[desk'[q].payout].wallet = desk'[q].wallet
    BY <1>0, <2>0, <2>1, FrozenStays DEF LeaveDesk, Empty, WalletInv, DeskInv
  <2>2. ASSUME UNCHANGED sent
        PROVE  \A p \in Payouts : sent'[p] # None =>
                  payout'[p].status \in Frozen /\ payout'[p].wallet = sent'[p]
    BY <2>0, <2>2, FrozenStays DEF WalletInv
  <2>3. CASE \E p \in Payouts : Show(o, p)
    BY <1>0, <2>2, <2>3 DEF Show, WalletInv, DeskInv, Frozen
  <2>4. CASE \E verb \in Verbs : LoadOpenPayout(o, verb)
    BY <1>0, <2>2, <2>4 DEF LoadOpenPayout, WalletInv, DeskInv, DeskType
  <2>5. CASE MarkPaid(o)
    <3> DEFINE p == desk[o].payout
    <3>1. p \in Payouts
      BY <1>0, <2>5 DEF MarkPaid, DeskInv
    <3>2. desk[o].seen = "processing" =>
            payout'[p].status \in Frozen /\ payout'[p].wallet = desk[o].wallet
      BY <2>0, <2>5, <3>1, FrozenStays DEF MarkPaid, WalletInv
    <3>3. \A q \in Payouts : sent'[q] # None =>
            payout'[q].status \in Frozen /\ payout'[q].wallet = sent'[q]
      BY <1>0, <2>0, <2>5, <3>1, <3>2, FrozenStays DEF MarkPaid, WalletInv
    <3> QED BY <2>1, <2>5, <3>3 DEF MarkPaid, WalletInv
  <2>6. CASE MarkProcessing(o) \/ MarkRejected(o) \/ Leave(o)
    BY <2>1, <2>2, <2>6 DEF MarkProcessing, MarkRejected, Leave, WalletInv
  <2> QED BY <2>3, <2>4, <2>5, <2>6 DEF DeskStep
<1>4. ASSUME NEW s \in Sessions, SessionStep(s) PROVE UNCHANGED <<desk, sent>>
  BY <1>4 DEF SessionStep, ReadSums, ReadOpen, CreatePayout, ReadSubscription, ExtendPanel,
              CommitSpend, Abandon
<1>5. Next /\ ~(\E o \in Operators : DeskStep(o)) => UNCHANGED <<desk, sent>>
  BY <1>4 DEF Next, RecordCommission, ChangeWallet, RunCryptoBatch
<1> QED BY <1>1, <1>2, <1>3, <1>5

\* A payout seen in processing is recorded as paid to the wallet on screen.
THEOREM WalletIsTheOneShown == Spec => []PaidToTheWalletShown
<1>1. Init => WalletInv
  BY DEF Init, WalletInv, Empty
<1>2. WalletInv => PaidToTheWalletShown
  BY DEF WalletInv, PaidToTheWalletShown
<1> QED BY <1>1, <1>2, InitBase, NextBase, NextWallet, PTL DEF Spec

(***************************************************************************)
(* The subscription's term, of a user whose requests did not overtake each  *)
(* other.                                                                  *)
(***************************************************************************)

\* The target a request computed is still one term past the expiry in force.
TermInv ==
    /\ PanelNeverBehind
    /\ \A s \in Sessions : Owner[s] \notin raced =>
          /\ session[s].step \in {"opened", "panelled"} =>
                session[s].target = Extended(expire[Owner[s]])
          /\ session[s].step = "panelled" => panel[Owner[s]] = session[s].target

LEMMA NextTerm ==
    ASSUME BaseInv, TermInv, [Next]_vars
    PROVE  /\ TermInv'
           /\ \A u \in Users \ raced :
                 /\ spent'[u] # spent[u] => expire'[u] = MaxOf(expire[u], Now) + Term
                 /\ expire'[u] # expire[u] => spent'[u] = spent[u] + Price
<1> USE DEF sums, subs, marks
<1>0. TypeOK /\ Owner \in [Sessions -> Users]
  BY LedgerAssumption DEF BaseInv
<1>1. CASE UNCHANGED <<spent, expire, panel, session, raced>>
  BY <1>1 DEF TermInv, PanelNeverBehind, Extended, MaxOf
<1>2. CASE \E s \in Sessions : SessionStep(s)
  <2> PICK s \in Sessions : SessionStep(s) BY <1>2
  <2> DEFINE u == Owner[s]
  <2>0. u \in Users /\ session[s] \in SessionType
    BY <1>0 DEF TypeOK
  <2>1. ASSUME NEW r, session' = [session EXCEPT ![s] = r], UNCHANGED <<spent, expire, panel>>,
               raced \subseteq raced',
               u \notin raced' /\ r.step \in {"opened", "panelled"} => r.target = Extended(expire[u]),
               u \notin raced' /\ r.step = "panelled" => panel[u] = r.target
        PROVE  TermInv'
    <3>1. /\ session'[s] = r
          /\ \A t \in Sessions \ {s} : session'[t] = session[t]
      BY <1>0, <2>1 DEF TypeOK
    <3>2. PanelNeverBehind'
      BY <2>1 DEF TermInv, PanelNeverBehind
    <3>3. \A e : Extended(e)' = Extended(e)
      BY DEF Extended, MaxOf
    <3> QED BY <2>1, <3>1, <3>2, <3>3 DEF TermInv, Extended, MaxOf
  <2>2. CASE Finish(s) /\ UNCHANGED <<spent, expire, panel>> /\ raced \subseteq raced'
    <3>1. Quiet.step \notin {"opened", "panelled"}
      BY DEF Quiet
    <3> QED BY <2>1, <2>2, <3>1 DEF Finish
  <2>3. CASE \E kind \in Kinds : ReadSums(s, kind)
    BY <2>1, <2>3 DEF ReadSums
  <2>4. CASE ReadOpen(s)
    <3>1. CASE Refused(s)
      BY <2>2, <2>4, <3>1 DEF ReadOpen
    <3>2. CASE ~Refused(s)
      <4>1. session' = [session EXCEPT ![s] = [session[s] EXCEPT !.step = "checked"]]
        BY <1>0, <2>4, <3>2 DEF ReadOpen, Goto, TypeOK
      <4>2. [session[s] EXCEPT !.step = "checked"].step = "checked"
        BY <2>0 DEF SessionType
      <4> QED BY <2>1, <2>4, <4>1, <4>2 DEF ReadOpen
    <3> QED BY <3>1, <3>2
  <2>5. CASE \E p \in Payouts, w \in Wallets : CreatePayout(s, p, w)
    BY <2>2, <2>5 DEF CreatePayout, Overtakes
  <2>6. CASE ReadSubscription(s)
    <3> DEFINE r == [session[s] EXCEPT !.step = "opened", !.target = Extended(expire[u])]
    <3>1. session' = [session EXCEPT ![s] = r]
      BY <1>0, <2>6 DEF ReadSubscription, TypeOK
    <3>2. r.step = "opened" /\ r.target = Extended(expire[u])
      BY <2>0 DEF SessionType
    <3> QED BY <2>1, <2>6, <3>1, <3>2 DEF ReadSubscription
  <2>7. CASE ExtendPanel(s)
    <3>1. /\ u \notin raced => session[s].target = Extended(expire[u])
          /\ session[s].target \in Nat
      BY <2>0, <2>7 DEF ExtendPanel, TermInv, SessionType
    <3>2. expire[u] \in Nat /\ Extended(expire[u]) >= expire[u]
      BY <1>0, <2>0 DEF TypeOK, Extended, MaxOf
    <3>3. panel' = [panel EXCEPT ![u] = session[s].target] /\ UNCHANGED <<spent, expire, raced>>
      BY <2>7 DEF ExtendPanel
    <3>4. PanelNeverBehind'
      BY <1>0, <3>1, <3>2, <3>3 DEF TermInv, PanelNeverBehind, TypeOK
    <3>5. \A t \in Sessions \ {s} :
              /\ session'[t] = session[t]
              /\ panel'[Owner[t]] = IF Owner[t] = u THEN session[s].target ELSE panel[Owner[t]]
      BY <1>0, <2>0, <2>7, <3>3 DEF ExtendPanel, Goto, Finish, TypeOK
    <3>6. /\ session'[s].step \in {"opened", "panelled"} => session'[s].target = session[s].target
          /\ panel'[u] = session[s].target
      BY <1>0, <2>0, <2>7, <3>3
         DEF ExtendPanel, Goto, Finish, Quiet, TypeOK, SessionType
    <3>7. \A t \in Sessions : Owner[t] \notin raced =>
              /\ session'[t].step \in {"opened", "panelled"} =>
                    session'[t].target = Extended(expire[Owner[t]])
              /\ session'[t].step = "panelled" => panel'[Owner[t]] = session'[t].target
      <4> SUFFICES ASSUME NEW t \in Sessions, Owner[t] \notin raced
                   PROVE  /\ session'[t].step \in {"opened", "panelled"} =>
                                session'[t].target = Extended(expire[Owner[t]])
                          /\ session'[t].step = "panelled" => panel'[Owner[t]] = session'[t].target
        OBVIOUS
      <4>1. CASE t = s
        BY <3>1, <3>6, <4>1
      <4>2. CASE t # s
        BY <3>1, <3>5, <4>2 DEF TermInv
      <4> QED BY <4>1, <4>2
    <3>8. TermInv'
      BY <3>3, <3>4, <3>7 DEF TermInv, Extended, MaxOf
    <3> QED BY <3>3, <3>8
  <2>8. CASE CommitSpend(s)
    <3>1. u \notin raced => session[s].target = Extended(expire[u]) /\ panel[u] = session[s].target
      BY <2>8 DEF CommitSpend, TermInv
    <3>2. /\ expire' = [expire EXCEPT ![u] = session[s].target]
          /\ spent' = [spent EXCEPT ![u] = @ + Price]
          /\ session' = [session EXCEPT ![s] = Quiet]
          /\ raced' = IF Rivals(s, Past \cup {"sums"}) # {} THEN raced \cup {u} ELSE raced
          /\ UNCHANGED panel
      BY <2>8 DEF CommitSpend, Finish, Overtakes
    <3>3. panel[u] \in Nat
      BY <1>0, <2>0 DEF TypeOK
    <3>4. PanelNeverBehind'
      BY <1>0, <2>0, <3>1, <3>2, <3>3 DEF TermInv, PanelNeverBehind, TypeOK
    <3>5. \A t \in Sessions \ {s} :
              /\ session'[t] = session[t]
              /\ Owner[t] # u => expire'[Owner[t]] = expire[Owner[t]]
      BY <1>0, <2>0, <3>2 DEF TypeOK
    <3>6. session'[s].step = "idle"
      BY <1>0, <3>2 DEF TypeOK, Quiet
    <3>7. \A t \in Sessions \ {s} : Owner[t] = u /\ u \notin raced'
                                       => session[t].step \notin {"opened", "panelled"}
      BY <3>2 DEF Rivals, Past
    <3>8. \A t \in Sessions : Owner[t] \notin raced' =>
              /\ session'[t].step \in {"opened", "panelled"} =>
                    session'[t].target = Extended(expire'[Owner[t]])
              /\ session'[t].step = "panelled" => panel'[Owner[t]] = session'[t].target
      BY <3>2, <3>5, <3>6, <3>7 DEF TermInv
    <3>9. TermInv'
      BY <3>4, <3>8 DEF TermInv, Extended, MaxOf
    <3> QED BY <1>0, <2>0, <3>1, <3>2, <3>9 DEF TypeOK, Extended
  <2>9. CASE Abandon(s)
    BY <2>2, <2>9 DEF Abandon
  <2>10. ~CommitSpend(s) => UNCHANGED <<spent, expire>>
    BY DEF SessionStep, ReadSums, ReadOpen, CreatePayout, ReadSubscription, ExtendPanel, Abandon
  <2> QED BY <2>3, <2>4, <2>5, <2>6, <2>7, <2>8, <2>9, <2>10 DEF SessionStep
<1>3. CASE \E o \in Operators : DeskStep(o)
  BY <1>1, <1>3 DEF DeskStep, Show, LoadOpenPayout, MarkProcessing, MarkPaid, MarkRejected, Leave
<1>4. ASSUME Next, ~(\E s \in Sessions : SessionStep(s)), ~(\E o \in Operators : DeskStep(o))
      PROVE  UNCHANGED <<spent, expire, panel, session, raced>>
  BY <1>4 DEF Next, RecordCommission, ChangeWallet, RunCryptoBatch
<1>5. CASE UNCHANGED vars
  BY <1>1, <1>5 DEF vars
<1> QED BY <1>1, <1>2, <1>3, <1>4, <1>5

LEMMA InitTerm == Init => TermInv
<1> SUFFICES ASSUME Init PROVE TermInv OBVIOUS
<1>1. \A u \in Users : expire[u] \in Nat
  BY DEF Init
<1>2. PanelNeverBehind
  BY <1>1 DEF Init, PanelNeverBehind
<1> QED BY <1>2 DEF Init, TermInv, Quiet

\* The panel is never behind the database, however requests fail between the
\* panel call and the commit, and however many are in flight, for a user whose
\* requests did not overtake each other.
THEOREM PanelKeepsUp == Spec => []PanelNeverBehind
<1>1. BaseInv /\ TermInv /\ [Next]_vars => TermInv'
  BY NextTerm
<1>2. TermInv => PanelNeverBehind
  BY DEF TermInv
<1> QED BY <1>1, <1>2, InitBase, NextBase, InitTerm, PTL DEF Spec

\* Every debit buys a whole term, up to and including the first that overtakes
\* another request of the user.
THEOREM DebitBuysTerm == Spec => SpendsExtend
<1> DEFINE Kept == \A u \in Users \ raced :
                      /\ spent'[u] # spent[u] => expire'[u] = MaxOf(expire[u], Now) + Term
                      /\ expire'[u] # expire[u] => spent'[u] = spent[u] + Price
<1>1. BaseInv /\ TermInv /\ [Next]_vars => TermInv' /\ Kept
  BY NextTerm
<1>2. Spec => [][Kept]_vars
  BY <1>1, InitBase, NextBase, InitTerm, PTL DEF Spec
<1> QED BY <1>2 DEF SpendsExtend

(***************************************************************************)
(* The balance, of a user whose requests did not overtake each other and    *)
(* whose payouts no two operators held at once.  A request past its gates  *)
(* sees no open payout until it ends, so what it read of the balance is     *)
(* still there to be taken.                                                 *)
(***************************************************************************)

LoadedIsOpen ==
    \A o \in Operators : desk[o].step = "loaded" =>
        desk[o].payout \in overruled \/ payout[desk[o].payout].status \in Open

OverruledExist == \A p \in overruled : payout[p].status # "none"

NoneOpenPastGates ==
    \A s \in Sessions :
        session[s].step \in Past /\ Undisturbed(Owner[s]) => OpenOf(Owner[s]) = {}

\* What a request read of the balance has not been taken meanwhile.
ReadIsCovered ==
    \A s \in Sessions :
        (session[s].step # "idle" /\ Owner[s] \notin torn /\ Undisturbed(Owner[s]))
            => session[s].balance <= Balance(Owner[s])

SerialInv ==
    /\ LoadedIsOpen /\ OverruledExist /\ NoneOpenPastGates /\ SingleOpenPayout
    /\ ReadIsCovered /\ NoOverdraftUnlessTorn

LEMMA BalanceIsInt == ASSUME TypeOK, NEW u \in Users PROVE Balance(u) \in Int
BY DEF TypeOK, Balance

LEMMA InitSerial == Init => SerialInv
BY DEF Init, SerialInv, LoadedIsOpen, OverruledExist, NoneOpenPastGates, SingleOpenPayout,
       ReadIsCovered, NoOverdraftUnlessTorn, Covered, OpenOf, Balance, Open, NoPayout, Empty,
       Quiet, Past

\* A user once disturbed stays so: an overruled payout has an owner for good.
LEMMA StillDisturbed ==
    ASSUME raced \subseteq raced', overruled \subseteq overruled',
           \A p \in overruled : payout'[p].user = payout[p].user
    PROVE  \A u : Undisturbed(u)' => Undisturbed(u)
BY DEF Undisturbed

\* Steps that take nothing from a balance and open no payout.
LEMMA HarmlessStep ==
    ASSUME BaseInv, SerialInv, UNCHANGED <<session, desk, torn, raced, overruled, payout>>,
           \A u \in Users : Balance(u)' \in Int /\ Balance(u)' >= Balance(u)
    PROVE  SerialInv'
<1>0. \A u \in Users : Balance(u) \in Int
  BY BalanceIsInt DEF BaseInv
<1>1. \A u \in Users : OpenOf(u)' = OpenOf(u) /\ Undisturbed(u)' = Undisturbed(u)
  BY DEF OpenOf, Undisturbed
<1>2. /\ \A s \in Sessions : Owner[s] \in Users /\ session[s].balance \in Int
      /\ \A p \in Payouts : payout[p].amount \in Nat
  BY LedgerAssumption DEF BaseInv, TypeOK, SessionType, PayoutType
<1>3. ReadIsCovered'
  BY <1>0, <1>1, <1>2 DEF SerialInv, ReadIsCovered
<1>4. NoOverdraftUnlessTorn'
  BY <1>0, <1>1, <1>2 DEF SerialInv, NoOverdraftUnlessTorn, Covered, OpenOf
<1>5. NoneOpenPastGates'
  BY <1>1, <1>2 DEF SerialInv, NoneOpenPastGates
<1>6. SingleOpenPayout'
  BY DEF SerialInv, SingleOpenPayout, Undisturbed
<1> QED BY <1>3, <1>4, <1>5, <1>6 DEF SerialInv, LoadedIsOpen, OverruledExist

\* Steps that only move a session, within what the invariant says of it.
LEMMA SessionMoves ==
    ASSUME BaseInv, SerialInv, NEW s \in Sessions, NEW r,
           session' = [session EXCEPT ![s] = r],
           UNCHANGED <<earned, spent, withdrawn, payout, desk, torn, raced, overruled>>,
           r.step \in Past /\ Undisturbed(Owner[s]) => OpenOf(Owner[s]) = {},
           r.step # "idle" /\ Owner[s] \notin torn /\ Undisturbed(Owner[s])
               => r.balance <= Balance(Owner[s])
    PROVE  SerialInv'
<1>1. session'[s] = r /\ \A t \in Sessions \ {s} : session'[t] = session[t]
  BY DEF BaseInv, TypeOK
<1>2. \A u : /\ OpenOf(u)' = OpenOf(u) /\ Balance(u)' = Balance(u)
             /\ Undisturbed(u)' = Undisturbed(u)
  BY DEF OpenOf, Balance, Undisturbed
<1>3. NoneOpenPastGates' /\ ReadIsCovered'
  BY <1>1, <1>2 DEF SerialInv, NoneOpenPastGates, ReadIsCovered
<1>4. SingleOpenPayout'
  BY <1>2 DEF SerialInv, SingleOpenPayout
<1> QED BY <1>2, <1>3, <1>4
        DEF SerialInv, LoadedIsOpen, OverruledExist, NoOverdraftUnlessTorn, Covered

LEMMA SessionSerial ==
    ASSUME BaseInv, SerialInv, NEW s \in Sessions, SessionStep(s)
    PROVE  SerialInv'
<1> USE DEF sums, subs, marks
<1> DEFINE u == Owner[s]
<1>0. /\ TypeOK /\ GateInv /\ u \in Users /\ session[s] \in SessionType
  BY LedgerAssumption DEF BaseInv, TypeOK
<1>1. Quiet.step = "idle" /\ "idle" \notin Past /\ "sums" \notin Past
  BY DEF Quiet, Past
<1>2. CASE \E kind \in Kinds : ReadSums(s, kind)
  <2> PICK kind \in Kinds : ReadSums(s, kind) BY <1>2
  <2> DEFINE r == [step |-> "sums", kind |-> kind, balance |-> Balance(u), target |-> 0]
  <2>1. session' = [session EXCEPT ![s] = r]
        /\ UNCHANGED <<earned, spent, withdrawn, payout, desk, torn, raced, overruled>>
    BY DEF ReadSums
  <2>2. r.step \notin Past /\ r.balance <= Balance(u)
    BY <1>0, <1>1, BalanceIsInt
  <2> HIDE DEF r
  <2> QED BY <2>1, <2>2, SessionMoves
<1>3. CASE Finish(s) /\ UNCHANGED <<earned, spent, withdrawn, payout, desk, torn, raced, overruled>>
  BY <1>1, <1>3, SessionMoves DEF Finish
<1>4. CASE /\ session[s].step # "idle" /\ (Undisturbed(u) => OpenOf(u) = {})
           /\ \E r : /\ session' = [session EXCEPT ![s] = r]
                     /\ r.balance = session[s].balance
           /\ UNCHANGED <<earned, spent, withdrawn, payout, desk, torn, raced, overruled>>
  <2> PICK r : session' = [session EXCEPT ![s] = r] /\ r.balance = session[s].balance
    BY <1>4
  <2>1. u \notin torn /\ Undisturbed(u) => session[s].balance <= Balance(u)
    BY <1>4 DEF SerialInv, ReadIsCovered
  <2> QED BY <1>4, <2>1, SessionMoves
<1>5. CASE ReadOpen(s)
  <2>1. CASE Refused(s)
    BY <1>3, <1>5, <2>1 DEF ReadOpen
  <2>2. CASE ~Refused(s)
    <3> DEFINE r == [session[s] EXCEPT !.step = "checked"]
    <3>1. session' = [session EXCEPT ![s] = r] /\ r.balance = session[s].balance
      BY <1>0, <1>5, <2>2 DEF ReadOpen, Goto, TypeOK, SessionType
    <3> QED BY <1>4, <1>5, <2>2, <3>1 DEF ReadOpen, Refused
  <2> QED BY <2>1, <2>2
<1>6. CASE ReadSubscription(s)
  <2> DEFINE r == [session[s] EXCEPT !.step = "opened", !.target = Extended(expire[u])]
  <2>1. session' = [session EXCEPT ![s] = r] /\ r.balance = session[s].balance
    BY <1>0, <1>6 DEF ReadSubscription, TypeOK, SessionType
  <2>2. session[s].step # "idle" /\ (Undisturbed(u) => OpenOf(u) = {})
    BY <1>6 DEF ReadSubscription, SerialInv, NoneOpenPastGates, Past
  <2> QED BY <1>4, <1>6, <2>1, <2>2 DEF ReadSubscription
<1>7. CASE ExtendPanel(s)
  <2>1. CASE Finish(s)
    BY <1>3, <1>7, <2>1 DEF ExtendPanel
  <2>2. CASE Goto(s, "panelled")
    <3> DEFINE r == [session[s] EXCEPT !.step = "panelled"]
    <3>1. session' = [session EXCEPT ![s] = r] /\ r.balance = session[s].balance
      BY <1>0, <2>2 DEF Goto, TypeOK, SessionType
    <3>2. session[s].step # "idle" /\ (Undisturbed(u) => OpenOf(u) = {})
      BY <1>7 DEF ExtendPanel, SerialInv, NoneOpenPastGates, Past
    <3> QED BY <1>4, <1>7, <3>1, <3>2 DEF ExtendPanel
  <2> QED BY <1>7, <2>1, <2>2 DEF ExtendPanel
<1>8. CASE Abandon(s)
  BY <1>3, <1>8 DEF Abandon
<1>9. CASE CommitSpend(s)
  <2>1. /\ session' = [session EXCEPT ![s] = Quiet]
        /\ spent' = [spent EXCEPT ![u] = @ + Price]
        /\ raced' = IF Rivals(s, Past \cup {"sums"}) # {} THEN raced \cup {u} ELSE raced
        /\ UNCHANGED <<earned, withdrawn, payout, desk, torn, overruled>>
    BY <1>9 DEF CommitSpend, Finish, Overtakes
  <2>2. /\ \A v : Undisturbed(v)' => Undisturbed(v)
        /\ \A t \in Sessions \ {s} : Owner[t] = u /\ Undisturbed(u)' => session[t].step = "idle"
    <3>1. \A v : Undisturbed(v)' => Undisturbed(v)
      BY <2>1, StillDisturbed
    <3>2. \A t \in Sessions \ {s} : Owner[t] = u /\ u \notin raced'
              => session[t].step \notin Past \cup {"sums"}
      BY <2>1 DEF Rivals
    <3>3. \A t \in Sessions : session[t].step \in Past \cup {"sums", "idle"}
      BY <1>0 DEF TypeOK, SessionType, Past
    <3> QED BY <3>1, <3>2, <3>3 DEF Undisturbed
  <2>3. /\ Balance(u) \in Int /\ Balance(u)' = Balance(u) - Price
        /\ \A v \in Users \ {u} : Balance(v)' = Balance(v)
        /\ \A v : OpenOf(v)' = OpenOf(v)
    BY <1>0, <2>1, LedgerAssumption DEF Balance, OpenOf, TypeOK
  <2>4. /\ Undisturbed(u) => OpenOf(u) = {}
        /\ session[s].balance >= Price /\ session[s].balance \in Nat
    <3>1. session[s].step \in Past
      BY <1>9 DEF CommitSpend, Past
    <3>2. session[s].kind = "balance"
      BY <1>0, <1>9 DEF CommitSpend, GateInv
    <3> QED BY <1>0, <3>1, <3>2 DEF SerialInv, NoneOpenPastGates, GateInv, Least
  <2>5. u \in torn \/ ~Undisturbed(u) \/ Covered(u)'
    <3>1. u \notin torn /\ Undisturbed(u) => session[s].balance <= Balance(u)
      BY <1>9 DEF CommitSpend, SerialInv, ReadIsCovered
    <3> QED BY <1>0, <2>3, <2>4, <3>1, LedgerAssumption DEF Covered
  <2>6. NoOverdraftUnlessTorn'
    <3> SUFFICES ASSUME NEW v \in Users, v \notin torn, Undisturbed(v)
                 PROVE  Covered(v)'
      BY <2>1, <2>2 DEF NoOverdraftUnlessTorn
    <3>1. CASE v = u
      BY <2>5, <3>1
    <3>2. CASE v # u
      <4>1. Covered(v)
        BY DEF SerialInv, NoOverdraftUnlessTorn
      <4> QED BY <2>1, <2>3, <3>2, <4>1 DEF Covered
    <3> QED BY <3>1, <3>2
  <2>7. session'[s] = Quiet /\ \A t \in Sessions \ {s} : session'[t] = session[t]
    BY <1>0, <2>1 DEF TypeOK
  <2>8. ReadIsCovered'
    <3> SUFFICES ASSUME NEW t \in Sessions, session'[t].step # "idle", Owner[t] \notin torn,
                        Undisturbed(Owner[t])'
                 PROVE  session'[t].balance <= Balance(Owner[t])'
      BY <2>1 DEF ReadIsCovered
    <3>1. t # s /\ session'[t] = session[t]
      BY <1>1, <2>7
    <3>2. Owner[t] # u /\ Owner[t] \in Users
      BY <2>2, <3>1, LedgerAssumption
    <3> QED BY <2>2, <2>3, <3>1, <3>2 DEF SerialInv, ReadIsCovered
  <2>9. NoneOpenPastGates'
    BY <1>1, <2>2, <2>3, <2>7 DEF SerialInv, NoneOpenPastGates
  <2>10. SingleOpenPayout'
    BY <2>1, <2>2 DEF SerialInv, SingleOpenPayout
  <2> QED BY <2>1, <2>6, <2>8, <2>9, <2>10 DEF SerialInv, LoadedIsOpen, OverruledExist
<1>10. CASE \E p \in Payouts, w \in Wallets : CreatePayout(s, p, w)
  <2> PICK p \in Payouts, w \in Wallets : CreatePayout(s, p, w) BY <1>10
  <2>0. session[s].step = "checked" /\ payout[p].status = "none" /\ p \notin overruled
    BY DEF CreatePayout, SerialInv, OverruledExist
  <2>1. /\ Undisturbed(u) => OpenOf(u) = {}
        /\ session[s].balance \in Nat
    BY <1>0, <2>0 DEF SerialInv, NoneOpenPastGates, GateInv, Past
  <2>2. PICK a \in Amounts(s) :
          payout' = [payout EXCEPT ![p] =
                       [user |-> u, method |-> session[s].kind, amount |-> a,
                        status |-> "requested",
                        wallet |-> IF session[s].kind = "crypto" THEN w ELSE None]]
    BY DEF CreatePayout
  <2>3. a \in Nat /\ a <= session[s].balance
    BY <2>1, AmountsBound
  <2>4. /\ session' = [session EXCEPT ![s] = Quiet]
        /\ raced' = IF Rivals(s, Past) # {} THEN raced \cup {u} ELSE raced
        /\ UNCHANGED <<earned, spent, withdrawn, desk, torn, overruled>>
    BY DEF CreatePayout, Finish, Overtakes
  <2>5. /\ payout'[p].user = u /\ payout'[p].amount = a /\ payout'[p].status = "requested"
        /\ \A q \in Payouts \ {p} : payout'[q] = payout[q]
    BY <1>0, <2>2 DEF TypeOK
  <2>6. /\ \A v : Undisturbed(v)' => Undisturbed(v)
        /\ \A t \in Sessions \ {s} : Owner[t] = u /\ Undisturbed(u)' => session[t].step \notin Past
    <3>1. \A q \in overruled : q \in Payouts \ {p}
      BY <1>0, <2>0 DEF TypeOK
    <3>2. \A v : Undisturbed(v)' => Undisturbed(v)
      BY <2>4, <2>5, <3>1, StillDisturbed
    <3>3. \A t \in Sessions \ {s} : Owner[t] = u /\ u \notin raced' => session[t].step \notin Past
      BY <2>4 DEF Rivals
    <3> QED BY <3>2, <3>3 DEF Undisturbed
  <2>7. /\ \A v : Balance(v)' = Balance(v)
        /\ Undisturbed(u) => OpenOf(u)' = {p}
        /\ \A v \in Users \ {u} : OpenOf(v)' = OpenOf(v)
    BY <2>0, <2>1, <2>4, <2>5 DEF Balance, OpenOf, Open
  <2>8. u \in torn \/ ~Undisturbed(u) \/ Covered(u)'
    <3>1. u \notin torn /\ Undisturbed(u) => session[s].balance <= Balance(u)
      BY <2>0 DEF SerialInv, ReadIsCovered
    <3>2. Balance(u) \in Int
      BY <1>0, BalanceIsInt
    <3> QED BY <1>0, <2>1, <2>3, <2>5, <2>7, <3>1, <3>2 DEF Covered
  <2>9. \A v \in Users \ {u} : v \in torn \/ ~Undisturbed(v) \/ Covered(v)'
    <3> SUFFICES ASSUME NEW v \in Users \ {u}, Covered(v) PROVE Covered(v)'
      BY DEF SerialInv, NoOverdraftUnlessTorn
    <3> QED BY <2>0, <2>5, <2>7 DEF Covered, OpenOf, Open
  <2>10. NoOverdraftUnlessTorn'
    BY <2>4, <2>6, <2>8, <2>9 DEF NoOverdraftUnlessTorn
  <2>11. session'[s] = Quiet /\ \A t \in Sessions \ {s} : session'[t] = session[t]
    BY <1>0, <2>4 DEF TypeOK
  <2>12. ReadIsCovered'
    BY <1>1, <2>4, <2>6, <2>7, <2>11 DEF SerialInv, ReadIsCovered
  <2>13. NoneOpenPastGates'
    <3> SUFFICES ASSUME NEW t \in Sessions, session'[t].step \in Past, Undisturbed(Owner[t])'
                 PROVE  OpenOf(Owner[t])' = {}
      BY DEF NoneOpenPastGates
    <3>1. t # s /\ session'[t] = session[t]
      BY <1>1, <2>11
    <3>2. Owner[t] # u /\ Owner[t] \in Users
      BY <2>6, <3>1, LedgerAssumption
    <3> QED BY <2>6, <2>7, <3>1, <3>2 DEF SerialInv, NoneOpenPastGates
  <2>14. SingleOpenPayout'
    BY <2>0, <2>1, <2>5, <2>6 DEF SerialInv, SingleOpenPayout, OpenOf
  <2>15. LoadedIsOpen' /\ OverruledExist'
    BY <1>0, <2>0, <2>4, <2>5
       DEF SerialInv, LoadedIsOpen, OverruledExist, BaseInv, DeskInv, Open, TypeOK
  <2> QED BY <2>10, <2>12, <2>13, <2>14, <2>15 DEF SerialInv
<1> QED BY <1>2, <1>5, <1>6, <1>7, <1>8, <1>9, <1>10 DEF SessionStep

\* Steps that leave the requests and the balances of undisturbed users alone: an
\* open payout of theirs stays the only one, or is closed.
LEMMA PayoutMoves ==
    ASSUME BaseInv, SerialInv, UNCHANGED <<session, raced>>,
           torn \subseteq torn', overruled \subseteq overruled',
           \A u \in Users : Undisturbed(u) => Balance(u)' = Balance(u),
           \A p \in Payouts : /\ payout'[p].user = payout[p].user
                              /\ payout'[p].amount = payout[p].amount
                              /\ payout'[p].status \in Open
                                    => payout[p].status \in Open \/ p \in overruled
    PROVE  NoneOpenPastGates' /\ SingleOpenPayout' /\ ReadIsCovered' /\ NoOverdraftUnlessTorn'
<1>1. \A s \in Sessions : Owner[s] \in Users
  BY LedgerAssumption
<1>2. \A u : Undisturbed(u)' => Undisturbed(u)
  BY StillDisturbed DEF BaseInv, TypeOK
<1>3. \A u : Undisturbed(u) => OpenOf(u)' \subseteq OpenOf(u)
  BY DEF OpenOf, Undisturbed
<1>4. NoneOpenPastGates' /\ ReadIsCovered'
  BY <1>1, <1>2, <1>3 DEF SerialInv, NoneOpenPastGates, ReadIsCovered
<1>5. SingleOpenPayout'
  <2> SUFFICES ASSUME NEW p \in Payouts, NEW q \in Payouts,
                      payout'[p].status \in Open, payout'[q].status \in Open,
                      payout'[p].user = payout'[q].user, Undisturbed(payout[p].user)'
               PROVE  p = q
    BY DEF SingleOpenPayout, Undisturbed
  <2>1. payout[p].user = payout[q].user /\ Undisturbed(payout[p].user)
    BY <1>2
  <2>2. payout[p].status \in Open /\ payout[q].status \in Open
    BY <2>1 DEF Undisturbed
  <2> QED BY <2>1, <2>2 DEF SerialInv, SingleOpenPayout
<1>6. NoOverdraftUnlessTorn'
  <2> SUFFICES ASSUME NEW u \in Users, Covered(u), Undisturbed(u) PROVE Covered(u)'
    BY <1>2 DEF SerialInv, NoOverdraftUnlessTorn
  <2> QED BY <1>3 DEF Covered, OpenOf
<1> QED BY <1>4, <1>5, <1>6

LEMMA DeskSerial ==
    ASSUME BaseInv, SerialInv, NEW o \in Operators, DeskStep(o)
    PROVE  SerialInv'
<1> USE DEF sums, subs, marks
<1> DEFINE p == desk[o].payout
<1>0. TypeOK /\ DeskInv
  BY DEF BaseInv
\* What leaves the other desks in order: a payout open no more is overruled if
\* one of them has it loaded.
<1>1. ASSUME LeaveDesk(o), overruled \subseteq overruled',
             \A q \in Payouts : /\ payout[q].status # "none" => payout'[q].status # "none"
                                /\ payout[q].status \in Open =>
                                      \/ payout'[q].status \in Open
                                      \/ q \in overruled'
                                      \/ \A x \in Operators \ {o} :
                                            ~(desk[x].step = "loaded" /\ desk[x].payout = q),
             \A q \in overruled' : q \in Payouts /\ payout[q].status # "none"
      PROVE  LoadedIsOpen' /\ OverruledExist'
  <2>1. OverruledExist'
    BY <1>0, <1>1 DEF OverruledExist, BaseInv, TypeOK
  <2>2. desk'[o].step = "idle" /\ \A x \in Operators \ {o} : desk'[x] = desk[x]
    BY <1>0, <1>1 DEF LeaveDesk, Empty, TypeOK
  <2>3. LoadedIsOpen'
    BY <1>0, <1>1, <2>2 DEF SerialInv, LoadedIsOpen, DeskInv
  <2> QED BY <2>1, <2>3
<1>2. CASE \E q \in Payouts : Show(o, q)
  <2>1. LoadedIsOpen' /\ OverruledExist'
    BY <1>0, <1>2 DEF Show, SerialInv, LoadedIsOpen, OverruledExist, TypeOK
  <2>2. UNCHANGED <<earned, spent, withdrawn, payout, session, torn, raced, overruled>>
    BY <1>2 DEF Show
  <2> QED BY <2>1, <2>2, PayoutMoves DEF SerialInv, Balance
<1>3. CASE \E verb \in Verbs : LoadOpenPayout(o, verb)
  <2> PICK verb \in Verbs : LoadOpenPayout(o, verb) BY <1>3
  <2>1. p \in Payouts /\ payout[p].status \in Open
    BY <1>0 DEF LoadOpenPayout, Loadable, DeskInv, Open
  <2>2. LoadedIsOpen' /\ OverruledExist'
    BY <1>0, <2>1 DEF LoadOpenPayout, SerialInv, LoadedIsOpen, OverruledExist, TypeOK, DeskType
  <2>3. UNCHANGED <<earned, spent, withdrawn, payout, session, torn, raced, overruled>>
    BY DEF LoadOpenPayout
  <2> QED BY <2>2, <2>3, PayoutMoves DEF SerialInv, Balance
<1>4. ASSUME desk[o].step = "loaded"
      PROVE  /\ p \in Payouts /\ payout[p].status # "none" /\ payout[p].user \in Users
             /\ payout[p].amount \in Nat
             /\ p \in overruled \/ payout[p].status \in Open
  BY <1>0, <1>4 DEF DeskInv, SerialInv, LoadedIsOpen, TypeOK, PayoutType
\* What closing it does to the marks.
<1>5. ASSUME desk[o].step = "loaded", Overrules(o)
      PROVE  /\ overruled \subseteq overruled'
             /\ \A q \in overruled' : q \in Payouts /\ payout[q].status # "none"
             /\ \/ p \in overruled'
                \/ \A x \in Operators \ {o} : ~(desk[x].step = "loaded" /\ desk[x].payout = p)
  BY <1>0, <1>4, <1>5 DEF Overrules, SerialInv, OverruledExist, TypeOK
\* Started or rejected: no balance of an undisturbed user changes.
<1>6. ASSUME NEW status \in {"processing", "rejected"}, desk[o].step = "loaded",
             Settle(p, status), LeaveDesk(o), UNCHANGED <<earned, spent, session, torn, raced>>,
             \/ status = "processing" /\ UNCHANGED overruled
             \/ Overrules(o)
      PROVE  SerialInv'
  <2>1. \A q \in Payouts : /\ payout'[q].user = payout[q].user
                           /\ payout'[q].amount = payout[q].amount
                           /\ payout'[q].status = IF q = p THEN status ELSE payout[q].status
    BY <1>0, <1>4, <1>6, SettleUpdate DEF Statuses
  <2>2. \A v \in Users : Undisturbed(v) => withdrawn'[v] = withdrawn[v]
    <3>1. CASE p \in overruled
      <4>1. \A v \in Users \ {payout[p].user} : withdrawn'[v] = withdrawn[v]
        BY <1>0, <1>4, <1>6, SettleUpdate DEF Statuses
      <4> QED BY <3>1, <4>1 DEF Undisturbed
    <3>2. CASE payout[p].status \in Open
      BY <1>0, <1>4, <1>6, <3>2 DEF Settle, TypeOK, Open
    <3> QED BY <1>4, <1>6, <3>1, <3>2
  <2>3. \A v \in Users : Undisturbed(v) => Balance(v)' = Balance(v)
    BY <1>6, <2>2 DEF Balance
  <2>4. /\ overruled \subseteq overruled'
        /\ \A q \in overruled' : q \in Payouts /\ payout[q].status # "none"
        /\ \/ status \in Open
           \/ p \in overruled'
           \/ \A x \in Operators \ {o} : ~(desk[x].step = "loaded" /\ desk[x].payout = p)
    BY <1>0, <1>5, <1>6 DEF SerialInv, OverruledExist, Open, TypeOK
  <2>5. LoadedIsOpen' /\ OverruledExist'
    BY <1>1, <1>6, <2>1, <2>4
  <2>6. \A q \in Payouts : payout'[q].status \in Open
                              => payout[q].status \in Open \/ q \in overruled
    BY <1>4, <1>6, <2>1
  <2> QED BY <1>6, <2>1, <2>3, <2>4, <2>5, <2>6, PayoutMoves DEF SerialInv
<1>7. CASE MarkProcessing(o)
  BY <1>6, <1>7 DEF MarkProcessing
<1>8. CASE MarkRejected(o)
  BY <1>6, <1>8 DEF MarkRejected
<1>9. CASE Leave(o)
  <2>1. UNCHANGED <<earned, spent, withdrawn, payout, session, torn, raced, overruled>>
    BY <1>9 DEF Leave
  <2>2. LoadedIsOpen' /\ OverruledExist'
    BY <1>0, <1>1, <1>9, <2>1 DEF Leave, SerialInv, OverruledExist, TypeOK
  <2> QED BY <2>1, <2>2, PayoutMoves DEF SerialInv, Balance
<1>10. CASE MarkPaid(o)
  <2> DEFINE u == payout[p].user
  <2>0. /\ desk[o].step = "loaded" /\ Settle(p, "paid") /\ LeaveDesk(o) /\ Overrules(o)
        /\ UNCHANGED <<earned, spent, session, raced>>
        /\ torn' = IF \E s \in Sessions : Owner[s] = u /\ session[s].step = "sums"
                   THEN torn \cup {u} ELSE torn
    BY <1>10 DEF MarkPaid
  <2>1. /\ p \in Payouts /\ payout[p].status # "none" /\ u \in Users
        /\ payout[p].amount \in Nat
        /\ p \in overruled \/ payout[p].status \in Open
    BY <1>4, <2>0
  <2>2. \A q \in Payouts : /\ payout'[q].user = payout[q].user
                           /\ payout'[q].amount = payout[q].amount
                           /\ payout'[q].status = IF q = p THEN "paid" ELSE payout[q].status
    BY <1>0, <2>0, <2>1, SettleUpdate DEF Statuses
  <2>3. \A v \in Users \ {u} : withdrawn'[v] = withdrawn[v] /\ Balance(v)' = Balance(v)
    BY <1>0, <2>0, <2>1, SettleUpdate DEF Statuses, Balance
  <2>4. /\ overruled \subseteq overruled'
        /\ \A v : Undisturbed(v)' => Undisturbed(v)
    <3>1. overruled \subseteq overruled'
      BY <1>5, <2>0
    <3> QED BY <1>0, <2>0, <2>2, <3>1, StillDisturbed DEF TypeOK
  <2>5. LoadedIsOpen' /\ OverruledExist'
    BY <1>1, <1>5, <2>0, <2>2
  <2>6. \A q \in Payouts : payout'[q].status \in Open => q # p /\ payout[q].status \in Open
    BY <2>2 DEF Open
  <2>7. CASE ~Undisturbed(u)
    <3>1. \A v \in Users : Undisturbed(v) => Balance(v)' = Balance(v)
      BY <2>3, <2>7
    <3>2. torn \subseteq torn'
      BY <2>0
    <3> QED BY <2>0, <2>2, <2>4, <2>5, <2>6, <3>1, <3>2, PayoutMoves DEF SerialInv
  <2>8. CASE Undisturbed(u)
    <3>0. payout[p].status \in Open /\ payout[p].status # "paid"
      BY <2>1, <2>8 DEF Undisturbed, Open
    <3>1. /\ Balance(u) \in Int
          /\ earned'[u] - spent'[u] - withdrawn'[u] = Balance(u) - payout[p].amount
      <4>1. withdrawn'[u] = withdrawn[u] + payout[p].amount - 0
        BY <1>0, <2>0, <2>1, <3>0 DEF Settle, TypeOK
      <4> QED BY <1>0, <2>0, <2>1, <4>1 DEF Balance, TypeOK
    <3>2. /\ OpenOf(u) = {p}
          /\ \A q \in Payouts : ~(payout'[q].user = u /\ payout'[q].status \in Open)
          /\ \A v \in Users \ {u} : OpenOf(v)' = OpenOf(v)
      <4>1. OpenOf(u) = {p}
        BY <2>1, <2>8, <3>0 DEF OpenOf, SerialInv, SingleOpenPayout
      <4> QED BY <2>1, <2>2, <2>6, <4>1 DEF OpenOf
    <3>3. NoneOpenPastGates'
      BY <2>0, <2>2, <2>4, <3>2, LedgerAssumption DEF SerialInv, NoneOpenPastGates, OpenOf
    <3>4. SingleOpenPayout'
      BY <2>2, <2>4, <2>6 DEF SerialInv, SingleOpenPayout
    <3>5. NoOverdraftUnlessTorn'
      <4> SUFFICES ASSUME NEW v \in Users, Covered(v) PROVE Covered(v)'
        BY <2>0, <2>4 DEF SerialInv, NoOverdraftUnlessTorn
      <4>1. CASE v = u
        <5>1. payout[p].amount <= Balance(u)
          BY <3>2, <4>1 DEF Covered
        <5>2. \A q \in Payouts : ~(payout'[q].user = v /\ payout'[q].status \in Open)
          BY <3>2, <4>1
        <5>3. earned'[v] - spent'[v] - withdrawn'[v] >= 0
          BY <2>1, <3>1, <4>1, <5>1
        <5>4. Balance(v)' >= 0
          BY <5>3 DEF Balance
        <5> QED BY <5>2, <5>4 DEF Covered, OpenOf
      <4>2. CASE v # u
        <5>1. Balance(v)' = Balance(v) /\ OpenOf(v)' = OpenOf(v)
          BY <2>3, <3>2, <4>2
        <5>2. \A q \in OpenOf(v) : payout'[q].amount = payout[q].amount
          BY <2>2 DEF OpenOf
        <5> QED BY <5>1, <5>2 DEF Covered
      <4> QED BY <4>1, <4>2
    <3>6. ReadIsCovered'
      <4> SUFFICES ASSUME NEW s \in Sessions, session[s].step # "idle", Owner[s] \notin torn',
                          Undisturbed(Owner[s])
                   PROVE  session[s].balance <= Balance(Owner[s])'
        BY <2>0, <2>4 DEF ReadIsCovered
      <4>1. session[s].step \in Past \cup {"sums"} /\ Owner[s] \in Users /\ Owner[s] \notin torn
        BY <1>0, <2>0, LedgerAssumption DEF TypeOK, SessionType, Past
      <4>2. Owner[s] # u
        BY <2>0, <3>2, <4>1 DEF SerialInv, NoneOpenPastGates
      <4> QED BY <2>3, <4>1, <4>2 DEF SerialInv, ReadIsCovered
    <3> QED BY <2>5, <3>3, <3>4, <3>5, <3>6 DEF SerialInv
  <2> QED BY <2>7, <2>8
<1> QED BY <1>2, <1>3, <1>7, <1>8, <1>9, <1>10 DEF DeskStep

LEMMA NextSerial ==
    ASSUME BaseInv, SerialInv, [Next]_vars
    PROVE  SerialInv'
<1> USE DEF sums, subs, marks
<1>0. TypeOK
  BY DEF BaseInv
<1>1. CASE \E k \in Payments, u \in Users, c \in Commissions : RecordCommission(k, u, c)
  <2>1. \A u \in Users : Balance(u)' \in Int /\ Balance(u)' >= Balance(u)
    BY <1>0, <1>1, LedgerAssumption DEF RecordCommission, Balance, TypeOK
  <2> QED BY <1>1, <2>1, HarmlessStep DEF RecordCommission
<1>2. CASE \E s \in Sessions : SessionStep(s)
  BY <1>2, SessionSerial
<1>3. CASE \E u \in Users, w \in Wallets : ChangeWallet(u, w)
  <2>1. \A p \in Payouts : /\ payout'[p].user = payout[p].user
                           /\ payout'[p].amount = payout[p].amount
                           /\ payout'[p].status = payout[p].status
    BY <1>0, <1>3 DEF ChangeWallet, TypeOK, PayoutType
  <2>2. UNCHANGED <<earned, spent, withdrawn, session, desk, torn, raced, overruled>>
    BY <1>3 DEF ChangeWallet
  <2>3. LoadedIsOpen' /\ OverruledExist'
    BY <1>0, <2>1, <2>2 DEF SerialInv, LoadedIsOpen, OverruledExist, BaseInv, DeskInv, TypeOK
  <2> QED BY <2>1, <2>2, <2>3, PayoutMoves DEF SerialInv, Balance
<1>4. CASE \E o \in Operators : DeskStep(o)
  BY <1>4, DeskSerial
<1>5. CASE RunCryptoBatch
  <2>1. \A p \in Payouts : /\ payout'[p].user = payout[p].user
                           /\ payout'[p].amount = payout[p].amount
                           /\ payout'[p].status \in Open <=> payout[p].status \in Open
                           /\ payout[p].status # "none" => payout'[p].status # "none"
    BY <1>0, <1>5 DEF RunCryptoBatch, Collectable, TypeOK, PayoutType, Open
  <2>2. UNCHANGED <<earned, spent, withdrawn, session, desk, torn, raced, overruled>>
    BY <1>5 DEF RunCryptoBatch
  <2>3. LoadedIsOpen' /\ OverruledExist'
    BY <1>0, <2>1, <2>2 DEF SerialInv, LoadedIsOpen, OverruledExist, BaseInv, DeskInv, TypeOK
  <2> QED BY <2>1, <2>2, <2>3, PayoutMoves DEF SerialInv, Balance
<1>6. CASE UNCHANGED vars
  <2>1. UNCHANGED <<earned, spent, withdrawn, payout, session, desk, torn, raced, overruled>>
    BY <1>6 DEF vars
  <2>2. \A u \in Users : Balance(u) \in Int /\ Balance(u)' = Balance(u)
    BY <1>0, <2>1, BalanceIsInt DEF Balance
  <2> QED BY <2>1, <2>2, HarmlessStep
<1> QED BY <1>1, <1>2, <1>3, <1>4, <1>5, <1>6 DEF Next

\* A user whose requests never overtook each other, and whose payouts no two
\* operators held when one closed them, has one open payout at most.
THEOREM OnePayoutAtATime == Spec => []SingleOpenPayout
<1>1. SerialInv => SingleOpenPayout
  BY DEF SerialInv
<1> QED BY <1>1, InitBase, NextBase, InitSerial, NextSerial, PTL DEF Spec

\* Every open payout and every spend of such a user is covered by the balance,
\* unless a payout was paid between the two reads of a request.
THEOREM BalanceCovers == Spec => []NoOverdraftUnlessTorn
<1>1. SerialInv => NoOverdraftUnlessTorn
  BY DEF SerialInv
<1> QED BY <1>1, InitBase, NextBase, InitSerial, NextSerial, PTL DEF Spec

\* Only an operator who loaded a payout before another closed it moves a paid one.
LEMMA PaidKept ==
    ASSUME BaseInv, SerialInv, [Next]_vars
    PROVE  \A p \in Payouts : payout[p].status = "paid" /\ p \notin overruled
                                  => payout'[p].status = "paid"
<1> USE DEF sums, subs, marks
<1> SUFFICES ASSUME NEW p \in Payouts, payout[p].status = "paid", p \notin overruled
             PROVE  payout'[p].status = "paid"
  OBVIOUS
<1>0. TypeOK /\ DeskInv
  BY DEF BaseInv
<1>1. CASE \E s \in Sessions : SessionStep(s)
  <2>1. CASE \E s \in Sessions, q \in Payouts, w \in Wallets : CreatePayout(s, q, w)
    BY <1>0, <2>1 DEF CreatePayout, TypeOK
  <2>2. CASE UNCHANGED payout
    BY <2>2
  <2> QED BY <1>1, <2>1, <2>2
          DEF SessionStep, ReadSums, ReadOpen, ReadSubscription, ExtendPanel, CommitSpend, Abandon
<1>2. CASE \E o \in Operators : DeskStep(o)
  <2> PICK o \in Operators : DeskStep(o) BY <1>2
  <2>1. ASSUME NEW status \in Statuses \ {"none"}, desk[o].step = "loaded",
               Settle(desk[o].payout, status)
        PROVE  payout'[p].status = "paid"
    <3>1. /\ desk[o].payout \in Payouts /\ payout[desk[o].payout].status # "none"
          /\ desk[o].payout # p
      BY <1>0, <2>1 DEF DeskInv, SerialInv, LoadedIsOpen, Open
    <3> QED BY <1>0, <2>1, <3>1, SettleUpdate
  <2>2. CASE MarkProcessing(o) \/ MarkPaid(o) \/ MarkRejected(o)
    BY <2>1, <2>2 DEF MarkProcessing, MarkPaid, MarkRejected, Statuses
  <2>3. CASE UNCHANGED payout
    BY <2>3
  <2> QED BY <2>2, <2>3 DEF DeskStep, Show, LoadOpenPayout, Leave
<1>3. CASE \E u \in Users, w \in Wallets : ChangeWallet(u, w)
  BY <1>0, <1>3 DEF ChangeWallet, TypeOK, PayoutType
<1>4. CASE RunCryptoBatch
  BY <1>0, <1>4 DEF RunCryptoBatch, Collectable, TypeOK, PayoutType
<1>5. CASE UNCHANGED payout
  BY <1>5
<1> QED BY <1>1, <1>2, <1>3, <1>4, <1>5 DEF Next, vars, RecordCommission

\* A paid payout is never moved back, however many requests its user has in
\* flight and however many operators work the queue, unless one of them had it
\* loaded when another closed it.
THEOREM PaidStaysPaid == Spec => PaidIsFinal
<1> DEFINE Kept == \A p \in Payouts : payout[p].status = "paid" /\ p \notin overruled
                                          => payout'[p].status = "paid"
<1>1. BaseInv /\ SerialInv /\ [Next]_vars => SerialInv' /\ Kept
  BY NextSerial, PaidKept
<1>2. Spec => [][Kept]_vars
  BY <1>1, InitBase, NextBase, InitSerial, PTL DEF Spec
<1> QED BY <1>2 DEF PaidIsFinal

-----------------------------------------------------------------------------
(* Nudges.                                                                  *)

\* A sweep knows the rows of its own table, each once; it sends nobody two messages,
\* and none to a user it has sent one.
Wrote(s, status) == {i \in DOMAIN sweep[s].wrote : sweep[s].wrote[i] = status}

Told(s, u) == \E i \in Wrote(s, "sent") : User(i) = u

OfTable(i) == TableOf(Chain[Step(i)])

SweepOK(w) ==
    /\ w.table = "none" => w = Idle
    /\ \A i \in ToSet(w.list) \cup DOMAIN w.wrote : OfTable(i) = w.table
    /\ IsInjective(w.list)
    /\ \A i \in DOMAIN w.wrote : w.wrote[i] = "sent" => i \notin ToSet(w.list)
    /\ \A i, j \in DOMAIN w.wrote :
          w.wrote[i] = "sent" /\ w.wrote[j] = "sent" /\ User(i) = User(j) => i = j
    /\ w.sending => /\ w.list # <<>>
                    /\ \A i \in DOMAIN w.wrote :
                          w.wrote[i] = "sent" => User(i) # User(Head(w.list))

SweepInv == \A s \in Sweeps : SweepOK(sweep[s])

ArmsInv ==
    /\ IsFiniteSet(arming)
    /\ \A a \in arming : \A t \in a.steps : Chain[t] = a.chain

Copies(u, t) == {<<u, t, 1>>, <<u, t, 2>>}

\* A copy of a reminder that no sweep may send but one that has it on its list.
Unsent(i) == row[i].status = "pending" /\ \A s \in Sweeps : i \notin Wrote(s, "sent")

UnsentCopies(u, t) == {i \in Copies(u, t) : Unsent(i)}
ArmsOf(u, t) == {a \in arming : a.user = u /\ t \in a.steps}
Fresh(u, t) == IF u \in users /\ ~Exists(u, t) /\ ArmsOf(u, t) = {} THEN 1 ELSE 0
Able(s, u, t) == Active(s) /\ sweep[s].table = TableOf(Chain[t]) /\ ~Told(s, u)
Paid(u, t, paid) == {s \in paid : Able(s, u, t)}
Late(u, t, paid) == {s \in Sweeps \ paid :
                       /\ Able(s, u, t)
                       /\ \E i \in Copies(u, t) \cap ToSet(sweep[s].list) : ~Unsent(i)}

Chances(u, t, paid) ==
    Cardinality(UnsentCopies(u, t)) + Cardinality(ArmsOf(u, t)) + Fresh(u, t)
    + Cardinality(Paid(u, t, paid)) + Cardinality(Late(u, t, paid))

OneUnpaid(paid) ==
    \A s, o \in Sweeps \ paid : Active(s) /\ sweep[s].table = sweep[o].table => s = o

OnceFor(paid) ==
    /\ OneUnpaid(paid)
    /\ \A u \in Audience, t \in Steps : received[u][t] + Chances(u, t, paid) <= 1 + faults

OnceInv == \E paid \in SUBSET Sweeps : OnceFor(paid)

Alike(i, j) == User(i) = User(j) /\ OfTable(i) = OfTable(j)

\* As long as no sweep overlaps another and no chain is armed twice: a table has one
\* sweep, which began after what was sent to its users before; the user it is about to
\* write to has had nothing within the gap and less than the cap within the day, in
\* the table and by the sweep itself; so has, before the sweep, a user it wrote to.
Alone == \A s, o \in Sweeps : Active(s) /\ sweep[s].table = sweep[o].table => s = o

Behind == \A s \in Sweeps : Active(s) => \A i \in Ids :
            OfTable(i) = sweep[s].table /\ row[i].status = "sent" => row[i].age >= sweep[s].since

Cleared == \A s \in Sweeps : sweep[s].sending => ~RateLimited(s, User(Head(sweep[s].list)))

SentBy(s, i) == {j \in Ids \ DOMAIN sweep[s].wrote : Alike(i, j) /\ row[j].status = "sent"}
Near(s, i)   == {j \in SentBy(s, i) : row[j].age - sweep[s].since <= Day}

SpacedAt(s, i) ==
    /\ \A j \in SentBy(s, i) : row[j].age - sweep[s].since > Gap
    /\ Cardinality(Near(s, i)) < DailyCap[OfTable(i)]

Spaced == \A s \in Sweeps : \A i \in Wrote(s, "sent") : SpacedAt(s, i)

SentRows(u, t) == {i \in Ids : /\ User(i) = u /\ OfTable(i) = t
                               /\ row[i].status = "sent" /\ row[i].age < MaxAge}
SameDay(u, t, i) == {j \in SentRows(u, t) : row[j].age - row[i].age \in 0..Day}

PacedFor(u, t) ==
    \A i \in SentRows(u, t) :
        /\ \A j \in SentRows(u, t) \ {i} : \/ row[i].age - row[j].age > Gap
                                           \/ row[j].age - row[i].age > Gap
        /\ Cardinality(SameDay(u, t, i)) <= DailyCap[t]

AllPaced == \A u \in Audience, t \in Tables : PacedFor(u, t)

Paces == Alone /\ Behind /\ Cleared /\ Spaced /\ AllPaced

PaceInv == faults = 0 => Paces

SilenceInv ==
    /\ \A i \in Ids : Chain[Step(i)] = "A" /\ row[i].status = "pending" /\ User(i) \in connected
                        => User(i) \in rearmed
    /\ \A s \in Sweeps : \A i \in ToSet(sweep[s].list) :
          Chain[Step(i)] = "A" /\ User(i) \in sweep[s].connected => User(i) \in rearmed

-----------------------------------------------------------------------------
(* The queue.                                                               *)

LEMMA IdsFinite == IsFiniteSet(Ids)
<1> DEFINE f == [p \in (Audience \X Steps) \X {1, 2} |-> <<p[1][1], p[1][2], p[2]>>]
<1>1. IsFiniteSet((Audience \X Steps) \X {1, 2})
  <2>1. IsFiniteSet(Audience \X Steps)
    BY NudgesAssumption, FS_Product DEF NudgesAssumption
  <2>2. IsFiniteSet({1, 2})
    <3>1. IsFiniteSet({1}) /\ {1} \cup {2} = {1, 2}
      BY FS_Singleton
    <3> QED BY <3>1, FS_AddElement
  <2> QED BY <2>1, <2>2, FS_Product
<1>2. f \in Surjection((Audience \X Steps) \X {1, 2}, Ids)
  <2>1. f \in [(Audience \X Steps) \X {1, 2} -> Ids]
    BY DEF Ids
  <2>2. ASSUME NEW i \in Ids PROVE \E p \in (Audience \X Steps) \X {1, 2} : f[p] = i
    <3> DEFINE p == <<<<i[1], i[2]>>, i[3]>>
    <3>1. p \in (Audience \X Steps) \X {1, 2} /\ <<i[1], i[2], i[3]>> = i
      BY DEF Ids
    <3>2. f[p] = i
      BY <3>1
    <3> QED BY <3>1, <3>2
  <2> QED BY <2>1, <2>2 DEF Surjection
<1> QED BY <1>1, <1>2, FS_Surjection

\* Keys that tell the members of S apart put them in a row.
Lower(S, key, i) == {j \in S : key[j] < key[i]}

LEMMA InOrderFacts ==
    ASSUME NEW S, IsFiniteSet(S), NEW key,
           \A i \in S : key[i] \in Int,
           \A i, j \in S : key[i] = key[j] => i = j
    PROVE  /\ InOrder(S, key) \in Seq(S)
           /\ Len(InOrder(S, key)) = Cardinality(S)
           /\ ToSet(InOrder(S, key)) = S
           /\ IsInjective(InOrder(S, key))
           /\ \A j, k \in DOMAIN InOrder(S, key) :
                 j < k => key[InOrder(S, key)[j]] < key[InOrder(S, key)[k]]
<1> DEFINE N == Cardinality(S)
           size(i) == Cardinality(Lower(S, key, i))
           rank == [i \in S |-> size(i) + 1]
           o == InOrder(S, key)
<1>1. N \in Nat
  BY FS_CardinalityType
<1>2. ASSUME NEW i \in S
      PROVE  IsFiniteSet(Lower(S, key, i)) /\ size(i) \in 0..(N - 1)
  <2>1. Lower(S, key, i) \in SUBSET S /\ i \notin Lower(S, key, i)
    <3>1. key[i] \in Int
      OBVIOUS
    <3> QED BY <3>1 DEF Lower
  <2>2. IsFiniteSet(Lower(S, key, i)) /\ size(i) <= N /\ size(i) \in Nat
    BY <2>1, FS_Subset, FS_CardinalityType
  <2>3. size(i) # N
    BY <2>1, FS_Subset
  <2> HIDE DEF size, N
  <2> QED BY <2>2, <2>3, <1>1
<1>3. ASSUME NEW i \in S, NEW j \in S, key[i] < key[j]
      PROVE  size(i) < size(j)
  <2>1. Lower(S, key, i) \in SUBSET Lower(S, key, j)
    BY <1>3 DEF Lower
  <2>2. i \in Lower(S, key, j) /\ i \notin Lower(S, key, i)
    <3>1. key[i] \in Int
      OBVIOUS
    <3> QED BY <3>1, <1>3 DEF Lower
  <2>3. IsFiniteSet(Lower(S, key, j)) /\ size(i) \in Nat /\ size(j) \in Nat
    BY <1>2
  <2>4. size(i) <= size(j) /\ size(i) # size(j)
    BY <2>1, <2>2, <2>3, FS_Subset
  <2> HIDE DEF size
  <2> QED BY <2>3, <2>4
<1> HIDE DEF size, N
<1>4. rank \in Injection(S, 1..N)
  <2>1. rank \in [S -> 1..N] /\ \A i \in S : size(i) \in Nat
    BY <1>1, <1>2
  <2>2. ASSUME NEW i \in S, NEW j \in S, rank[i] = rank[j] PROVE i = j
    <3>1. size(i) = size(j)
      BY <2>1, <2>2
    <3>2. ~(key[i] < key[j]) /\ ~(key[j] < key[i])
      BY <3>1, <2>1, <1>3
    <3> QED BY <3>2
  <2> QED BY <2>1, <2>2 DEF Injection, IsInjective
<1>5. rank \in Surjection(S, 1..N)
  <2>1. IsFiniteSet(1..N) /\ Cardinality(1..N) = N
    BY <1>1, FS_Interval
  <2> QED BY <2>1, <1>4, FS_Injection DEF N
<1> HIDE DEF rank
<1>6. \A i \in S : rank[i] \in 1..N /\ size(i) = rank[i] - 1
  BY <1>1, <1>2 DEF rank
<1>7. ASSUME NEW n \in 1..N
      PROVE  o[n] \in S /\ rank[o[n]] = n
  <2>1. PICK i \in S : rank[i] = n
    BY <1>5 DEF Surjection
  <2>2. size(i) = n - 1
    BY <2>1, <1>6
  <2>3. o[n] = CHOOSE k \in S : size(k) = n - 1
    BY DEF InOrder, size, N, Lower
  <2>4. o[n] \in S /\ size(o[n]) = n - 1
    BY <2>2, <2>3
  <2> QED BY <2>4, <1>6, <1>1
<1>8. o \in [1..N -> S] /\ DOMAIN o = 1..N
  BY <1>7 DEF InOrder, N
<1> HIDE DEF o
<1>9. o \in Seq(S) /\ Len(o) = N
  BY <1>8, <1>1
<1>10. ToSet(o) = S
  <2>1. ASSUME NEW i \in S PROVE \E n \in 1..N : o[n] = i
    <3>1. rank[i] \in 1..N /\ o[rank[i]] \in S /\ rank[o[rank[i]]] = rank[i]
      BY <1>6, <1>7
    <3>2. o[rank[i]] = i
      BY <3>1, <1>4 DEF Injection, IsInjective
    <3> QED BY <3>1, <3>2
  <2> QED BY <2>1, <1>8 DEF ToSet
<1>11. IsInjective(o)
  BY <1>7, <1>8 DEF IsInjective
<1>12. ASSUME NEW j \in 1..N, NEW k \in 1..N, j < k PROVE key[o[j]] < key[o[k]]
  <2>1. rank[o[j]] = j /\ rank[o[k]] = k /\ o[j] \in S /\ o[k] \in S
    BY <1>7
  <2>2. ~(key[o[k]] < key[o[j]])
    BY <2>1, <1>12, <1>3, <1>6
  <2>3. o[j] # o[k]
    BY <2>1, <1>12
  <2> QED BY <2>1, <2>2, <2>3
<1> QED BY <1>8, <1>9, <1>10, <1>11, <1>12 DEF o, N

LEMMA PlaceFacts ==
    ASSUME NEW q, q \in Seq(Ids), IsInjective(q)
    PROVE  /\ \A i \in ToSet(q) : Place(q)[i] \in 1..Len(q) /\ q[Place(q)[i]] = i
           /\ \A i, j \in ToSet(q) : Place(q)[i] = Place(q)[j] => i = j
BY DEF Place, ToSet, IsInjective

LEMMA WithoutFacts ==
    ASSUME NEW q, q \in Seq(Ids), IsInjective(q), NEW ids
    PROVE  /\ Without(q, ids) \in Seq(Ids)
           /\ ToSet(Without(q, ids)) = ToSet(q) \ ids
           /\ IsInjective(Without(q, ids))
           /\ \A j, k \in DOMAIN Without(q, ids) : j < k =>
                 \E a, b \in DOMAIN q : /\ a < b /\ Without(q, ids)[j] = q[a]
                                        /\ Without(q, ids)[k] = q[b]
<1> DEFINE S == ToSet(q) \ ids
           w == InOrder(S, Place(q))
<1>1. S \subseteq Ids /\ IsFiniteSet(S)
  BY IdsFinite, FS_Subset DEF ToSet
<1>2. \A i \in S : Place(q)[i] \in 1..Len(q) /\ Place(q)[i] \in Int /\ q[Place(q)[i]] = i
  BY PlaceFacts
<1>3. \A i, j \in S : Place(q)[i] = Place(q)[j] => i = j
  BY PlaceFacts
<1> HIDE DEF S
<1>4. /\ w \in Seq(S) /\ ToSet(w) = S /\ IsInjective(w)
      /\ \A j, k \in DOMAIN w : j < k => Place(q)[w[j]] < Place(q)[w[k]]
  BY <1>1, <1>2, <1>3, InOrderFacts
<1> HIDE DEF w
<1>5. w \in Seq(Ids) /\ \A j \in DOMAIN w : w[j] \in S
  BY <1>1, <1>4
<1>6. ASSUME NEW j \in DOMAIN w, NEW k \in DOMAIN w, j < k
      PROVE  \E a, b \in DOMAIN q : a < b /\ w[j] = q[a] /\ w[k] = q[b]
  BY <1>2, <1>4, <1>5, <1>6
<1>7. Without(q, ids) = w
  BY DEF Without, w, S
<1> QED BY <1>4, <1>5, <1>6, <1>7 DEF S

\* The queue before the rows of `new` go into it, by fire_at, and after.
Sorted(q, r) == \A j, k \in DOMAIN q : j < k => r[q[j]].wait <= r[q[k]].wait

LEMMA WithoutSorted ==
    ASSUME NEW q, q \in Seq(Ids), IsInjective(q), NEW ids, NEW r, Sorted(q, r)
    PROVE  Sorted(Without(q, ids), r)
BY WithoutFacts DEF Sorted

LEMMA Lexicographic ==
    ASSUME NEW a \in Nat, NEW b \in Nat, NEW base \in Nat, NEW m \in Nat, NEW n \in Nat,
           m < base, n < base
    PROVE  /\ a * base + m <= b * base + n => a <= b
           /\ a * base + m = b * base + n => a = b /\ m = n
<1>1. ASSUME NEW c \in Nat, NEW d \in Nat, NEW k \in Nat, NEW l \in Nat, c < d, k < base
      PROVE  c * base + k < d * base + l
  <2>1. PICK e \in Nat : d = c + 1 + e
    <3>1. d - c - 1 \in Nat /\ d = c + 1 + (d - c - 1)
      BY <1>1
    <3> QED BY <3>1
  <2>2. d * base = c * base + base + e * base
    BY <2>1
  <2>3. e * base \in Nat /\ c * base \in Nat
    OBVIOUS
  <2> DEFINE x == c * base
             y == e * base
  <2>4. d * base = x + base + y /\ x \in Nat /\ y \in Nat
    BY <2>2, <2>3
  <2> HIDE DEF x, y
  <2>5. x + k < x + base + y + l
    BY <1>1, <2>4
  <2> QED BY <2>4, <2>5 DEF x
<1>2. a * base \in Nat /\ b * base \in Nat
  OBVIOUS
<1>3. ~(b < a) \/ ~(a * base + m <= b * base + n)
  <2>1. b < a => b * base + n < a * base + m
    BY <1>1
  <2> DEFINE x == a * base
             y == b * base
  <2>2. x \in Nat /\ y \in Nat /\ (b < a => y + n < x + m)
    BY <1>2, <2>1
  <2> HIDE DEF x, y
  <2>3. ~(b < a) \/ ~(x + m <= y + n)
    BY <2>2
  <2> QED BY <2>3 DEF x, y
<1>4. a * base + m = b * base + n => ~(b < a) /\ ~(a < b)
  <2>1. (b < a => b * base + n < a * base + m) /\ (a < b => a * base + m < b * base + n)
    BY <1>1
  <2> DEFINE x == a * base
             y == b * base
  <2>2. x \in Nat /\ y \in Nat /\ (b < a => y + n < x + m) /\ (a < b => x + m < y + n)
    BY <1>2, <2>1
  <2> HIDE DEF x, y
  <2>3. x + m = y + n => ~(b < a) /\ ~(a < b)
    BY <2>2
  <2> QED BY <2>3 DEF x, y
<1>5. a * base + m = a * base + n => m = n
  <2> DEFINE x == a * base
  <2>1. x \in Nat
    BY <1>2
  <2> HIDE DEF x
  <2>2. x + m = x + n => m = n
    BY <2>1
  <2> QED BY <2>2 DEF x
<1>6. a * base + m = b * base + n => a = b
  BY <1>4
<1> QED BY <1>3, <1>5, <1>6

LEMMA EnqueueFacts ==
    ASSUME NEW q, q \in Seq(Ids), IsInjective(q), NEW r, \A i \in Ids : r[i].wait \in Nat,
           NEW new, new \subseteq Ids
    PROVE  /\ Enqueue(q, r, new) \in Seq(Ids)
           /\ ToSet(Enqueue(q, r, new)) = ToSet(q) \cup new
           /\ IsInjective(Enqueue(q, r, new))
           /\ Sorted(Enqueue(q, r, new), r)
<1> DEFINE S == ToSet(q) \cup new
           N == Cardinality(new)
           nth == CHOOSE f \in [new -> 1..N] : IsInjective(f)
           base == Len(q) + N + 1
           rest(i) == IF i \in new THEN Len(q) + nth[i] ELSE Place(q)[i]
           key == [i \in S |-> r[i].wait * base + rest(i)]
           w == InOrder(S, key)
<1>1. S \subseteq Ids /\ IsFiniteSet(S) /\ IsFiniteSet(new) /\ N \in Nat /\ Len(q) \in Nat
  <2>1. S \in SUBSET Ids /\ new \in SUBSET Ids
    BY DEF ToSet
  <2> QED BY <2>1, IdsFinite, FS_Subset, FS_CardinalityType
<1>2. nth \in [new -> 1..N] /\ IsInjective(nth)
  <2>1. \E f \in [new -> 1..N] : IsInjective(f)
    <3>1. PICK g \in Bijection(1..N, new) : TRUE
      BY <1>1, FS_CardinalityType DEF ExistsBijection
    <3>2. /\ \A n \in 1..N : g[n] \in new
          /\ \A m, n \in 1..N : g[m] = g[n] => m = n
          /\ \A i \in new : \E n \in 1..N : g[n] = i
      BY <3>1 DEF Bijection, Injection, Surjection, IsInjective
    <3> DEFINE f == [i \in new |-> CHOOSE n \in 1..N : g[n] = i]
    <3>3. \A i \in new : f[i] \in 1..N /\ g[f[i]] = i
      BY <3>2
    <3>4. f \in [new -> 1..N] /\ \A i, j \in new : f[i] = f[j] => i = j
      BY <3>3
    <3> HIDE DEF f
    <3> QED BY <3>4 DEF IsInjective
  <2> QED BY <2>1
<1> HIDE DEF nth, N
<1>3. base \in Nat
  BY <1>1
<1>4. \A i \in S : rest(i) \in Nat /\ rest(i) < base
  <2>1. \A i \in ToSet(q) : Place(q)[i] \in 1..Len(q)
    BY PlaceFacts
  <2> QED BY <1>1, <1>2, <2>1
<1>5. \A i, j \in S : rest(i) = rest(j) => i = j
  <2>1. /\ \A i \in ToSet(q) : Place(q)[i] \in 1..Len(q)
        /\ \A i, j \in ToSet(q) : Place(q)[i] = Place(q)[j] => i = j
    BY PlaceFacts
  <2>2. \A i \in new : nth[i] \in 1..N
    BY <1>2
  <2>3. \A i, j \in new : nth[i] = nth[j] => i = j
    BY <1>2 DEF IsInjective
  <2> QED BY <1>1, <2>1, <2>2, <2>3
<1> HIDE DEF S, base, rest
<1>6. \A i \in S : r[i].wait \in Nat /\ r[i].wait * base \in Nat
  BY <1>1, <1>3
<1>7. \A i \in S : key[i] = r[i].wait * base + rest(i) /\ key[i] \in Int
  BY <1>4, <1>6
<1> HIDE DEF key
<1>8. ASSUME NEW i \in S, NEW j \in S
      PROVE  /\ key[i] = key[j] => i = j
             /\ key[i] <= key[j] => r[i].wait <= r[j].wait
  <2> DEFINE a == r[i].wait
             b == r[j].wait
             m == rest(i)
             n == rest(j)
  <2>1. a \in Nat /\ b \in Nat /\ m \in Nat /\ n \in Nat /\ m < base /\ n < base
    BY <1>4, <1>6
  <2>2. key[i] = a * base + m /\ key[j] = b * base + n /\ (m = n => i = j)
    BY <1>5, <1>7
  <2> HIDE DEF a, b, m, n
  <2>3. /\ a * base + m <= b * base + n => a <= b
        /\ a * base + m = b * base + n => a = b /\ m = n
    BY <1>3, <2>1, Lexicographic
  <2> QED BY <2>2, <2>3 DEF a, b
<1>10. /\ w \in Seq(S) /\ ToSet(w) = S /\ IsInjective(w)
       /\ \A j, k \in DOMAIN w : j < k => key[w[j]] < key[w[k]]
  BY <1>1, <1>7, <1>8, InOrderFacts
<1> HIDE DEF w
<1>11. \A j \in DOMAIN w : w[j] \in S
  BY <1>10
<1>12. Sorted(w, r)
  BY <1>7, <1>8, <1>10, <1>11 DEF Sorted
<1>13. Enqueue(q, r, new) = w
  BY DEF Enqueue, w, key, rest, base, nth, N, S
<1>14. w \in Seq(Ids)
  BY <1>1, <1>10
<1> QED BY <1>10, <1>12, <1>13, <1>14 DEF S

-----------------------------------------------------------------------------
(* Types.                                                                   *)

SweepType ==
    [table : Tables \cup {"none"}, list : Seq(Ids), since : 0..MaxSweepTicks,
     wrote : UNION {[ids -> {"sent", "cancelled"}] : ids \in SUBSET Ids},
     sending : BOOLEAN, connected : SUBSET Audience, off : SUBSET {"C", "E"}]

RowType == [status : {"absent", "pending", "sent", "cancelled"}, wait : Nat, age : 0..MaxAge]

WorldInv ==
    /\ users \subseteq Audience /\ connected \subseteq Audience /\ blocked \subseteq Audience
    /\ sub \in [Audience -> {"trial", "paid", "none"}]
    /\ held \in BOOLEAN /\ off \subseteq {"C", "E"}

QueueInv ==
    /\ row \in [Ids -> RowType]
    /\ order \in Seq(Ids) /\ IsInjective(order)
    /\ ToSet(order) = {i \in Ids : row[i].status = "pending"}
    /\ Sorted(order, row)

ArmingInv == arming \in SUBSET [user : Audience, chain : {"A", "E"}, steps : SUBSET Steps,
                                nth : {0, 1}]

HistoryInv ==
    /\ received \in [Audience -> [Steps -> Nat]]
    /\ rearmed \subseteq Audience /\ lapsed \subseteq Audience \X Steps
    /\ events \in 0..MaxEvents /\ faults \in 0..MaxFaults

SweepTypes == sweep \in [Sweeps -> SweepType]

TypeInv == WorldInv /\ QueueInv /\ ArmingInv /\ HistoryInv /\ SweepTypes

RowsInv == TypeInv /\ SweepInv /\ ArmsInv

LEMMA TypesHold == TypeInv => NudgesTypeOK
<1> SUFFICES ASSUME TypeInv PROVE NudgesTypeOK OBVIOUS
<1>1. ASSUME NEW s \in Sweeps PROVE sweep[s] \in SweepType
  BY DEF TypeInv, SweepTypes
<1>2. ASSUME NEW s \in Sweeps
      PROVE  /\ sweep[s].table \in Tables \cup {"none"} /\ sweep[s].list \in Seq(Ids)
             /\ sweep[s].since \in 0..MaxSweepTicks
             /\ DOMAIN sweep[s].wrote \subseteq Ids
             /\ Range(sweep[s].wrote) \subseteq {"sent", "cancelled"}
             /\ sweep[s].sending \in BOOLEAN /\ sweep[s].connected \subseteq Audience
             /\ sweep[s].off \subseteq {"C", "E"}
  BY <1>1 DEF SweepType, Range
<1> QED
  BY <1>2 DEF TypeInv, WorldInv, QueueInv, ArmingInv, HistoryInv, SweepTypes, NudgesTypeOK,
              Sorted, RowType

LEMMA Numbers ==
    /\ Gap \in Nat /\ Day \in Nat /\ MaxSweepTicks \in Nat /\ MaxEvents \in Nat
    /\ MaxFaults \in Nat /\ Gap <= Day /\ MaxAge \in Nat /\ MaxAge = Day + MaxSweepTicks + 1
    /\ Limit \in Nat /\ Limit > 0
BY NudgesAssumption DEF NudgesAssumption, MaxAge

LEMMA IdParts ==
    /\ \A i \in Ids : User(i) \in Audience /\ Step(i) \in Steps /\ OfTable(i) \in Tables
    /\ \A i \in Ids : i \in Copies(User(i), Step(i))
    /\ \A u \in Audience, t \in Steps : /\ Copies(u, t) \subseteq Ids
                                        /\ \A i \in Copies(u, t) : User(i) = u /\ Step(i) = t
    /\ \A u \in Audience, t \in Steps : FreeId(u, t) \in Copies(u, t)
    /\ \A t \in Steps : Delay[t] \in Nat /\ Chain[t] \in Chains
BY NudgesAssumption DEF NudgesAssumption, Ids, User, Step, OfTable, Tables, TableOf, Copies, FreeId

LEMMA WorldStep ==
    ASSUME WorldInv, NudgesNext PROVE WorldInv'
<1> USE DEF WorldInv, world
<1>1. CASE Events
  <2>1. CASE Switch
    BY <2>1 DEF Switch
  <2>2. ASSUME NEW u \in Audience,
               \/ OpenFunnel(u) \/ Expire(u) \/ ExpireAgain(u) \/ Connect(u)
               \/ FinishFunnel(u) \/ Buy(u) \/ Block(u) \/ Delete(u)
        PROVE  WorldInv'
    BY <2>2 DEF OpenFunnel, Expire, ExpireAgain, Connect, FinishFunnel, Buy, Block, Delete
  <2> QED BY <1>1, <2>1, <2>2 DEF Events
<1>2. CASE Arms
  BY <1>2 DEF Arms, Arm
<1>3. CASE Tick
  BY <1>3 DEF Tick
<1>4. ASSUME NEW s \in Sweeps, Work(s) \/ Crash(s) \/ \E t \in Tables : StartSweep(s, t)
      PROVE  WorldInv'
  BY <1>4 DEF Work, Check, Deliver, FinishSweep, Crash, StartSweep
<1> QED BY <1>1, <1>2, <1>3, <1>4 DEF NudgesNext

LEMMA FaultType ==
    ASSUME HistoryInv, NEW kind, Fault(kind)
    PROVE  faults' \in 0..MaxFaults /\ faults' = faults + 1
BY Numbers DEF Fault, HistoryInv

LEMMA EventType == ASSUME HistoryInv, Event PROVE events' \in 0..MaxEvents
BY Numbers DEF Event, HistoryInv

LEMMA BeginArmStep ==
    ASSUME ArmingInv, ArmsInv, HistoryInv, NEW u \in Audience, NEW c \in {"A", "E"}, BeginArm(u, c)
    PROVE  ArmingInv' /\ ArmsInv' /\ faults' \in 0..MaxFaults
<1> DEFINE mine == {a \in arming : a.user = u}
           a0 == [user |-> u, chain |-> c, steps |-> Missing(u, c), nth |-> Cardinality(mine)]
<1>1. arming' = arming \cup {a0} /\ Cardinality(mine) < 2
  BY DEF BeginArm
<1>2. Cardinality(mine) \in Nat
  BY FS_Subset, FS_CardinalityType, mine \in SUBSET arming DEF ArmsInv
<1> HIDE DEF mine
<1>3. Cardinality(mine) \in {0, 1}
  BY <1>1, <1>2
<1>4. Missing(u, c) \in SUBSET Steps /\ \A t \in Missing(u, c) : Chain[t] = c
  BY DEF Missing
<1>5. ArmingInv'
  BY <1>1, <1>3, <1>4 DEF ArmingInv
<1>6. IsFiniteSet(arming \cup {a0})
  BY FS_AddElement DEF ArmsInv
<1>7. ArmsInv'
  BY <1>1, <1>4, <1>6 DEF ArmsInv
<1>8. faults' \in 0..MaxFaults
  BY FaultType DEF BeginArm, HistoryInv
<1> QED BY <1>5, <1>7, <1>8

LEMMA ArmingStep ==
    ASSUME ArmingInv, ArmsInv, HistoryInv, NudgesNext PROVE ArmingInv' /\ ArmsInv'
<1>1. CASE Events
  <2>1. CASE Switch
    BY <2>1 DEF Switch, ArmingInv, ArmsInv
  <2>2. ASSUME NEW u \in Audience, OpenFunnel(u) \/ Expire(u) \/ ExpireAgain(u)
        PROVE  ArmingInv' /\ ArmsInv'
    BY <2>2, BeginArmStep DEF OpenFunnel, Expire, ExpireAgain
  <2>3. ASSUME NEW u \in Audience, Connect(u) \/ FinishFunnel(u) \/ Buy(u) \/ Block(u) \/ Delete(u)
        PROVE  ArmingInv' /\ ArmsInv'
    BY <2>3 DEF Connect, FinishFunnel, Buy, Block, Delete, ArmingInv, ArmsInv
  <2> QED BY <1>1, <2>1, <2>2, <2>3 DEF Events
<1>2. CASE Arms
  <2>1. PICK a \in arming : arming' = arming \ {a}
    BY <1>2 DEF Arms, Arm
  <2>2. IsFiniteSet(arming \ {a})
    BY FS_RemoveElement DEF ArmsInv
  <2> QED BY <2>1, <2>2 DEF ArmingInv, ArmsInv
<1>3. CASE Tick
  BY <1>3 DEF Tick, ArmingInv, ArmsInv
<1>4. ASSUME NEW s \in Sweeps, Work(s) \/ Crash(s) \/ \E t \in Tables : StartSweep(s, t)
      PROVE  ArmingInv' /\ ArmsInv'
  BY <1>4 DEF Work, Check, Deliver, FinishSweep, Crash, StartSweep, ArmingInv, ArmsInv
<1> QED BY <1>1, <1>2, <1>3, <1>4 DEF NudgesNext

LEMMA QueueKept ==
    ASSUME QueueInv, NEW ids, row' \in [Ids -> RowType], order' = Without(order, ids),
           \A i \in Ids : row'[i].status = "pending" <=> row[i].status = "pending" /\ i \notin ids,
           \A i \in Ids \ ids : row'[i].wait = row[i].wait
    PROVE  QueueInv'
<1>1. /\ order' \in Seq(Ids) /\ IsInjective(order') /\ ToSet(order') = ToSet(order) \ ids
      /\ Sorted(order', row)
  BY WithoutFacts, WithoutSorted DEF QueueInv
<1>2. \A j \in DOMAIN order' : order'[j] \in Ids \ ids
  BY <1>1 DEF ToSet
<1>3. Sorted(order', row')
  BY <1>1, <1>2 DEF Sorted
<1>4. ToSet(order') = {i \in Ids : row'[i].status = "pending"}
  BY <1>1 DEF QueueInv
<1> QED BY <1>1, <1>3, <1>4 DEF QueueInv

LEMMA QueueFilled ==
    ASSUME NEW q, q \in Seq(Ids), IsInjective(q), NEW new, new \subseteq Ids,
           row' \in [Ids -> RowType], order' = Enqueue(q, row', new),
           \A i \in Ids : row'[i].status = "pending" <=> i \in ToSet(q) \cup new
    PROVE  QueueInv'
<1>1. \A i \in Ids : row'[i].wait \in Nat
  BY DEF RowType
<1>2. /\ order' \in Seq(Ids) /\ IsInjective(order') /\ ToSet(order') = ToSet(q) \cup new
      /\ Sorted(order', row')
  BY <1>1, EnqueueFacts
<1>3. ToSet(q) \subseteq Ids
  BY DEF ToSet
<1>4. ToSet(order') = {i \in Ids : row'[i].status = "pending"}
  BY <1>2, <1>3
<1> QED BY <1>2, <1>4 DEF QueueInv

LEMMA CancelledStep == ASSUME QueueInv, NEW ids, Cancelled(ids) PROVE QueueInv'
<1>1. /\ row' = [i \in Ids |-> IF i \in ids THEN [row[i] EXCEPT !.status = "cancelled"] ELSE row[i]]
      /\ order' = Without(order, ids)
  BY DEF Cancelled
<1>2. \A i \in Ids : row[i] \in RowType
  BY DEF QueueInv
<1>3. \A i \in Ids : row'[i] = IF i \in ids THEN [row[i] EXCEPT !.status = "cancelled"] ELSE row[i]
  BY <1>1
<1>4. row' \in [Ids -> RowType]
  BY <1>1, <1>2 DEF RowType
<1>5. \A i \in Ids : /\ row'[i].status = "pending" <=> row[i].status = "pending" /\ i \notin ids
                   /\ row'[i].wait = row[i].wait
  BY <1>2, <1>3 DEF RowType
<1> HIDE DEF Cancelled
<1> QED BY <1>1, <1>4, <1>5, QueueKept

LEMMA InsertStep ==
    ASSUME QueueInv, NEW u \in Audience, NEW steps \in SUBSET Steps, Insert(u, steps)
    PROVE  QueueInv'
<1> DEFINE new == {FreeId(u, t) : t \in steps}
<1>1. /\ row' = [i \in Ids |-> IF i \in new
                    THEN [status |-> "pending", wait |-> Delay[Step(i)], age |-> 0] ELSE row[i]]
      /\ order' = Enqueue(order, row', new)
  BY DEF Insert
<1>2. new \subseteq Ids
  BY IdParts
<1> HIDE DEF new
<1>3. row' \in [Ids -> RowType]
  BY <1>1, IdParts, Numbers DEF RowType, QueueInv
<1>4. \A i \in Ids : row'[i].status = "pending" <=> i \in ToSet(order) \cup new
  BY <1>1 DEF QueueInv
<1>5. order \in Seq(Ids) /\ IsInjective(order)
  BY DEF QueueInv
<1> QED BY <1>1, <1>2, <1>3, <1>4, <1>5, QueueFilled

LEMMA ConnectQueue == ASSUME QueueInv, NEW u \in Audience, Connect(u) PROVE QueueInv'
<1> DEFINE ids == Silenced(u)
           new == IF sub[u] = "trial" THEN {FreeId(u, t) : t \in Missing(u, "C")} ELSE {}
           q == Without(order, ids)
<1>1. /\ row' = [i \in Ids |-> IF i \in ids THEN [row[i] EXCEPT !.status = "cancelled"]
                               ELSE IF i \in new
                                    THEN [status |-> "pending", wait |-> Delay[Step(i)], age |-> 0]
                                    ELSE row[i]]
      /\ order' = Enqueue(q, row', new)
  BY DEF Connect
<1>2. new \subseteq Ids
  BY IdParts DEF Missing
<1>3. new \cap ids = {}
  <2>1. ASSUME NEW i \in new PROVE OfTable(i) = "followups"
    BY <2>1, IdParts DEF Missing, OfTable, TableOf
  <2> QED BY <2>1 DEF Silenced, Pending, OfTable
<1> HIDE DEF new, ids
<1>4. \A i \in Ids : row[i] \in RowType
  BY DEF QueueInv
<1>5. row' \in [Ids -> RowType]
  <2>1. ASSUME NEW i \in Ids
        PROVE  /\ [row[i] EXCEPT !.status = "cancelled"] \in RowType
               /\ [status |-> "pending", wait |-> Delay[Step(i)], age |-> 0] \in RowType
    BY <1>4, IdParts, Numbers DEF RowType
  <2> QED BY <1>1, <1>4, <2>1
<1>6. q \in Seq(Ids) /\ IsInjective(q) /\ ToSet(q) = ToSet(order) \ ids
  BY WithoutFacts DEF QueueInv
<1> HIDE DEF q
<1>7. \A i \in Ids : row'[i].status = "pending" <=> i \in ToSet(q) \cup new
  BY <1>1, <1>3, <1>4, <1>6 DEF QueueInv, RowType
<1> QED BY <1>1, <1>2, <1>5, <1>6, <1>7, QueueFilled

LEMMA DeleteQueue == ASSUME QueueInv, NEW u \in Audience, Delete(u) PROVE QueueInv'
<1> DEFINE ids == {i \in Ids : User(i) = u}
<1>1. /\ row' = [i \in Ids |-> IF i \in ids THEN Absent ELSE row[i]]
      /\ order' = Without(order, ids)
  BY DEF Delete
<1>2. Absent \in RowType /\ Absent.status = "absent"
  BY Numbers DEF Absent, RowType
<1> HIDE DEF ids
<1>3. row' \in [Ids -> RowType]
  BY <1>1, <1>2 DEF QueueInv
<1>4. \A i \in Ids : row'[i].status = "pending" <=> row[i].status = "pending" /\ i \notin ids
  BY <1>1, <1>2
<1>5. \A i \in Ids \ ids : row'[i].wait = row[i].wait
  BY <1>1
<1> QED BY <1>1, <1>3, <1>4, <1>5, QueueKept

LEMMA SweepFields ==
    ASSUME SweepTypes, NEW s \in Sweeps
    PROVE  /\ sweep[s] \in SweepType
           /\ sweep[s].since \in Nat /\ sweep[s].since <= MaxSweepTicks
           /\ sweep[s].list \in Seq(Ids)
           /\ DOMAIN sweep[s].wrote \subseteq Ids
           /\ \A i \in DOMAIN sweep[s].wrote : sweep[s].wrote[i] \in {"sent", "cancelled"}
<1>1. sweep[s] \in SweepType
  BY DEF SweepTypes
<1>2. PICK ids \in SUBSET Ids : sweep[s].wrote \in [ids -> {"sent", "cancelled"}]
  BY <1>1 DEF SweepType
<1> QED BY <1>1, <1>2, Numbers DEF SweepType

LEMMA CommitQueue ==
    ASSUME QueueInv, SweepTypes, NEW s \in Sweeps, Commit(s)
    PROVE  QueueInv'
<1> DEFINE to(i) == [row[i] EXCEPT !.status = sweep[s].wrote[i],
                        !.age = IF sweep[s].wrote[i] = "sent" THEN sweep[s].since ELSE @]
<1>1. /\ row' = [i \in Ids |-> IF i \notin Locked(s) THEN row[i] ELSE to(i)]
      /\ order' = Without(order, Locked(s))
  BY DEF Commit
<1>2. Locked(s) \subseteq Ids /\ \A i \in Locked(s) : sweep[s].wrote[i] \in {"sent", "cancelled"}
  BY SweepFields DEF Locked
<1>3. \A i \in Ids : row[i] \in RowType
  BY DEF QueueInv
<1>4. sweep[s].since \in 0..MaxAge
  BY SweepFields, Numbers
<1>5. \A i \in Locked(s) : /\ to(i) \in RowType /\ to(i).status # "pending"
                          /\ to(i).wait = row[i].wait
  BY <1>2, <1>3, <1>4 DEF RowType
<1> HIDE DEF to
<1>6. row' \in [Ids -> RowType]
  BY <1>1, <1>3, <1>5
<1>7. \A i \in Ids : row'[i].status = "pending" <=> row[i].status = "pending" /\ i \notin Locked(s)
  BY <1>1, <1>5
<1>8. \A i \in Ids \ Locked(s) : row'[i].wait = row[i].wait
  BY <1>1
<1> QED BY <1>1, <1>6, <1>7, <1>8, QueueKept

LEMMA TickQueue == ASSUME QueueInv, Tick PROVE QueueInv'
<1>1. row' = [i \in Ids |-> [row[i] EXCEPT !.wait = IF @ > 0 THEN @ - 1 ELSE 0,
                !.age = IF row[i].status = "sent" /\ @ < MaxAge THEN @ + 1 ELSE @]]
  BY DEF Tick
<1>2. \A i \in Ids : row[i] \in RowType
  BY DEF QueueInv
<1>3. ASSUME NEW i \in Ids
      PROVE  /\ row'[i] \in RowType /\ row'[i].status = row[i].status
             /\ row[i].wait \in Nat
             /\ row'[i].wait = IF row[i].wait > 0 THEN row[i].wait - 1 ELSE 0
  <2> DEFINE wait == IF row[i].wait > 0 THEN row[i].wait - 1 ELSE 0
             age == IF row[i].status = "sent" /\ row[i].age < MaxAge THEN row[i].age + 1
                                                                     ELSE row[i].age
  <2>1. row[i] \in RowType /\ row[i].wait \in Nat /\ row[i].age \in 0..MaxAge
    BY <1>2 DEF RowType
  <2>2. wait \in Nat /\ age \in 0..MaxAge
    BY <2>1, Numbers
  <2>3. row'[i] = [row[i] EXCEPT !.wait = wait, !.age = age]
    BY <1>1
  <2> HIDE DEF wait, age
  <2>4. row'[i] \in RowType /\ row'[i].status = row[i].status /\ row'[i].wait = wait
    BY <2>1, <2>2, <2>3 DEF RowType
  <2> QED BY <2>1, <2>4 DEF wait
<1>4. row' \in [Ids -> RowType]
  BY <1>1, <1>3
<1>5. order' = order
  BY DEF Tick
<1>6. \A j \in DOMAIN order : order[j] \in Ids
  BY DEF QueueInv
<1>7. Sorted(order', row')
  <2>1. ASSUME NEW j \in DOMAIN order, NEW k \in DOMAIN order, j < k
        PROVE  row'[order[j]].wait <= row'[order[k]].wait
    <3>1. row[order[j]].wait <= row[order[k]].wait
      BY <2>1 DEF QueueInv, Sorted
    <3> QED BY <3>1, <1>3, <1>6
  <2> QED BY <2>1, <1>5 DEF Sorted
<1> QED BY <1>3, <1>4, <1>5, <1>7 DEF QueueInv

LEMMA QueueStep == ASSUME QueueInv, SweepTypes, ArmingInv, NudgesNext PROVE QueueInv'
<1>1. CASE Events
  <2>1. CASE Switch
    BY <2>1 DEF Switch, QueueInv, table
  <2>2. ASSUME NEW u \in Audience,
               OpenFunnel(u) \/ Expire(u) \/ ExpireAgain(u) \/ Buy(u) \/ Block(u)
        PROVE  QueueInv'
    BY <2>2 DEF OpenFunnel, Expire, ExpireAgain, Buy, Block, QueueInv, table
  <2>3. ASSUME NEW u \in Audience, Connect(u) PROVE QueueInv'
    BY <2>3, ConnectQueue
  <2>4. ASSUME NEW u \in Audience, FinishFunnel(u) PROVE QueueInv'
    BY <2>4, CancelledStep DEF FinishFunnel
  <2>5. ASSUME NEW u \in Audience, Delete(u) PROVE QueueInv'
    BY <2>5, DeleteQueue
  <2> QED BY <1>1, <2>1, <2>2, <2>3, <2>4, <2>5 DEF Events
<1>2. CASE Arms
  <2>1. PICK a \in arming : Insert(a.user, a.steps)
    BY <1>2 DEF Arms, Arm
  <2> QED BY <2>1, InsertStep DEF ArmingInv
<1>3. CASE Tick
  BY <1>3, TickQueue
<1>4. ASSUME NEW s \in Sweeps,
             Check(s) \/ Deliver(s) \/ Crash(s) \/ \E t \in Tables : StartSweep(s, t)
      PROVE  QueueInv'
  BY <1>4 DEF Check, Deliver, Crash, StartSweep, QueueInv, table
<1>5. ASSUME NEW s \in Sweeps, FinishSweep(s) PROVE QueueInv'
  BY <1>5, CommitQueue DEF FinishSweep
<1> QED BY <1>1, <1>2, <1>3, <1>4, <1>5 DEF NudgesNext, Work

-----------------------------------------------------------------------------
(* What a sweep knows.                                                      *)

LEMMA TailFacts ==
    ASSUME NEW q, q \in Seq(Ids), q # <<>>, IsInjective(q)
    PROVE  /\ Tail(q) \in Seq(Ids) /\ IsInjective(Tail(q))
           /\ ToSet(Tail(q)) = ToSet(q) \ {Head(q)}
           /\ Head(q) \in ToSet(q) /\ Head(q) \in Ids
<1>1. /\ Len(q) \in Nat /\ Len(q) > 0 /\ DOMAIN q = 1..Len(q) /\ Head(q) = q[1]
      /\ Tail(q) \in Seq(Ids) /\ DOMAIN Tail(q) = 1..(Len(q) - 1)
      /\ \A n \in 1..(Len(q) - 1) : Tail(q)[n] = q[n + 1]
  OBVIOUS
<1>2. \A m, n \in 1..Len(q) : q[m] = q[n] => m = n
  BY <1>1 DEF IsInjective
<1>3. IsInjective(Tail(q))
  <2>1. ASSUME NEW m \in 1..(Len(q) - 1), NEW n \in 1..(Len(q) - 1), Tail(q)[m] = Tail(q)[n]
        PROVE  m = n
    <3>1. m + 1 \in 1..Len(q) /\ n + 1 \in 1..Len(q) /\ q[m + 1] = q[n + 1]
      BY <1>1, <2>1
    <3> QED BY <3>1, <1>2
  <2> QED BY <2>1, <1>1 DEF IsInjective
<1>4. ASSUME NEW i \in ToSet(q), i # q[1] PROVE i \in ToSet(Tail(q))
  <2>1. PICK n \in 1..Len(q) : q[n] = i
    BY <1>1 DEF ToSet
  <2>2. n - 1 \in 1..(Len(q) - 1) /\ Tail(q)[n - 1] = i
    BY <2>1, <1>1, <1>4
  <2> QED BY <2>2, <1>1 DEF ToSet
<1>5. ASSUME NEW i \in ToSet(Tail(q)) PROVE i \in ToSet(q) /\ i # q[1]
  <2>1. PICK n \in 1..(Len(q) - 1) : Tail(q)[n] = i
    BY <1>1 DEF ToSet
  <2>2. n + 1 \in 1..Len(q) /\ q[n + 1] = i /\ n + 1 # 1 /\ 1 \in 1..Len(q)
    BY <2>1, <1>1
  <2> QED BY <2>2, <1>1, <1>2 DEF ToSet
<1>6. Head(q) \in ToSet(q) /\ Head(q) \in Ids
  BY <1>1 DEF ToSet
<1> QED BY <1>1, <1>3, <1>4, <1>5, <1>6

LEMMA SubSeqFacts ==
    ASSUME NEW q, q \in Seq(Ids), IsInjective(q), NEW n \in 0..Len(q)
    PROVE  /\ SubSeq(q, 1, n) \in Seq(Ids) /\ IsInjective(SubSeq(q, 1, n))
           /\ ToSet(SubSeq(q, 1, n)) \subseteq ToSet(q)
<1> DEFINE p == SubSeq(q, 1, n)
<1>1. p \in Seq(Ids) /\ DOMAIN p = 1..n /\ \A k \in 1..n : p[k] = q[k] /\ k \in 1..Len(q)
  OBVIOUS
<1> HIDE DEF p
<1>2. DOMAIN q = 1..Len(q)
  OBVIOUS
<1>3. IsInjective(p) /\ ToSet(p) \subseteq ToSet(q)
  BY <1>1, <1>2 DEF IsInjective, ToSet
<1> QED BY <1>1, <1>3 DEF p

LEMMA DueFacts ==
    ASSUME QueueInv, NEW t
    PROVE  /\ Due(t) \in Seq(Ids) /\ IsInjective(Due(t))
           /\ ToSet(Due(t)) = {i \in Ids : row[i].status = "pending" /\ OfTable(i) = t
                                          /\ row[i].wait = 0}
<1> DEFINE S == {i \in ToSet(order) : TableOf(Chain[Step(i)]) = t /\ row[i].wait = 0}
<1>1. S \in SUBSET Ids /\ S \subseteq ToSet(order) /\ IsFiniteSet(S)
      /\ S = {i \in Ids : row[i].status = "pending" /\ OfTable(i) = t /\ row[i].wait = 0}
  BY IdsFinite, FS_Subset DEF QueueInv, OfTable
<1>2. /\ \A i \in ToSet(order) : Place(order)[i] \in Int
      /\ \A i, j \in ToSet(order) : Place(order)[i] = Place(order)[j] => i = j
  BY PlaceFacts DEF QueueInv
<1>3. Due(t) = InOrder(S, Place(order))
  BY DEF Due
<1> HIDE DEF S
<1>4. /\ \A i \in S : Place(order)[i] \in Int
      /\ \A i, j \in S : Place(order)[i] = Place(order)[j] => i = j
  BY <1>1, <1>2
<1>5. IsFiniteSet(S) /\ S \subseteq Ids
  BY <1>1
<1> DEFINE w == InOrder(S, Place(order))
<1>6. w \in Seq(S) /\ ToSet(w) = S /\ IsInjective(w)
  BY <1>4, <1>5, InOrderFacts
<1> HIDE DEF w
<1>7. w \in Seq(Ids) /\ Due(t) = w
  BY <1>3, <1>5, <1>6 DEF w
<1> QED BY <1>1, <1>6, <1>7

\* A sweep that is clear to send has sent this user nothing.
LEMMA ClearIsUntold ==
    ASSUME SweepTypes, SweepInv, NEW s \in Sweeps, NEW u, ~RateLimited(s, u)
    PROVE  \A i \in DOMAIN sweep[s].wrote : sweep[s].wrote[i] = "sent" => User(i) # u
<1> SUFFICES ASSUME NEW i \in DOMAIN sweep[s].wrote, sweep[s].wrote[i] = "sent", User(i) = u
             PROVE  FALSE
  OBVIOUS
<1> DEFINE T == {j \in Ids : /\ User(j) = u /\ TableOf(Chain[Step(j)]) = sweep[s].table
                             /\ SentSeen(s, j) /\ SentBefore(s, j) <= Gap}
<1>1. IsFiniteSet(T) /\ Cardinality(T) \in Nat
  BY IdsFinite, FS_Subset, FS_CardinalityType, T \in SUBSET Ids
<1>2. ~(Cardinality(T) > 0)
  BY DEF RateLimited, SentInWindow
<1>3. T = {}
  <2>1. Cardinality(T) = 0
    BY <1>1, <1>2
  <2> QED BY <1>1, <2>1, FS_EmptySet
<1>4. i \in T
  <2>1. i \in Ids /\ OfTable(i) = sweep[s].table
    BY SweepFields DEF SweepInv, SweepOK
  <2>2. SentSeen(s, i) /\ SentBefore(s, i) = 0
    BY DEF SentSeen, SentBefore
  <2> QED BY <2>1, <2>2, Numbers DEF OfTable
<1> QED BY <1>3, <1>4

LEMMA AdvanceStep ==
    ASSUME SweepTypes, SweepInv, NEW s \in Sweeps, sweep[s].list # <<>>,
           NEW ids, NEW status, Advance(s, ids, status),
           ids \subseteq {i \in Ids : OfTable(i) = sweep[s].table},
           \/ ids = {}
           \/ status = "cancelled"
           \/ status = "sent" /\ ids = {Head(sweep[s].list)} /\ sweep[s].sending
    PROVE  SweepTypes' /\ SweepInv'
<1> DEFINE w == sweep[s]
           v == sweep'[s]
<1>1. /\ v = [w EXCEPT !.list = Tail(@), !.sending = FALSE, !.wrote = Writes(s, ids, status)]
      /\ \A o \in Sweeps \ {s} : sweep'[o] = sweep[o]
      /\ DOMAIN sweep' = Sweeps /\ sweep' = [o \in Sweeps |-> sweep'[o]]
  BY DEF Advance, SweepTypes
<1>2. /\ w \in SweepType /\ w.list \in Seq(Ids) /\ DOMAIN w.wrote \subseteq Ids
      /\ \A i \in DOMAIN w.wrote : w.wrote[i] \in {"sent", "cancelled"}
  BY SweepFields
<1>3. SweepOK(w)
  BY DEF SweepInv
<1> HIDE DEF w
<1>4. /\ DOMAIN Writes(s, ids, status) = DOMAIN w.wrote \cup ids
      /\ \A i \in DOMAIN w.wrote \cup ids :
            Writes(s, ids, status)[i] = IF i \in ids THEN status ELSE w.wrote[i]
      /\ Writes(s, ids, status) = [i \in DOMAIN w.wrote \cup ids |-> Writes(s, ids, status)[i]]
  BY DEF Writes, w
<1>5. /\ Tail(w.list) \in Seq(Ids) /\ IsInjective(Tail(w.list))
      /\ ToSet(Tail(w.list)) = ToSet(w.list) \ {Head(w.list)} /\ Head(w.list) \in ToSet(w.list)
  BY <1>2, <1>3, TailFacts DEF SweepOK, w
<1> DEFINE W == Writes(s, ids, status)
<1>6. W \in [DOMAIN w.wrote \cup ids -> {"sent", "cancelled"}]
  BY <1>2, <1>4
<1> HIDE DEF W, v
<1>7. v = [w EXCEPT !.list = Tail(@), !.sending = FALSE, !.wrote = W]
  BY <1>1 DEF W, w
<1>8. v \in SweepType
  <2>1. DOMAIN w.wrote \cup ids \in SUBSET Ids
    BY <1>2
  <2>2. W \in UNION {[d -> {"sent", "cancelled"}] : d \in SUBSET Ids}
    BY <1>6, <2>1
  <2> QED BY <1>2, <1>5, <1>7, <2>2 DEF SweepType
<1>9. v.table = w.table /\ v.list = Tail(w.list) /\ v.wrote = W /\ v.sending = FALSE
  BY <1>2, <1>7 DEF SweepType
<1>10. \A i \in DOMAIN W : W[i] = "sent" =>
          \/ i \in DOMAIN w.wrote /\ w.wrote[i] = "sent" /\ i \notin ids
          \/ i = Head(w.list) /\ w.sending /\ i \in ids
  BY <1>4 DEF W, w
<1>11. SweepOK(v)
  <2>1. w.table # "none"
    BY <1>3 DEF SweepOK, Idle, w
  <2>2. \A i \in ToSet(v.list) \cup DOMAIN v.wrote : OfTable(i) = v.table
    BY <1>3, <1>4, <1>5, <1>9 DEF SweepOK, W, w
  <2>3. \A i \in DOMAIN v.wrote : v.wrote[i] = "sent" => i \notin ToSet(v.list)
    BY <1>3, <1>5, <1>9, <1>10 DEF SweepOK
  <2>4. \A i, j \in DOMAIN v.wrote :
           v.wrote[i] = "sent" /\ v.wrote[j] = "sent" /\ User(i) = User(j) => i = j
    BY <1>3, <1>9, <1>10 DEF SweepOK
  <2> QED BY <1>5, <1>9, <2>1, <2>2, <2>3, <2>4 DEF SweepOK
<1>12. SweepTypes'
  BY <1>1, <1>8 DEF SweepTypes, v
<1>13. SweepInv'
  BY <1>1, <1>11 DEF SweepInv, v
<1> QED BY <1>12, <1>13

LEMMA CheckStep ==
    ASSUME SweepTypes, SweepInv, NEW s \in Sweeps, Check(s) PROVE SweepTypes' /\ SweepInv'
<1> DEFINE i == Head(sweep[s].list)
<1>1. sweep[s].list # <<>> /\ i \in Ids /\ OfTable(i) = sweep[s].table
  BY SweepFields, TailFacts DEF Check, SweepInv, SweepOK
<1>2. CASE Advance(s, {i}, "cancelled")
  BY <1>1, <1>2, AdvanceStep
<1>3. CASE Advance(s, {}, "pending")
  BY <1>1, <1>3, AdvanceStep
<1>4. CASE ~RateLimited(s, User(i)) /\ sweep' = [sweep EXCEPT ![s].sending = TRUE]
  <2>1. /\ sweep'[s] = [sweep[s] EXCEPT !.sending = TRUE] /\ DOMAIN sweep' = Sweeps
        /\ \A o \in Sweeps \ {s} : sweep'[o] = sweep[o]
        /\ sweep' = [o \in Sweeps |-> sweep'[o]]
    BY <1>4 DEF SweepTypes
  <2>2. sweep[s] \in SweepType
    BY SweepFields
  <2> DEFINE v == sweep'[s]
  <2>3. v \in SweepType /\ v.table = sweep[s].table /\ v.list = sweep[s].list
        /\ v.wrote = sweep[s].wrote
    BY <2>1, <2>2 DEF SweepType
  <2> HIDE DEF v
  <2>4. \A k \in DOMAIN v.wrote : v.wrote[k] = "sent" => User(k) # User(Head(v.list))
    BY <1>4, <2>3, ClearIsUntold
  <2>5. SweepOK(sweep[s])
    BY DEF SweepInv
  <2>6. v.table # "none"
    BY <1>1, <2>3, <2>5 DEF SweepOK, Idle
  <2>7. SweepOK(v)
    BY <1>1, <2>3, <2>4, <2>5, <2>6 DEF SweepOK
  <2> QED BY <2>1, <2>3, <2>7 DEF SweepTypes, SweepInv, v
<1> QED BY <1>2, <1>3, <1>4 DEF Check

LEMMA DeliverStep ==
    ASSUME SweepTypes, SweepInv, NEW s \in Sweeps, Deliver(s) PROVE SweepTypes' /\ SweepInv'
<1> DEFINE i == Head(sweep[s].list)
<1>1. sweep[s].list # <<>> /\ i \in Ids /\ OfTable(i) = sweep[s].table /\ sweep[s].sending
  BY SweepFields, TailFacts DEF Deliver, SweepInv, SweepOK
<1>2. CASE Mark(s, i)
  BY <1>1, <1>2, AdvanceStep DEF Mark
<1>3. CASE Advance(s, PendingSeen(s, User(i)), "cancelled")
  <2>1. PendingSeen(s, User(i)) \subseteq {j \in Ids : OfTable(j) = sweep[s].table}
    BY DEF PendingSeen, Pending, OfTable
  <2> QED BY <1>1, <1>3, <2>1, AdvanceStep
<1>4. CASE Advance(s, {}, "pending")
  BY <1>1, <1>4, AdvanceStep
<1> QED BY <1>2, <1>3, <1>4 DEF Deliver

LEMMA IdleOK == Idle \in SweepType /\ SweepOK(Idle)
<1>1. Idle.wrote \in [{} -> {"sent", "cancelled"}]
  BY DEF Idle
<1>2. Idle.wrote \in UNION {[ids -> {"sent", "cancelled"}] : ids \in SUBSET Ids}
  BY <1>1
<1>3. Idle \in SweepType
  BY <1>2, Numbers DEF Idle, SweepType
<1>4. ToSet(Idle.list) = {} /\ DOMAIN Idle.wrote = {} /\ IsInjective(Idle.list)
  BY DEF Idle, ToSet, IsInjective
<1>5. Idle.sending = FALSE
  BY DEF Idle
<1> QED BY <1>3, <1>4, <1>5 DEF SweepOK

LEMMA StoppedStep ==
    ASSUME SweepTypes, SweepInv, NEW s \in Sweeps, sweep' = [sweep EXCEPT ![s] = Idle]
    PROVE  SweepTypes' /\ SweepInv'
BY IdleOK DEF SweepTypes, SweepInv

\* The list of a sweep that starts.
Listed(t) == SubSeq(Due(t), 1, IF Len(Due(t)) < Limit THEN Len(Due(t)) ELSE Limit)

LEMMA ListedFacts ==
    ASSUME QueueInv, NEW t
    PROVE  /\ Listed(t) \in Seq(Ids) /\ IsInjective(Listed(t))
           /\ \A i \in ToSet(Listed(t)) : /\ i \in Ids /\ OfTable(i) = t
                                          /\ row[i].status = "pending"
<1> DEFINE n == IF Len(Due(t)) < Limit THEN Len(Due(t)) ELSE Limit
<1>1. Due(t) \in Seq(Ids) /\ IsInjective(Due(t))
  BY DueFacts
<1>2. n \in 0..Len(Due(t))
  BY <1>1, Numbers
<1> HIDE DEF n
<1>3. /\ SubSeq(Due(t), 1, n) \in Seq(Ids) /\ IsInjective(SubSeq(Due(t), 1, n))
      /\ ToSet(SubSeq(Due(t), 1, n)) \subseteq ToSet(Due(t))
  BY <1>1, <1>2, SubSeqFacts
<1>4. Listed(t) = SubSeq(Due(t), 1, n)
  BY DEF Listed, n
<1> QED BY <1>3, <1>4, DueFacts

LEMMA StartStep ==
    ASSUME SweepTypes, SweepInv, WorldInv, QueueInv, NEW s \in Sweeps, NEW t \in Tables,
           StartSweep(s, t)
    PROVE  /\ SweepTypes' /\ SweepInv'
           /\ \A o \in Sweeps \ {s} : sweep'[o] = sweep[o]
           /\ sweep'[s].table = t /\ sweep'[s].list = Listed(t) /\ sweep'[s].wrote = <<>>
           /\ sweep'[s].connected = connected /\ sweep'[s].sending = FALSE
           /\ sweep'[s].since = 0
<1> DEFINE v == [Idle EXCEPT !.table = t, !.connected = connected, !.off = off,
                             !.list = Listed(t)]
<1>1. sweep' = [sweep EXCEPT ![s] = v]
  BY DEF StartSweep, Listed
<1>2. v.table = t /\ v.list = Listed(t) /\ v.wrote = <<>> /\ v.sending = FALSE
      /\ v.connected = connected /\ v.since = 0
  BY DEF Idle
<1>3. v \in SweepType
  BY IdleOK, ListedFacts DEF SweepType, WorldInv, Idle
<1> HIDE DEF v
<1>4. SweepOK(v)
  <2>1. t # "none" /\ DOMAIN v.wrote = {}
    BY <1>2 DEF Tables
  <2> QED BY <1>2, <2>1, ListedFacts DEF SweepOK
<1>5. SweepTypes' /\ SweepInv'
  BY <1>1, <1>3, <1>4 DEF SweepTypes, SweepInv
<1>6. sweep'[s] = v /\ \A o \in Sweeps \ {s} : sweep'[o] = sweep[o]
  BY <1>1 DEF SweepTypes
<1> QED BY <1>2, <1>5, <1>6

LEMMA TickSweep ==
    ASSUME SweepTypes, SweepInv, Tick, NEW s \in Sweeps
    PROVE  /\ sweep'[s] \in SweepType /\ SweepOK(sweep'[s])
           /\ sweep'[s].table = sweep[s].table
           /\ sweep'[s].list = sweep[s].list
           /\ sweep'[s].wrote = sweep[s].wrote
           /\ sweep'[s].sending = sweep[s].sending
           /\ sweep'[s].connected = sweep[s].connected
           /\ Active(s) => sweep'[s].since = sweep[s].since + 1
<1>1. sweep'[s] = IF Active(s) THEN [sweep[s] EXCEPT !.since = @ + 1] ELSE sweep[s]
  BY DEF Tick
<1>2. sweep[s] \in SweepType /\ SweepOK(sweep[s])
  BY DEF SweepTypes, SweepInv
<1>3. CASE ~Active(s)
  BY <1>1, <1>2, <1>3
<1>4. CASE Active(s)
  <2> DEFINE v == [sweep[s] EXCEPT !.since = @ + 1]
  <2>1. sweep[s].since + 1 \in 0..MaxSweepTicks
    <3>1. sweep[s].since < MaxSweepTicks
      BY <1>4 DEF Tick
    <3> QED BY <3>1, SweepFields, Numbers
  <2>2. /\ v \in SweepType /\ v.table = sweep[s].table /\ v.list = sweep[s].list
        /\ v.wrote = sweep[s].wrote /\ v.sending = sweep[s].sending
        /\ v.connected = sweep[s].connected /\ v.since = sweep[s].since + 1
    BY <1>2, <2>1 DEF SweepType
  <2> HIDE DEF v
  <2>3. v.table # "none"
    BY <1>2, <1>4, <2>2 DEF SweepOK, Active
  <2>4. SweepOK(v)
    BY <1>2, <2>2, <2>3 DEF SweepOK
  <2> QED BY <1>1, <1>4, <2>2, <2>4 DEF v
<1> QED BY <1>3, <1>4

LEMMA TickSweeps == ASSUME SweepTypes, SweepInv, Tick PROVE SweepTypes' /\ SweepInv'
<1>1. sweep' = [s \in Sweeps |-> sweep'[s]]
  BY DEF Tick
<1>2. \A s \in Sweeps : sweep'[s] \in SweepType /\ SweepOK(sweep'[s])
  BY TickSweep
<1> QED BY <1>1, <1>2 DEF SweepTypes, SweepInv

LEMMA SweepsStep == ASSUME RowsInv, NudgesNext PROVE SweepTypes' /\ SweepInv'
<1> USE DEF RowsInv, TypeInv
<1>1. CASE Events \/ Arms
  <2>1. CASE Switch
    BY <2>1 DEF Switch, SweepTypes, SweepInv
  <2>2. ASSUME NEW u \in Audience,
               \/ OpenFunnel(u) \/ Expire(u) \/ ExpireAgain(u) \/ Connect(u)
               \/ FinishFunnel(u) \/ Buy(u) \/ Block(u) \/ Delete(u)
        PROVE  SweepTypes' /\ SweepInv'
    BY <2>2 DEF OpenFunnel, Expire, ExpireAgain, Connect, FinishFunnel, Buy, Block, Delete,
                SweepTypes, SweepInv
  <2>3. CASE Arms
    BY <2>3 DEF Arms, Arm, SweepTypes, SweepInv
  <2> QED BY <1>1, <2>1, <2>2, <2>3 DEF Events
<1>2. CASE Tick
  BY <1>2, TickSweeps
<1>3. ASSUME NEW s \in Sweeps, Check(s) PROVE SweepTypes' /\ SweepInv'
  BY <1>3, CheckStep
<1>4. ASSUME NEW s \in Sweeps, Deliver(s) PROVE SweepTypes' /\ SweepInv'
  BY <1>4, DeliverStep
<1>5. ASSUME NEW s \in Sweeps, FinishSweep(s) \/ Crash(s) PROVE SweepTypes' /\ SweepInv'
  BY <1>5, StoppedStep DEF FinishSweep, Crash
<1>6. ASSUME NEW s \in Sweeps, NEW t \in Tables, StartSweep(s, t) PROVE SweepTypes' /\ SweepInv'
  BY <1>6, StartStep
<1> QED BY <1>1, <1>2, <1>3, <1>4, <1>5, <1>6 DEF NudgesNext, Work

LEMMA HistoryStep == ASSUME RowsInv, NudgesNext PROVE HistoryInv'
<1> USE DEF RowsInv, TypeInv
<1>1. CASE Events
  <2>1. lapsed' \subseteq Audience \X Steps
    BY <1>1 DEF Events, Lapse, HistoryInv
  <2>2. CASE Switch
    BY <2>1, <2>2, EventType DEF Switch, HistoryInv
  <2>3. ASSUME NEW u \in Audience, OpenFunnel(u) \/ Expire(u) \/ ExpireAgain(u)
        PROVE  HistoryInv'
    <3>1. faults' \in 0..MaxFaults
      BY <2>3, BeginArmStep DEF OpenFunnel, Expire, ExpireAgain
    <3>2. /\ events' \in 0..MaxEvents
          /\ UNCHANGED <<received, rearmed>>
      BY <2>3, EventType DEF OpenFunnel, Expire, ExpireAgain, HistoryInv
    <3> QED BY <2>1, <3>1, <3>2 DEF HistoryInv
  <2>4. ASSUME NEW u \in Audience,
               Connect(u) \/ FinishFunnel(u) \/ Buy(u) \/ Block(u) \/ Delete(u)
        PROVE  HistoryInv'
    <3>1. Event /\ UNCHANGED <<received, rearmed, faults>>
      BY <2>4 DEF Connect, FinishFunnel, Buy, Block, Delete
    <3> QED BY <2>1, <3>1, EventType DEF HistoryInv
  <2> QED BY <1>1, <2>2, <2>3, <2>4 DEF Events
<1>2. CASE Arms
  BY <1>2 DEF Arms, Arm, Lapse, HistoryInv, ArmingInv
<1>3. CASE Tick
  BY <1>3 DEF Tick, HistoryInv
<1>4. ASSUME NEW s \in Sweeps, Check(s) \/ FinishSweep(s) PROVE HistoryInv'
  BY <1>4 DEF Check, FinishSweep, HistoryInv
<1>5. ASSUME NEW s \in Sweeps, Crash(s) \/ \E t \in Tables : StartSweep(s, t) PROVE HistoryInv'
  <2>1. UNCHANGED <<received, rearmed, lapsed, events>> /\ faults' \in 0..MaxFaults
    BY <1>5, FaultType DEF Crash, StartSweep, HistoryInv
  <2> QED BY <2>1 DEF HistoryInv
<1>6. ASSUME NEW s \in Sweeps, Deliver(s) PROVE HistoryInv'
  <2> DEFINE i == Head(sweep[s].list)
  <2>1. i \in Ids
    BY <1>6, SweepFields, TailFacts DEF Deliver, SweepInv, SweepOK
  <2>2. UNCHANGED <<rearmed, lapsed, events>> /\ faults' \in 0..MaxFaults
    BY <1>6, FaultType DEF Deliver, HistoryInv
  <2>3. received' = received \/ Got(i)
    BY <1>6 DEF Deliver
  <2>4. received' \in [Audience -> [Steps -> Nat]]
    BY <2>1, <2>3, IdParts DEF Got, HistoryInv
  <2> QED BY <2>2, <2>4 DEF HistoryInv
<1> QED BY <1>1, <1>2, <1>3, <1>4, <1>5, <1>6 DEF NudgesNext, Work

LEMMA RowsStep == ASSUME RowsInv, [NudgesNext]_nudgesVars PROVE RowsInv'
<1>1. CASE NudgesNext
  BY <1>1, WorldStep, QueueStep, ArmingStep, HistoryStep, SweepsStep DEF RowsInv, TypeInv
<1>2. CASE UNCHANGED nudgesVars
  BY <1>2 DEF nudgesVars, RowsInv, TypeInv, WorldInv, QueueInv, Sorted, ArmingInv, HistoryInv,
              SweepTypes, SweepInv, ArmsInv
<1> QED BY <1>1, <1>2

LEMMA RowsInit == NudgesInit => RowsInv
<1> SUFFICES ASSUME NudgesInit PROVE RowsInv OBVIOUS
<1>1. WorldInv /\ ArmingInv
  BY NudgesAssumption DEF NudgesInit, WorldInv, ArmingInv, NudgesAssumption
<1>5. HistoryInv
  <2>1. 0 \in 0..MaxEvents /\ 0 \in 0..MaxFaults
    BY Numbers
  <2> QED BY <2>1 DEF NudgesInit, HistoryInv
<1>2. QueueInv
  <2>1. Absent \in RowType /\ Absent.status = "absent"
    BY Numbers DEF Absent, RowType
  <2>2. order = <<>> /\ ToSet(order) = {} /\ IsInjective(order) /\ Sorted(order, row)
    BY DEF NudgesInit, ToSet, IsInjective, Sorted
  <2> QED BY <2>1, <2>2 DEF NudgesInit, QueueInv
<1>3. SweepTypes /\ SweepInv
  BY IdleOK DEF NudgesInit, SweepTypes, SweepInv
<1>4. ArmsInv
  BY FS_EmptySet DEF NudgesInit, ArmsInv
<1> QED BY <1>1, <1>2, <1>3, <1>4, <1>5 DEF RowsInv, TypeInv

\* Every variable of the two sweeps keeps its type, and the queue holds the pending rows and
\* only they, whatever is armed, cancelled, sent and repeated.
THEOREM NudgesTypes == NudgesSpec => []NudgesTypeOK
<1>1. NudgesInit => RowsInv
  BY RowsInit
<1>2. RowsInv /\ [NudgesNext]_nudgesVars => RowsInv'
  BY RowsStep
<1>3. RowsInv => NudgesTypeOK
  BY TypesHold DEF RowsInv
<1> QED BY <1>1, <1>2, <1>3, PTL DEF NudgesSpec

-----------------------------------------------------------------------------
(* No nudge after the connection.                                           *)

LEMMA FewerPending ==
    ASSUME SilenceInv, \A i \in Ids : row'[i].status = "pending" => row[i].status = "pending",
           connected' = connected, rearmed \subseteq rearmed',
           \A s \in Sweeps : \/ sweep'[s].list = <<>>
                             \/ /\ ToSet(sweep'[s].list) \subseteq ToSet(sweep[s].list)
                                /\ sweep'[s].connected = sweep[s].connected
    PROVE  SilenceInv'
<1>1. ToSet(<<>>) = {}
  BY DEF ToSet
<1> QED BY <1>1 DEF SilenceInv

LEMMA ListsShrink ==
    ASSUME RowsInv, NEW s \in Sweeps, Check(s) \/ Deliver(s)
    PROVE  /\ sweep[s].list # <<>>
           /\ \A o \in Sweeps : /\ ToSet(sweep'[o].list) \subseteq ToSet(sweep[o].list)
                                /\ sweep'[o].connected = sweep[o].connected
                                /\ sweep'[o].table = sweep[o].table
                                /\ sweep'[o].since = sweep[o].since
           /\ \A o \in Sweeps \ {s} : sweep'[o] = sweep[o]
<1>1. sweep[s] \in SweepType /\ DOMAIN sweep = Sweeps /\ SweepOK(sweep[s])
  BY DEF RowsInv, TypeInv, SweepTypes, SweepInv
<1>2. sweep[s].list # <<>>
  BY <1>1 DEF Check, Deliver, SweepOK
<1>3. ToSet(Tail(sweep[s].list)) \subseteq ToSet(sweep[s].list)
  BY <1>1, <1>2, TailFacts DEF SweepType, SweepOK
<1>4. CASE \E ids, status : Advance(s, ids, status)
  BY <1>1, <1>2, <1>3, <1>4 DEF Advance, SweepType
<1>5. CASE sweep' = [sweep EXCEPT ![s].sending = TRUE]
  BY <1>1, <1>2, <1>5 DEF SweepType
<1> QED BY <1>4, <1>5 DEF Check, Deliver, Mark

LEMMA SilenceStep == ASSUME RowsInv, SilenceInv, [NudgesNext]_nudgesVars PROVE SilenceInv'
<1>1. \A i \in Ids : row[i] \in RowType
  BY DEF RowsInv, TypeInv, QueueInv
<1>2. ASSUME NEW u \in Audience, Connect(u) PROVE SilenceInv'
  <2>1. ASSUME NEW i \in Ids, Chain[Step(i)] = "A", row'[i].status = "pending",
               User(i) \in connected'
        PROVE  User(i) \in rearmed
    <3> DEFINE new == IF sub[u] = "trial" THEN {FreeId(u, t) : t \in Missing(u, "C")} ELSE {}
    <3>1. row'[i] = IF i \in Silenced(u) THEN [row[i] EXCEPT !.status = "cancelled"]
                    ELSE IF i \in new
                         THEN [status |-> "pending", wait |-> Delay[Step(i)], age |-> 0]
                         ELSE row[i]
      BY <1>2 DEF Connect
    <3>2. i \notin new
      BY <2>1, IdParts DEF Missing
    <3>3. i \notin Silenced(u) /\ row[i].status = "pending"
      BY <1>1, <2>1, <3>1, <3>2 DEF RowType
    <3>4. User(i) # u
      BY <2>1, <3>3 DEF Silenced, Pending, TableOf
    <3>5. User(i) \in connected
      BY <1>2, <2>1, <3>4 DEF Connect
    <3> QED BY <2>1, <3>3, <3>5 DEF SilenceInv
  <2>2. sweep' = sweep /\ rearmed' = rearmed
    BY <1>2 DEF Connect
  <2> QED BY <2>1, <2>2 DEF SilenceInv
<1>3. CASE Events /\ ~\E u \in Audience : Connect(u)
  <2>1. connected' = connected /\ rearmed' = rearmed /\ sweep' = sweep
    BY <1>3 DEF Events, OpenFunnel, Expire, ExpireAgain, FinishFunnel, Buy, Block,
                Delete, Switch, world
  <2>2. ASSUME NEW i \in Ids, row'[i].status = "pending" PROVE row[i].status = "pending"
    <3>1. CASE row' = row
      BY <2>2, <3>1
    <3>2. ASSUME NEW u \in Audience, FinishFunnel(u) PROVE row[i].status = "pending"
      BY <1>1, <2>2, <3>2 DEF FinishFunnel, Cancelled, RowType
    <3>3. ASSUME NEW u \in Audience, Delete(u) PROVE row[i].status = "pending"
      BY <2>2, <3>3 DEF Delete, Absent
    <3> QED BY <1>3, <3>1, <3>2, <3>3
            DEF Events, OpenFunnel, Expire, ExpireAgain, Buy, Block, Switch, table
  <2> QED BY <2>1, <2>2, FewerPending
<1>4. CASE Arms
  <2>1. PICK a \in arming : Arm(a)
    BY <1>4 DEF Arms
  <2>2. /\ a.user \in Audience /\ a.steps \subseteq Steps /\ \A t \in a.steps : Chain[t] = a.chain
    BY DEF RowsInv, TypeInv, ArmingInv, ArmsInv
  <2>3. /\ connected' = connected /\ sweep' = sweep
        /\ rearmed' = IF a.chain = "A" /\ a.user \in connected /\ a.steps # {}
                      THEN rearmed \cup {a.user} ELSE rearmed
        /\ row' = [i \in Ids |-> IF i \in {FreeId(a.user, t) : t \in a.steps}
                     THEN [status |-> "pending", wait |-> Delay[Step(i)], age |-> 0] ELSE row[i]]
    BY <2>1 DEF Arm, Insert, world
  <2>4. ASSUME NEW i \in Ids, Chain[Step(i)] = "A", row'[i].status = "pending",
               User(i) \in connected
        PROVE  User(i) \in rearmed'
    <3>1. CASE i \in {FreeId(a.user, t) : t \in a.steps}
      <4>1. PICK t \in a.steps : i = FreeId(a.user, t)
        BY <3>1
      <4>2. User(i) = a.user /\ Step(i) = t
        BY <2>2, <4>1, IdParts
      <4> QED BY <2>2, <2>3, <2>4, <4>1, <4>2
    <3>2. CASE i \notin {FreeId(a.user, t) : t \in a.steps}
      BY <2>3, <2>4, <3>2 DEF SilenceInv
    <3> QED BY <3>1, <3>2
  <2> QED BY <2>3, <2>4 DEF SilenceInv
<1>5. CASE Tick
  <2>1. ASSUME NEW i \in Ids, row'[i].status = "pending" PROVE row[i].status = "pending"
    BY <1>1, <1>5, <2>1 DEF Tick, RowType
  <2>2. connected' = connected /\ rearmed' = rearmed
    BY <1>5 DEF Tick, world
  <2>3. \A s \in Sweeps : /\ sweep'[s].list = sweep[s].list
                          /\ sweep'[s].connected = sweep[s].connected
    <3>1. SweepTypes /\ SweepInv
      BY DEF RowsInv, TypeInv
    <3> QED BY <1>5, <3>1, TickSweep
  <2> QED BY <2>1, <2>2, <2>3, FewerPending
<1>6. ASSUME NEW s \in Sweeps, Check(s) \/ Deliver(s) PROVE SilenceInv'
  <2>1. connected' = connected /\ rearmed' = rearmed /\ row' = row
    BY <1>6 DEF Check, Deliver, world, table
  <2> QED BY <1>6, <2>1, ListsShrink, FewerPending
<1>7. ASSUME NEW s \in Sweeps, FinishSweep(s) \/ Crash(s) PROVE SilenceInv'
  <2>1. /\ connected' = connected /\ rearmed' = rearmed /\ sweep' = [sweep EXCEPT ![s] = Idle]
        /\ row' = row \/ Commit(s)
    BY <1>7 DEF FinishSweep, Crash, world, table
  <2>2. ASSUME NEW i \in Ids, row'[i].status = "pending" PROVE row[i].status = "pending"
    <3>1. CASE Commit(s)
      <4>1. CASE i \in Locked(s)
        <5>1. sweep[s].wrote[i] # "pending"
          BY <4>1, SweepFields DEF Locked, RowsInv, TypeInv
        <5>2. row'[i].status = sweep[s].wrote[i]
          BY <1>1, <3>1, <4>1 DEF Commit, RowType
        <5> QED BY <2>2, <5>1, <5>2
      <4>2. CASE i \notin Locked(s)
        BY <2>2, <3>1, <4>2 DEF Commit
      <4> QED BY <4>1, <4>2
    <3> QED BY <2>1, <2>2, <3>1
  <2>3. \A o \in Sweeps : sweep'[o].list = <<>> \/ sweep'[o] = sweep[o]
    BY <2>1 DEF Idle, RowsInv, TypeInv, SweepTypes
  <2> QED BY <2>1, <2>2, <2>3, FewerPending
<1>8. ASSUME NEW s \in Sweeps, NEW t \in Tables, StartSweep(s, t) PROVE SilenceInv'
  <2>1. connected' = connected /\ rearmed' = rearmed /\ row' = row
    BY <1>8 DEF StartSweep, world, table
  <2>2. /\ \A o \in Sweeps \ {s} : sweep'[o] = sweep[o]
        /\ sweep'[s].list = Listed(t) /\ sweep'[s].connected = connected
    BY <1>8, StartStep DEF RowsInv, TypeInv
  <2>3. \A i \in ToSet(Listed(t)) : i \in Ids /\ row[i].status = "pending"
    BY ListedFacts DEF RowsInv, TypeInv
  <2> QED BY <2>1, <2>2, <2>3 DEF SilenceInv
<1>9. CASE UNCHANGED nudgesVars
  BY <1>9 DEF nudgesVars, SilenceInv
<1> QED BY <1>2, <1>3, <1>4, <1>5, <1>6, <1>7, <1>8, <1>9 DEF NudgesNext, Events, Work

LEMMA SilenceInit == NudgesInit => SilenceInv
<1>1. ToSet(Idle.list) = {} /\ Absent.status # "pending"
  BY DEF Idle, ToSet, Absent
<1> QED BY <1>1 DEF NudgesInit, SilenceInv

\* No sweep that starts after a connection was recorded nudges the user to connect, unless
\* the user opened the funnel after it (ProcessOnboardingNudges).
THEOREM NudgesSilent == NudgesSpec => SilentAfterConnect
<1>1. NudgesInit => RowsInv /\ SilenceInv
  BY RowsInit, SilenceInit
<1>2. RowsInv /\ SilenceInv /\ [NudgesNext]_nudgesVars => (RowsInv /\ SilenceInv)'
  BY RowsStep, SilenceStep
<1>3. RowsInv /\ SilenceInv =>
        \A s \in Sweeps, i \in Ids :
            /\ sweep[s].sending /\ i = Head(sweep[s].list)
            /\ Chain[Step(i)] = "A" /\ User(i) \in sweep[s].connected
            => User(i) \in rearmed
  <2> SUFFICES ASSUME RowsInv, SilenceInv, NEW s \in Sweeps, sweep[s].sending
               PROVE  Head(sweep[s].list) \in ToSet(sweep[s].list)
    BY DEF SilenceInv
  <2> QED BY SweepFields, TailFacts DEF RowsInv, TypeInv, SweepInv, SweepOK
<1>4. RowsInv /\ SilenceInv =>
        \A s \in Sweeps, i \in Ids :
            (/\ sweep[s].sending /\ i = Head(sweep[s].list)
             /\ Chain[Step(i)] = "A" /\ User(i) \in sweep[s].connected
             /\ received'[User(i)][Step(i)] > received[User(i)][Step(i)])
            => User(i) \in rearmed
  BY <1>3
<1> QED BY <1>1, <1>2, <1>4, PTL DEF NudgesSpec, SilentAfterConnect

-----------------------------------------------------------------------------
(* How often a reminder is sent.                                            *)

LEMMA PartsFinite ==
    ASSUME NEW u, NEW t, NEW O, O \subseteq Copies(u, t), NEW arms, IsFiniteSet(arms),
           NEW A, A \subseteq arms, NEW P, P \subseteq Sweeps, NEW L, L \subseteq Sweeps
    PROVE  /\ IsFiniteSet(O) /\ Cardinality(O) \in Nat
           /\ IsFiniteSet(A) /\ Cardinality(A) \in Nat
           /\ IsFiniteSet(P) /\ Cardinality(P) \in Nat
           /\ IsFiniteSet(L) /\ Cardinality(L) \in Nat
<1>1. IsFiniteSet(Copies(u, t))
  <2>1. IsFiniteSet({<<u, t, 1>>}) /\ Copies(u, t) = {<<u, t, 1>>} \cup {<<u, t, 2>>}
    BY FS_Singleton DEF Copies
  <2>2. IsFiniteSet({<<u, t, 1>>} \cup {<<u, t, 2>>})
    BY <2>1, FS_AddElement
  <2> QED BY <2>1, <2>2
<1>2. IsFiniteSet(Sweeps)
  BY NudgesAssumption DEF NudgesAssumption
<1>3. IsFiniteSet(O) /\ IsFiniteSet(A) /\ IsFiniteSet(P) /\ IsFiniteSet(L)
  BY <1>1, <1>2, FS_Subset
<1> QED BY <1>3, FS_CardinalityType

LEMMA ChancesFinite ==
    ASSUME RowsInv, NEW u, NEW t, NEW paid \in SUBSET Sweeps
    PROVE  /\ IsFiniteSet(UnsentCopies(u, t)) /\ Cardinality(UnsentCopies(u, t)) \in Nat
           /\ IsFiniteSet(ArmsOf(u, t)) /\ Cardinality(ArmsOf(u, t)) \in Nat
           /\ IsFiniteSet(Paid(u, t, paid)) /\ Cardinality(Paid(u, t, paid)) \in Nat
           /\ IsFiniteSet(Late(u, t, paid)) /\ Cardinality(Late(u, t, paid)) \in Nat
           /\ Fresh(u, t) \in {0, 1}
<1>1. /\ UnsentCopies(u, t) \subseteq Copies(u, t) /\ ArmsOf(u, t) \subseteq arming
      /\ Paid(u, t, paid) \subseteq Sweeps /\ Late(u, t, paid) \subseteq Sweeps
      /\ IsFiniteSet(arming) /\ Fresh(u, t) \in {0, 1}
  BY DEF UnsentCopies, ArmsOf, Paid, Late, RowsInv, ArmsInv, Fresh
<1> QED BY <1>1, PartsFinite

LEMMA ChancesFiniteNext ==
    ASSUME RowsInv', NEW u, NEW t, NEW paid \in SUBSET Sweeps
    PROVE  /\ IsFiniteSet(UnsentCopies(u, t)') /\ Cardinality(UnsentCopies(u, t)') \in Nat
           /\ IsFiniteSet(ArmsOf(u, t)') /\ Cardinality(ArmsOf(u, t)') \in Nat
           /\ IsFiniteSet(Paid(u, t, paid)') /\ Cardinality(Paid(u, t, paid)') \in Nat
           /\ IsFiniteSet(Late(u, t, paid)') /\ Cardinality(Late(u, t, paid)') \in Nat
           /\ Fresh(u, t)' \in {0, 1}
<1>1. /\ UnsentCopies(u, t)' \subseteq Copies(u, t) /\ ArmsOf(u, t)' \subseteq arming'
      /\ Paid(u, t, paid)' \subseteq Sweeps /\ Late(u, t, paid)' \subseteq Sweeps
      /\ IsFiniteSet(arming') /\ Fresh(u, t)' \in {0, 1}
  BY DEF UnsentCopies, Copies, ArmsOf, Paid, Late, RowsInv, ArmsInv, Fresh
<1> QED BY <1>1, PartsFinite

LEMMA ChancesSum ==
    ASSUME NEW u, NEW t, NEW paid
    PROVE  /\ Chances(u, t, paid) = Cardinality(UnsentCopies(u, t)) + Cardinality(ArmsOf(u, t))
                                    + Fresh(u, t) + Cardinality(Paid(u, t, paid))
                                    + Cardinality(Late(u, t, paid))
           /\ Chances(u, t, paid)' = Cardinality(UnsentCopies(u, t)') + Cardinality(ArmsOf(u, t)')
                                     + Fresh(u, t)' + Cardinality(Paid(u, t, paid)')
                                     + Cardinality(Late(u, t, paid)')
BY DEF Chances

LEMMA OneLate ==
    ASSUME NEW u, NEW t, NEW paid, OneUnpaid(paid),
           NEW s \in Sweeps \ paid, NEW o \in Sweeps \ paid, Able(s, u, t), Able(o, u, t)
    PROVE  s = o
BY DEF OneUnpaid, Able

\* A step that only closes copies, cancels and skips.
LEMMA ClosingParts ==
    ASSUME RowsInv, RowsInv', NEW paid \in SUBSET Sweeps, OneUnpaid(paid), NEW u, NEW t,
           UnsentCopies(u, t)' \subseteq UnsentCopies(u, t),
           ArmsOf(u, t)' \subseteq ArmsOf(u, t),
           \A s \in Sweeps : Able(s, u, t)' =>
               Able(s, u, t) /\ ToSet(sweep'[s].list) \subseteq ToSet(sweep[s].list)
    PROVE  /\ Cardinality(UnsentCopies(u, t)') <= Cardinality(UnsentCopies(u, t))
           /\ Cardinality(UnsentCopies(u, t)') + Cardinality(Late(u, t, paid)')
                <= Cardinality(UnsentCopies(u, t)) + Cardinality(Late(u, t, paid))
           /\ Cardinality(ArmsOf(u, t)') <= Cardinality(ArmsOf(u, t))
           /\ Cardinality(Paid(u, t, paid)') <= Cardinality(Paid(u, t, paid))
<1> DEFINE O == Cardinality(UnsentCopies(u, t))
           A == Cardinality(ArmsOf(u, t))
           P == Cardinality(Paid(u, t, paid))
           L == Cardinality(Late(u, t, paid))
           O1 == Cardinality(UnsentCopies(u, t)')
           A1 == Cardinality(ArmsOf(u, t)')
           P1 == Cardinality(Paid(u, t, paid)')
           L1 == Cardinality(Late(u, t, paid)')
<1>1. /\ O \in Nat /\ A \in Nat /\ P \in Nat /\ L \in Nat
      /\ IsFiniteSet(UnsentCopies(u, t)) /\ IsFiniteSet(ArmsOf(u, t))
      /\ IsFiniteSet(Paid(u, t, paid)) /\ IsFiniteSet(Late(u, t, paid))
  BY ChancesFinite
<1>2. O1 \in Nat /\ A1 \in Nat /\ P1 \in Nat /\ L1 \in Nat
  BY ChancesFiniteNext
<1>3. A1 <= A
  BY <1>1, FS_Subset
<1>4. Paid(u, t, paid)' \subseteq Paid(u, t, paid)
  BY DEF Paid
<1>5. P1 <= P
  BY <1>1, <1>4, FS_Subset
<1>6. O1 <= O
  BY <1>1, FS_Subset
<1>7. O1 + L1 <= O + L
  <2>1. CASE Late(u, t, paid)' \subseteq Late(u, t, paid)
    <3>1. L1 <= L
      BY <1>1, <2>1, FS_Subset
    <3> HIDE DEF O, L, O1, L1
    <3> QED BY <1>1, <1>2, <1>6, <3>1
  <2>2. CASE ~(Late(u, t, paid)' \subseteq Late(u, t, paid))
    <3>1. PICK s \in Late(u, t, paid)' : s \notin Late(u, t, paid)
      BY <2>2
    <3>2. /\ s \in Sweeps \ paid /\ Able(s, u, t)
          /\ ToSet(sweep'[s].list) \subseteq ToSet(sweep[s].list)
          /\ \E i \in Copies(u, t) \cap ToSet(sweep'[s].list) : ~Unsent(i)'
      BY <3>1 DEF Late, Copies
    <3>3. PICK i \in Copies(u, t) \cap ToSet(sweep'[s].list) : ~Unsent(i)'
      BY <3>2
    <3>4. Unsent(i)
      BY <3>1, <3>2, <3>3 DEF Late
    <3>5. i \in UnsentCopies(u, t) /\ i \notin UnsentCopies(u, t)'
      BY <3>3, <3>4 DEF UnsentCopies
    <3>6. O1 # O
      BY <1>1, <3>5, FS_Subset
    <3>7. \A o \in Late(u, t, paid)' : o = s
      BY <3>2, OneLate DEF Late
    <3>8. L1 = 1
      <4>1. Late(u, t, paid)' = {s}
        BY <3>1, <3>7
      <4>2. Cardinality({s}) = 1
        BY FS_Singleton
      <4> QED BY <4>1, <4>2
    <3> HIDE DEF O, L, O1, L1
    <3> QED BY <1>1, <1>2, <1>6, <3>6, <3>8
  <2> QED BY <2>1, <2>2
<1> QED BY <1>3, <1>5, <1>6, <1>7

\* Such a step leaves no more chances.
LEMMA Closing ==
    ASSUME RowsInv, RowsInv', NEW paid \in SUBSET Sweeps, OneUnpaid(paid), NEW u, NEW t,
           UnsentCopies(u, t)' \subseteq UnsentCopies(u, t),
           ArmsOf(u, t)' \subseteq ArmsOf(u, t),
           Fresh(u, t)' <= Fresh(u, t),
           \A s \in Sweeps : Able(s, u, t)' =>
               Able(s, u, t) /\ ToSet(sweep'[s].list) \subseteq ToSet(sweep[s].list)
    PROVE  Chances(u, t, paid)' <= Chances(u, t, paid)
<1> DEFINE O == Cardinality(UnsentCopies(u, t))
           A == Cardinality(ArmsOf(u, t))
           P == Cardinality(Paid(u, t, paid))
           L == Cardinality(Late(u, t, paid))
           F == Fresh(u, t)
           O1 == Cardinality(UnsentCopies(u, t)')
           A1 == Cardinality(ArmsOf(u, t)')
           P1 == Cardinality(Paid(u, t, paid)')
           L1 == Cardinality(Late(u, t, paid)')
           F1 == Fresh(u, t)'
<1>1. /\ O \in Nat /\ A \in Nat /\ P \in Nat /\ L \in Nat /\ F \in {0, 1}
      /\ O1 \in Nat /\ A1 \in Nat /\ P1 \in Nat /\ L1 \in Nat /\ F1 \in {0, 1}
  BY ChancesFinite, ChancesFiniteNext
<1>2. F1 <= F
  OBVIOUS
<1>3. O1 + L1 <= O + L /\ A1 <= A /\ P1 <= P
  BY ClosingParts
<1>4. Chances(u, t, paid) = O + A + F + P + L /\ Chances(u, t, paid)' = O1 + A1 + F1 + P1 + L1
  BY ChancesSum
<1> HIDE DEF O, A, P, L, F, O1, A1, P1, L1, F1
<1> QED BY <1>1, <1>2, <1>3, <1>4

\* A step that opens at most one copy, and closes none.
LEMMA Opening ==
    ASSUME RowsInv, RowsInv', NEW paid \in SUBSET Sweeps, NEW u, NEW t, NEW x,
           UnsentCopies(u, t)' \subseteq UnsentCopies(u, t) \cup {x},
           UnsentCopies(u, t) \subseteq UnsentCopies(u, t)',
           \A s \in Sweeps : Able(s, u, t)' =>
               Able(s, u, t) /\ ToSet(sweep'[s].list) \subseteq ToSet(sweep[s].list)
    PROVE  /\ Cardinality(UnsentCopies(u, t)') <= Cardinality(UnsentCopies(u, t)) + 1
           /\ Cardinality(Paid(u, t, paid)') <= Cardinality(Paid(u, t, paid))
           /\ Cardinality(Late(u, t, paid)') <= Cardinality(Late(u, t, paid))
<1>1. /\ IsFiniteSet(UnsentCopies(u, t)) /\ Cardinality(UnsentCopies(u, t)) \in Nat
      /\ IsFiniteSet(Paid(u, t, paid)) /\ IsFiniteSet(Late(u, t, paid))
  BY ChancesFinite
<1>2. Cardinality(UnsentCopies(u, t)') \in Nat
  BY ChancesFiniteNext
<1>3. Cardinality(UnsentCopies(u, t)') <= Cardinality(UnsentCopies(u, t)) + 1
  <2> DEFINE n == Cardinality(UnsentCopies(u, t))
             m == Cardinality(UnsentCopies(u, t) \cup {x})
             k == Cardinality(UnsentCopies(u, t)')
  <2>1. /\ IsFiniteSet(UnsentCopies(u, t) \cup {x})
        /\ m = IF x \in UnsentCopies(u, t) THEN n ELSE n + 1
    BY <1>1, FS_AddElement
  <2>2. k <= m
    BY <2>1, FS_Subset
  <2>3. n \in Nat /\ k \in Nat
    BY <1>1, <1>2
  <2> HIDE DEF n, m, k
  <2>4. k <= n + 1
    BY <2>1, <2>2, <2>3
  <2> QED BY <2>4 DEF k, n
<1>4. Paid(u, t, paid)' \subseteq Paid(u, t, paid)
  BY DEF Paid
<1>5. Late(u, t, paid)' \subseteq Late(u, t, paid)
  BY DEF Late, UnsentCopies
<1> QED BY <1>1, <1>3, <1>4, <1>5, FS_Subset

\* What a step may do to the count of one reminder of one user.
Settles(u, t, paid) ==
    received'[u][t] + Chances(u, t, paid)' + faults
        <= received[u][t] + Chances(u, t, paid) + faults'

LEMMA Account ==
    \A r, r1, c, c1, f, f1 \in Nat :
        /\ r + c <= 1 + f /\ r1 + c1 + f <= r + c + f1 => r1 + c1 <= 1 + f1
        /\ c1 <= c /\ r1 = r /\ f <= f1 => r1 + c1 + f <= r + c + f1
        /\ c1 <= c /\ r1 <= r + 1 /\ f1 = f + 1 => r1 + c1 + f <= r + c + f1
        /\ c1 <= c + 1 /\ r1 = r /\ f1 = f + 1 => r1 + c1 + f <= r + c + f1
        /\ c1 + 1 <= c /\ r1 = r + 1 /\ f <= f1 => r1 + c1 + f <= r + c + f1
OBVIOUS

LEMMA CountTypes ==
    ASSUME RowsInv, RowsInv', NEW paid \in SUBSET Sweeps, NEW u \in Audience, NEW t \in Steps
    PROVE  /\ received[u][t] \in Nat /\ received'[u][t] \in Nat
           /\ faults \in Nat /\ faults' \in Nat
           /\ Chances(u, t, paid) \in Nat /\ Chances(u, t, paid)' \in Nat
<1>1. /\ received[u][t] \in Nat /\ received'[u][t] \in Nat
      /\ faults \in Nat /\ faults' \in Nat
  BY Numbers DEF RowsInv, TypeInv, HistoryInv
<1>2. Chances(u, t, paid) \in Nat /\ Chances(u, t, paid)' \in Nat
  BY ChancesFinite, ChancesFiniteNext, ChancesSum
<1> QED BY <1>1, <1>2

LEMMA OnceKept ==
    ASSUME RowsInv, RowsInv', NEW paid \in SUBSET Sweeps, OnceFor(paid), OneUnpaid(paid)',
           \A u \in Audience, t \in Steps : Settles(u, t, paid)
    PROVE  OnceInv'
<1>1. ASSUME NEW u \in Audience, NEW t \in Steps
      PROVE  received'[u][t] + Chances(u, t, paid)' <= 1 + faults'
  <2>1. /\ received[u][t] \in Nat /\ received'[u][t] \in Nat
        /\ faults \in Nat /\ faults' \in Nat
        /\ Chances(u, t, paid) \in Nat /\ Chances(u, t, paid)' \in Nat
    BY CountTypes
  <2>2. received[u][t] + Chances(u, t, paid) <= 1 + faults
    BY DEF OnceFor
  <2>3. received'[u][t] + Chances(u, t, paid)' + faults
          <= received[u][t] + Chances(u, t, paid) + faults'
    BY DEF Settles
  <2> DEFINE r == received[u][t]
             r1 == received'[u][t]
             c == Chances(u, t, paid)
             c1 == Chances(u, t, paid)'
             f1 == faults'
  <2>4. /\ r \in Nat /\ r1 \in Nat /\ c \in Nat /\ c1 \in Nat /\ faults \in Nat /\ f1 \in Nat
        /\ r + c <= 1 + faults /\ r1 + c1 + faults <= r + c + f1
    BY <2>1, <2>2, <2>3
  <2> HIDE DEF r, r1, c, c1, f1
  <2>5. r1 + c1 <= 1 + f1
    BY <2>4
  <2> QED BY <2>5 DEF r1, c1, f1
<1>2. OnceFor(paid)'
  BY <1>1 DEF OnceFor
<1> QED BY <1>2 DEF OnceInv

\* No more received, no more chances.
LEMMA SettlesDown ==
    ASSUME RowsInv, RowsInv', NEW paid \in SUBSET Sweeps, NEW u \in Audience, NEW t \in Steps,
           Chances(u, t, paid)' <= Chances(u, t, paid),
           \/ received'[u][t] = received[u][t] /\ faults <= faults'
           \/ received'[u][t] <= received[u][t] + 1 /\ faults' = faults + 1
    PROVE  Settles(u, t, paid)
BY CountTypes, Account DEF Settles

LEMMA SweepsSame ==
    ASSUME sweep' = sweep, NEW paid
    PROVE  /\ OneUnpaid(paid)' <=> OneUnpaid(paid)
           /\ \A s, u, t : Able(s, u, t)' <=> Able(s, u, t)
           /\ \A s : Wrote(s, "sent")' = Wrote(s, "sent")
BY DEF OneUnpaid, Able, Active, Told, Wrote

\* Steps of the world that insert no rows.
LEMMA WorldSettles ==
    ASSUME RowsInv, RowsInv', NEW paid \in SUBSET Sweeps, OneUnpaid(paid),
           NEW u \in Audience, NEW t \in Steps,
           sweep' = sweep, arming' = arming, received' = received, faults' = faults,
           \A i \in Copies(u, t) : row'[i].status = "pending" => row[i].status = "pending",
           u \in users' => u \in users /\ \A i \in Copies(u, t) :
                                row[i].status # "absent" => row'[i].status # "absent"
    PROVE  Settles(u, t, paid)
<1>1. UnsentCopies(u, t)' \subseteq UnsentCopies(u, t)
  BY SweepsSame DEF UnsentCopies, Unsent, Copies
<1>2. ArmsOf(u, t)' = ArmsOf(u, t)
  BY DEF ArmsOf
<1>3. Fresh(u, t)' <= Fresh(u, t)
  <2>1. u \in users' /\ ~Exists(u, t)' => ~Exists(u, t) /\ u \in users
    BY DEF Exists, Copies
  <2> QED BY <1>2, <2>1 DEF Fresh
<1>4. \A s \in Sweeps : Able(s, u, t)' =>
          Able(s, u, t) /\ ToSet(sweep'[s].list) \subseteq ToSet(sweep[s].list)
  BY SweepsSame
<1>5. Chances(u, t, paid)' <= Chances(u, t, paid)
  BY <1>1, <1>2, <1>3, <1>4, Closing
<1>6. faults <= faults'
  BY DEF RowsInv, TypeInv, HistoryInv
<1> QED BY <1>5, <1>6, SettlesDown

\* A transaction that arms a chain begins.
LEMMA BeginSettles ==
    ASSUME RowsInv, RowsInv', NEW paid \in SUBSET Sweeps, NEW u \in Audience, NEW t \in Steps,
           sweep' = sweep, row' = row, received' = received, users' = users,
           NEW v \in users, NEW c, BeginArm(v, c)
    PROVE  Settles(u, t, paid)
<1> DEFINE a0 == [user |-> v, chain |-> c, steps |-> Missing(v, c),
                  nth |-> Cardinality({a \in arming : a.user = v})]
           O == Cardinality(UnsentCopies(u, t))
           A == Cardinality(ArmsOf(u, t))
           P == Cardinality(Paid(u, t, paid))
           L == Cardinality(Late(u, t, paid))
           A1 == Cardinality(ArmsOf(u, t)')
           F == Fresh(u, t)
           F1 == Fresh(u, t)'
           r == received[u][t]
<1>1. arming' = arming \cup {a0}
  BY DEF BeginArm
<1>2. /\ UnsentCopies(u, t)' = UnsentCopies(u, t) /\ Paid(u, t, paid)' = Paid(u, t, paid)
      /\ Late(u, t, paid)' = Late(u, t, paid) /\ (Exists(u, t)' <=> Exists(u, t))
  BY SweepsSame DEF UnsentCopies, Unsent, Paid, Late, Exists, Copies
<1>3. /\ O \in Nat /\ A \in Nat /\ P \in Nat /\ L \in Nat /\ F \in {0, 1}
      /\ IsFiniteSet(ArmsOf(u, t)) /\ A1 \in Nat /\ F1 \in {0, 1}
  BY ChancesFinite, ChancesFiniteNext
<1>4. ArmsOf(u, t)' = IF v = u /\ t \in Missing(v, c) THEN ArmsOf(u, t) \cup {a0} ELSE ArmsOf(u, t)
  BY <1>1 DEF ArmsOf
<1>5. F1 <= F
  <2>1. ArmsOf(u, t)' = {} => ArmsOf(u, t) = {}
    BY <1>4
  <2> QED BY <1>2, <2>1 DEF Fresh
<1>6. A1 <= A + 1 /\ ((v = u /\ t \in Missing(v, c)) \/ A1 = A)
  <2>1. IsFiniteSet(ArmsOf(u, t))
    BY <1>3
  <2>2. Cardinality(ArmsOf(u, t) \cup {a0}) = IF a0 \in ArmsOf(u, t) THEN A ELSE A + 1
    BY <2>1, FS_AddElement
  <2> HIDE DEF a0
  <2> QED BY <1>3, <1>4, <2>2
<1>7. ASSUME v = u, t \in Missing(v, c), \A a \in arming : a.user # v
      PROVE  F = 1 /\ F1 = 0
  <2>1. ArmsOf(u, t) = {} /\ ~Exists(u, t) /\ u \in users
    BY <1>7 DEF ArmsOf, Missing
  <2>2. ArmsOf(u, t)' # {}
    BY <1>4, <1>7
  <2> QED BY <2>1, <2>2 DEF Fresh
<1>8. \/ faults' = faults + 1
      \/ faults' = faults /\ \A a \in arming : a.user # v
  BY FaultType DEF BeginArm, RowsInv, TypeInv
<1>9. r \in Nat /\ faults \in Nat /\ faults' \in Nat
  BY Numbers DEF RowsInv, TypeInv, HistoryInv
<1>10. /\ Chances(u, t, paid) = O + A + F + P + L
       /\ Chances(u, t, paid)' = O + A1 + F1 + P + L
  BY <1>2, ChancesSum
<1>11. A1 + F1 + faults <= A + F + faults'
  <2> HIDE DEF A, A1, F, F1
  <2> QED BY <1>3, <1>5, <1>6, <1>7, <1>8, <1>9
<1>12. r + (O + A1 + F1 + P + L) + faults <= r + (O + A + F + P + L) + faults'
  <2>1. \A n, o, a, a1, f, f1, p, l, g, g1 \in Nat :
           a1 + f1 + g <= a + f + g1 => n + (o + a1 + f1 + p + l) + g <= n + (o + a + f + p + l) + g1
    OBVIOUS
  <2>2. F \in Nat /\ F1 \in Nat
    BY <1>3
  <2> HIDE DEF A, A1, F, F1, O, P, L, r
  <2> QED BY <1>3, <1>9, <1>11, <2>1, <2>2
<1> QED BY <1>10, <1>12 DEF Settles

\* The transaction inserts its rows.
LEMMA ArmSettles ==
    ASSUME RowsInv, RowsInv', NEW paid \in SUBSET Sweeps, NEW u \in Audience, NEW t \in Steps,
           NEW a \in arming, Arm(a), OneUnpaid(paid)
    PROVE  Settles(u, t, paid)
<1>1. /\ sweep' = sweep /\ arming' = arming \ {a} /\ received' = received /\ faults' = faults
      /\ users' = users
      /\ row' = [i \in Ids |-> IF i \in {FreeId(a.user, x) : x \in a.steps}
                   THEN [status |-> "pending", wait |-> Delay[Step(i)], age |-> 0] ELSE row[i]]
  BY DEF Arm, Insert, world
<1>2. a.user \in Audience /\ a.steps \subseteq Steps
  BY DEF RowsInv, TypeInv, ArmingInv
<1>3. /\ Copies(u, t) \subseteq Ids
      /\ \A x \in a.steps : FreeId(a.user, x) \in Copies(u, t) => a.user = u /\ x = t
  BY <1>2, IdParts
<1>4. \A s \in Sweeps : Able(s, u, t)' =>
          Able(s, u, t) /\ ToSet(sweep'[s].list) \subseteq ToSet(sweep[s].list)
  BY <1>1, SweepsSame
<1>5. CASE ~(a.user = u /\ t \in a.steps)
  <2>1. \A i \in Copies(u, t) : row'[i] = row[i]
    BY <1>1, <1>3, <1>5
  <2>2. ArmsOf(u, t)' = ArmsOf(u, t)
    BY <1>1, <1>5 DEF ArmsOf
  <2>3. UnsentCopies(u, t)' \subseteq UnsentCopies(u, t)
    BY <1>1, <2>1, SweepsSame DEF UnsentCopies, Unsent, Copies
  <2>4. Exists(u, t)' <=> Exists(u, t)
    BY <2>1 DEF Exists, Copies
  <2>5. Fresh(u, t)' = Fresh(u, t) /\ Fresh(u, t) \in {0, 1}
    BY <1>1, <2>2, <2>4 DEF Fresh
  <2>6. Chances(u, t, paid)' <= Chances(u, t, paid)
    BY <1>4, <2>2, <2>3, <2>5, Closing
  <2>7. faults <= faults'
    BY <1>1 DEF RowsInv, TypeInv, HistoryInv
  <2> QED BY <1>1, <2>6, <2>7, SettlesDown
<1>6. CASE a.user = u /\ t \in a.steps
  <2> DEFINE O == Cardinality(UnsentCopies(u, t))
             A == Cardinality(ArmsOf(u, t))
             P == Cardinality(Paid(u, t, paid))
             L == Cardinality(Late(u, t, paid))
             F == Fresh(u, t)
             O1 == Cardinality(UnsentCopies(u, t)')
             A1 == Cardinality(ArmsOf(u, t)')
             P1 == Cardinality(Paid(u, t, paid)')
             L1 == Cardinality(Late(u, t, paid)')
             F1 == Fresh(u, t)'
             x == FreeId(u, t)
  <2>1. x \in Copies(u, t) /\ row'[x].status = "pending"
    BY <1>1, <1>3, <1>6, IdParts
  <2>2. \A i \in Copies(u, t) \ {x} : row'[i] = row[i]
    BY <1>1, <1>3, <1>6
  <2>3. UnsentCopies(u, t)' \subseteq UnsentCopies(u, t) \cup {x}
    BY <1>1, <2>2, SweepsSame DEF UnsentCopies, Unsent, Copies
  <2>4. UnsentCopies(u, t) \subseteq UnsentCopies(u, t)'
    BY <1>1, <2>1, <2>2, SweepsSame DEF UnsentCopies, Unsent, Copies
  <2>5. O1 <= O + 1 /\ P1 <= P /\ L1 <= L
    BY <1>4, <2>3, <2>4, Opening
  <2>6. a \in ArmsOf(u, t) /\ ArmsOf(u, t)' = ArmsOf(u, t) \ {a}
    BY <1>1, <1>6 DEF ArmsOf
  <2>7. Exists(u, t)'
    BY <2>1 DEF Exists, Copies
  <2>8. F = 0 /\ F1 = 0
    BY <2>6, <2>7 DEF Fresh
  <2>9. /\ O \in Nat /\ A \in Nat /\ P \in Nat /\ L \in Nat /\ IsFiniteSet(ArmsOf(u, t))
        /\ O1 \in Nat /\ A1 \in Nat /\ P1 \in Nat /\ L1 \in Nat
    BY ChancesFinite, ChancesFiniteNext
  <2>10. A1 = A - 1
    BY <2>6, <2>9, FS_RemoveElement
  <2>11. Chances(u, t, paid) = O + A + F + P + L /\ Chances(u, t, paid)' = O1 + A1 + F1 + P1 + L1
    BY ChancesSum
  <2> HIDE DEF O, A, P, L, F, O1, A1, P1, L1, F1
  <2>12. Chances(u, t, paid)' <= Chances(u, t, paid)
    BY <2>5, <2>8, <2>9, <2>10, <2>11
  <2>13. faults <= faults'
    BY <1>1 DEF RowsInv, TypeInv, HistoryInv
  <2> QED BY <1>1, <2>12, <2>13, SettlesDown
<1> QED BY <1>5, <1>6

\* The connection cancels the nudges of the user and arms the chain C.
LEMMA ConnectSettles ==
    ASSUME RowsInv, RowsInv', NEW paid \in SUBSET Sweeps, NEW u \in Audience, NEW t \in Steps,
           NEW v \in Audience, Connect(v), OneUnpaid(paid)
    PROVE  Settles(u, t, paid)
<1> DEFINE new == IF sub[v] = "trial" THEN {FreeId(v, x) : x \in Missing(v, "C")} ELSE {}
<1>1. /\ sweep' = sweep /\ arming' = arming /\ received' = received /\ faults' = faults
      /\ users' = users /\ v \in users
      /\ row' = [i \in Ids |-> IF i \in Silenced(v) THEN [row[i] EXCEPT !.status = "cancelled"]
                               ELSE IF i \in new
                                    THEN [status |-> "pending", wait |-> Delay[Step(i)], age |-> 0]
                                    ELSE row[i]]
  BY DEF Connect
<1>2. /\ Copies(u, t) \subseteq Ids
      /\ \A i \in new : i \in Copies(u, t) =>
            v = u /\ t \in Missing(v, "C") /\ sub[v] = "trial" /\ i = FreeId(u, t)
  BY IdParts DEF Missing
<1>3. \A i \in Ids : row[i] \in RowType
  BY DEF RowsInv, TypeInv, QueueInv
<1>4. CASE Copies(u, t) \cap new = {}
  <2>1. \A i \in Copies(u, t) :
           row'[i] = IF i \in Silenced(v) THEN [row[i] EXCEPT !.status = "cancelled"] ELSE row[i]
    BY <1>1, <1>2, <1>4
  <2> HIDE DEF new
  <2>2. \A i \in Copies(u, t) : row[i] \in RowType
    BY <1>2, <1>3
  <2>3. \A i \in Copies(u, t) : row'[i].status = "pending" => row[i].status = "pending"
    BY <2>1, <2>2 DEF RowType
  <2>4. u \in users' => u \in users /\ \A i \in Copies(u, t) :
                            row[i].status # "absent" => row'[i].status # "absent"
    <3>1. \A i \in Copies(u, t) : row[i].status # "absent" => row'[i].status # "absent"
      BY <2>1, <2>2 DEF RowType
    <3> QED BY <1>1, <3>1
  <2>5. sweep' = sweep /\ arming' = arming /\ received' = received /\ faults' = faults
    BY <1>1
  <2> QED BY <2>3, <2>4, <2>5, WorldSettles
<1>5. CASE Copies(u, t) \cap new # {}
  <2> DEFINE O == Cardinality(UnsentCopies(u, t))
             A == Cardinality(ArmsOf(u, t))
             P == Cardinality(Paid(u, t, paid))
             L == Cardinality(Late(u, t, paid))
             F == Fresh(u, t)
             O1 == Cardinality(UnsentCopies(u, t)')
             A1 == Cardinality(ArmsOf(u, t)')
             P1 == Cardinality(Paid(u, t, paid)')
             L1 == Cardinality(Late(u, t, paid)')
             F1 == Fresh(u, t)'
             x == FreeId(u, t)
  <2>1. v = u /\ t \in Missing(v, "C") /\ sub[v] = "trial" /\ x \in new /\ x \in Copies(u, t)
    BY <1>2, <1>5
  <2>2. Chain[t] = "C" /\ ~Exists(u, t)
    BY <2>1 DEF Missing
  <2>3. \A i \in Copies(u, t) : row[i].status = "absent"
    BY <2>2 DEF Exists, Copies
  <2>4. \A i \in Copies(u, t) : i \notin Silenced(v)
    BY <2>3 DEF Silenced, Pending
  <2>5. row'[x].status = "pending" /\ \A i \in Copies(u, t) \ {x} : row'[i] = row[i]
    BY <1>1, <1>2, <2>1, <2>4
  <2> HIDE DEF new, x
  <2>6. UnsentCopies(u, t)' \subseteq UnsentCopies(u, t) \cup {x}
    BY <1>1, <2>5, SweepsSame DEF UnsentCopies, Unsent, Copies
  <2>7. UnsentCopies(u, t) \subseteq UnsentCopies(u, t)'
    BY <2>3 DEF UnsentCopies, Unsent
  <2>8. \A s \in Sweeps : Able(s, u, t)' =>
            Able(s, u, t) /\ ToSet(sweep'[s].list) \subseteq ToSet(sweep[s].list)
    BY <1>1, SweepsSame
  <2>9. O1 <= O + 1 /\ P1 <= P /\ L1 <= L
    BY <2>6, <2>7, <2>8, Opening
  <2>10. ArmsOf(u, t) = {} /\ ArmsOf(u, t)' = {}
    BY <1>1, <2>2 DEF ArmsOf, RowsInv, TypeInv, ArmingInv, ArmsInv
  <2>11. Exists(u, t)'
    BY <2>1, <2>5 DEF Exists, Copies
  <2>12. F = 1 /\ F1 = 0
    BY <1>1, <2>1, <2>2, <2>10, <2>11 DEF Fresh
  <2>13. /\ O \in Nat /\ A \in Nat /\ P \in Nat /\ L \in Nat
         /\ O1 \in Nat /\ P1 \in Nat /\ L1 \in Nat /\ A1 = A
    BY <2>10, ChancesFinite, ChancesFiniteNext
  <2>14. Chances(u, t, paid) = O + A + F + P + L /\ Chances(u, t, paid)' = O1 + A1 + F1 + P1 + L1
    BY ChancesSum
  <2> HIDE DEF O, A, P, L, F, O1, A1, P1, L1, F1
  <2>15. Chances(u, t, paid)' <= Chances(u, t, paid)
    BY <2>9, <2>12, <2>13, <2>14
  <2>16. faults <= faults'
    BY <1>1 DEF RowsInv, TypeInv, HistoryInv
  <2> QED BY <1>1, <2>15, <2>16, SettlesDown
<1> QED BY <1>4, <1>5

\* A sweep goes on, and marks nothing as sent.
LEMMA SweepSettles ==
    ASSUME RowsInv, RowsInv', NEW paid \in SUBSET Sweeps, NEW u \in Audience, NEW t \in Steps,
           OneUnpaid(paid), arming' = arming, users' = users,
           \A i \in Ids : row'[i].status = row[i].status,
           \A o \in Sweeps : /\ Wrote(o, "sent")' = Wrote(o, "sent")
                             /\ sweep'[o].table = sweep[o].table /\ (Active(o)' => Active(o))
                             /\ ToSet(sweep'[o].list) \subseteq ToSet(sweep[o].list)
    PROVE  Chances(u, t, paid)' <= Chances(u, t, paid)
<1>1. \A s \in Sweeps : Able(s, u, t)' =>
          Able(s, u, t) /\ ToSet(sweep'[s].list) \subseteq ToSet(sweep[s].list)
  BY DEF Able, Told
<1>2. Copies(u, t) \subseteq Ids
  BY IdParts
<1>3. UnsentCopies(u, t)' \subseteq UnsentCopies(u, t)
  BY <1>2 DEF UnsentCopies, Unsent, Copies
<1>4. ArmsOf(u, t)' = ArmsOf(u, t)
  BY DEF ArmsOf
<1>5. Exists(u, t)' <=> Exists(u, t)
  BY <1>2 DEF Exists, Copies
<1>6. Fresh(u, t)' <= Fresh(u, t)
  BY <1>4, <1>5 DEF Fresh
<1> QED BY <1>1, <1>3, <1>4, <1>6, Closing

LEMMA UnpaidKept ==
    ASSUME NEW paid \in SUBSET Sweeps, OneUnpaid(paid),
           \A o \in Sweeps : Active(o)' => Active(o) /\ sweep'[o].table = sweep[o].table,
           SweepInv'
    PROVE  OneUnpaid(paid)'
<1> SUFFICES ASSUME NEW s \in Sweeps \ paid, NEW o \in Sweeps \ paid, Active(s)',
                    sweep'[s].table = sweep'[o].table
             PROVE  s = o
  BY DEF OneUnpaid
<1>1. Active(o)'
  BY DEF SweepInv, SweepOK, Active, Idle
<1> QED BY <1>1 DEF OneUnpaid

LEMMA AdvanceWrote ==
    ASSUME RowsInv, NEW s \in Sweeps, sweep[s].list # <<>>, NEW ids, NEW status,
           Advance(s, ids, status)
    PROVE  /\ sweep'[s].table = sweep[s].table /\ Active(s)
           /\ sweep'[s].wrote = Writes(s, ids, status)
           /\ \A o \in Sweeps \ {s} : sweep'[o] = sweep[o]
           /\ status # "sent" => Wrote(s, "sent")' = Wrote(s, "sent") \ ids
           /\ status = "sent" => Wrote(s, "sent")' = Wrote(s, "sent") \cup ids
<1>1. sweep[s] \in SweepType /\ DOMAIN sweep = Sweeps
  BY DEF RowsInv, TypeInv, SweepTypes
<1>2. /\ sweep'[s].table = sweep[s].table /\ sweep'[s].wrote = Writes(s, ids, status)
      /\ \A o \in Sweeps \ {s} : sweep'[o] = sweep[o]
  BY <1>1 DEF Advance, SweepType
<1>3. Active(s)
  BY DEF Active, Idle
<1>4. Wrote(s, "sent")' = {i \in DOMAIN Writes(s, ids, status) : Writes(s, ids, status)[i] = "sent"}
  BY <1>2 DEF Wrote
<1> QED BY <1>2, <1>3, <1>4 DEF Wrote, Writes

\* The rows that a sweep leaves or cancels.
LEMMA SkipSettles ==
    ASSUME RowsInv, RowsInv', NEW paid \in SUBSET Sweeps, OneUnpaid(paid),
           NEW s \in Sweeps, Check(s) \/ Deliver(s), sweep[s].list # <<>>,
           \/ sweep' = [sweep EXCEPT ![s].sending = TRUE]
           \/ \E ids, status : /\ Advance(s, ids, status) /\ ids \cap Wrote(s, "sent") = {}
                               /\ status # "sent",
           UNCHANGED <<world, table, arming>>
    PROVE  /\ OneUnpaid(paid)'
           /\ \A u \in Audience, t \in Steps : Chances(u, t, paid)' <= Chances(u, t, paid)
<1>1. \A o \in Sweeps : /\ sweep'[o].table = sweep[o].table
                        /\ ToSet(sweep'[o].list) \subseteq ToSet(sweep[o].list)
  BY ListsShrink
<1>2. \A o \in Sweeps \ {s} : sweep'[o] = sweep[o]
  BY ListsShrink
<1>3. Wrote(s, "sent")' = Wrote(s, "sent")
  <2>1. CASE sweep' = [sweep EXCEPT ![s].sending = TRUE]
    <3>1. sweep[s] \in SweepType /\ DOMAIN sweep = Sweeps
      BY DEF RowsInv, TypeInv, SweepTypes
    <3>2. sweep'[s].wrote = sweep[s].wrote
      BY <2>1, <3>1 DEF SweepType
    <3> QED BY <3>2 DEF Wrote
  <2>2. CASE \E ids, status : /\ Advance(s, ids, status) /\ ids \cap Wrote(s, "sent") = {}
                              /\ status # "sent"
    <3>1. PICK ids, status : /\ Advance(s, ids, status) /\ ids \cap Wrote(s, "sent") = {}
                             /\ status # "sent"
      BY <2>2
    <3>2. Wrote(s, "sent")' = Wrote(s, "sent") \ ids
      BY <3>1, AdvanceWrote
    <3> QED BY <3>1, <3>2
  <2> QED BY <2>1, <2>2
<1>4. \A o \in Sweeps : Wrote(o, "sent")' = Wrote(o, "sent")
  BY <1>2, <1>3 DEF Wrote
<1>5. Active(s)
  BY DEF Active, Idle
<1>6. \A o \in Sweeps : Active(o)' => Active(o)
  BY <1>2, <1>5 DEF Active
<1>7. arming' = arming /\ users' = users /\ \A i \in Ids : row'[i].status = row[i].status
  BY DEF world, table
<1>8. OneUnpaid(paid)'
  BY <1>1, <1>6, UnpaidKept DEF RowsInv
<1> QED BY <1>1, <1>4, <1>6, <1>7, <1>8, SweepSettles

LEMMA TickSettles ==
    ASSUME RowsInv, RowsInv', NEW paid \in SUBSET Sweeps, OneUnpaid(paid), Tick
    PROVE  /\ OneUnpaid(paid)'
           /\ \A u \in Audience, t \in Steps : Chances(u, t, paid)' <= Chances(u, t, paid)
<1>1. SweepTypes /\ SweepInv
  BY DEF RowsInv, TypeInv
<1>2. \A o \in Sweeps : /\ sweep'[o].table = sweep[o].table /\ sweep'[o].list = sweep[o].list
                        /\ sweep'[o].wrote = sweep[o].wrote
  BY <1>1, TickSweep
<1>3. \A o \in Sweeps : Wrote(o, "sent")' = Wrote(o, "sent")
  BY <1>2 DEF Wrote
<1>4. \A o \in Sweeps : Active(o)' => Active(o)
  BY DEF Tick, Active
<1>5. arming' = arming /\ users' = users
  BY DEF Tick, world
<1>6. \A i \in Ids : row'[i].status = row[i].status
  <2>1. \A i \in Ids : row[i] \in RowType
    BY DEF RowsInv, TypeInv, QueueInv
  <2> QED BY <2>1 DEF Tick, RowType
<1>7. OneUnpaid(paid)'
  BY <1>2, <1>4, UnpaidKept DEF RowsInv
<1> QED BY <1>2, <1>3, <1>4, <1>5, <1>6, <1>7, SweepSettles

\* The message that sweep s sends and marks.
LEMMA MarkSettles ==
    ASSUME RowsInv, RowsInv', NEW paid \in SUBSET Sweeps, OneUnpaid(paid),
           NEW s \in Sweeps, Deliver(s), Mark(s, Head(sweep[s].list)), sweep[s].list # <<>>,
           Got(Head(sweep[s].list)), faults' = faults
    PROVE  /\ OneUnpaid(paid)'
           /\ \A u \in Audience, t \in Steps : Settles(u, t, paid)
<1> DEFINE i == Head(sweep[s].list)
<1>1. arming' = arming /\ users' = users /\ row' = row
  BY DEF Deliver, world, table
<1>2. \A o \in Sweeps : /\ sweep'[o].table = sweep[o].table
                      /\ ToSet(sweep'[o].list) \subseteq ToSet(sweep[o].list)
  BY ListsShrink
<1>3. /\ Active(s) /\ \A o \in Sweeps \ {s} : sweep'[o] = sweep[o]
      /\ Wrote(s, "sent")' = Wrote(s, "sent") \cup {i}
  BY AdvanceWrote DEF Mark
<1>4. /\ i \in Ids /\ i \in ToSet(sweep[s].list) /\ OfTable(i) = sweep[s].table
      /\ \A j \in DOMAIN sweep[s].wrote : sweep[s].wrote[j] = "sent" => User(j) # User(i)
  <2>1. sweep[s].list \in Seq(Ids) /\ IsInjective(sweep[s].list) /\ SweepOK(sweep[s])
        /\ sweep[s].sending
    BY SweepFields DEF RowsInv, TypeInv, SweepInv, SweepOK, Deliver
  <2>2. i \in Ids /\ i \in ToSet(sweep[s].list)
    BY <2>1, TailFacts
  <2> QED BY <2>1, <2>2 DEF SweepOK
<1>5. \A o \in Sweeps : Active(o)' => Active(o)
  BY <1>3 DEF Active
<1>6. \A o \in Sweeps : Wrote(o, "sent") \subseteq Wrote(o, "sent")'
  <2>1. \A o \in Sweeps \ {s} : Wrote(o, "sent")' = Wrote(o, "sent")
    BY <1>3 DEF Wrote
  <2> QED BY <1>3, <2>1
<1>7. OneUnpaid(paid)'
  BY <1>2, <1>5, UnpaidKept DEF RowsInv
<1>8. ASSUME NEW u \in Audience, NEW t \in Steps
      PROVE  /\ \A o \in Sweeps : Able(o, u, t)' =>
                  Able(o, u, t) /\ ToSet(sweep'[o].list) \subseteq ToSet(sweep[o].list)
             /\ UnsentCopies(u, t)' \subseteq UnsentCopies(u, t)
             /\ ArmsOf(u, t)' = ArmsOf(u, t) /\ Fresh(u, t)' = Fresh(u, t)
  <2>1. \A o \in Sweeps : Told(o, u) => Told(o, u)'
    BY <1>6 DEF Told
  <2>2. \A o \in Sweeps : Able(o, u, t)' => Able(o, u, t)
    BY <1>2, <1>5, <2>1 DEF Able
  <2>3. UnsentCopies(u, t)' \subseteq UnsentCopies(u, t)
    BY <1>1, <1>6 DEF UnsentCopies, Unsent, Copies
  <2>4. ArmsOf(u, t)' = ArmsOf(u, t) /\ (Exists(u, t)' <=> Exists(u, t))
    BY <1>1 DEF ArmsOf, Exists
  <2>5. Fresh(u, t)' = Fresh(u, t)
    BY <1>1, <2>4 DEF Fresh
  <2> QED BY <1>2, <2>2, <2>3, <2>4, <2>5
<1>9. ASSUME NEW u \in Audience, NEW t \in Steps, ~(u = User(i) /\ t = Step(i))
      PROVE  Settles(u, t, paid)
  <2>1. Fresh(u, t)' <= Fresh(u, t)
    <3>1. Fresh(u, t)' = Fresh(u, t)
      BY <1>8
    <3> QED BY <3>1 DEF Fresh
  <2>2. Chances(u, t, paid)' <= Chances(u, t, paid)
    BY <1>8, <2>1, Closing
  <2>3. received'[u][t] = received[u][t]
    BY <1>9 DEF Got, RowsInv, TypeInv, HistoryInv
  <2>4. faults <= faults'
    BY DEF RowsInv, TypeInv, HistoryInv
  <2> QED BY <2>2, <2>3, <2>4, SettlesDown
<1>10. ASSUME NEW u \in Audience, NEW t \in Steps, u = User(i), t = Step(i)
       PROVE  Settles(u, t, paid)
  <2> DEFINE O == Cardinality(UnsentCopies(u, t))
             A == Cardinality(ArmsOf(u, t))
             P == Cardinality(Paid(u, t, paid))
             L == Cardinality(Late(u, t, paid))
             F == Fresh(u, t)
             O1 == Cardinality(UnsentCopies(u, t)')
             A1 == Cardinality(ArmsOf(u, t)')
             P1 == Cardinality(Paid(u, t, paid)')
             L1 == Cardinality(Late(u, t, paid)')
             F1 == Fresh(u, t)'
  <2>1. Able(s, u, t) /\ ~Able(s, u, t)'
    <3>1. ~Told(s, u)
      BY <1>4, <1>10 DEF Told, Wrote
    <3>2. i \in Wrote(s, "sent")'
      BY <1>3
    <3>3. Told(s, u)'
      BY <1>10, <3>2 DEF Told
    <3> QED BY <1>3, <1>4, <1>10, <3>1, <3>3 DEF Able, OfTable
  <2>2. i \in Copies(u, t) /\ i \notin UnsentCopies(u, t)'
    <3>1. i \in Copies(u, t)
      BY <1>4, <1>10, IdParts
    <3>2. i \in Wrote(s, "sent")'
      BY <1>3
    <3> QED BY <3>1, <3>2 DEF UnsentCopies, Unsent
  <2>3. /\ O \in Nat /\ A \in Nat /\ P \in Nat /\ L \in Nat /\ F \in {0, 1}
        /\ IsFiniteSet(UnsentCopies(u, t)) /\ IsFiniteSet(Paid(u, t, paid))
        /\ IsFiniteSet(Late(u, t, paid))
    BY ChancesFinite
  <2>4. O1 \in Nat /\ A1 \in Nat /\ P1 \in Nat /\ L1 \in Nat
    BY ChancesFiniteNext
  <2>5. O1 <= O /\ O1 + L1 <= O + L /\ A1 <= A /\ P1 <= P
    BY <1>8, ClosingParts
  <2>6. F1 = F
    BY <1>8
  <2>7. /\ O \in Int /\ A \in Int /\ P \in Int /\ L \in Int /\ F \in Int
        /\ O1 \in Int /\ A1 \in Int /\ P1 \in Int /\ L1 \in Int /\ F1 \in Int
    BY <2>3, <2>4, <2>6
  <2>8. ASSUME s \in paid PROVE (O1 + L1) + P1 + 1 <= (O + L) + P
    <3>1. s \in Paid(u, t, paid) /\ s \notin Paid(u, t, paid)'
      BY <2>1, <2>8 DEF Paid
    <3>2. Paid(u, t, paid)' \subseteq Paid(u, t, paid)
      BY <1>8 DEF Paid
    <3>3. P1 # P
      BY <2>3, <3>1, <3>2, FS_Subset
    <3> HIDE DEF O, A, P, L, F, O1, A1, P1, L1, F1
    <3>4. P1 + 1 <= P
      BY <2>3, <2>4, <2>5, <3>3
    <3> QED BY <2>5, <2>7, <3>4
  <2>9. ASSUME s \notin paid PROVE (O1 + L1) + P1 + 1 <= (O + L) + P
    <3>1. Late(u, t, paid)' = {}
      <4> SUFFICES ASSUME NEW o \in Late(u, t, paid)' PROVE FALSE
        OBVIOUS
      <4>1. o \in Sweeps \ paid /\ Able(o, u, t)'
        BY DEF Late
      <4>2. o = s
        BY <1>8, <2>1, <2>9, <4>1, OneLate
      <4> QED BY <2>1, <4>1, <4>2
    <3>2. L1 = 0
      BY <3>1, FS_EmptySet
    <3>3. CASE Unsent(i)
      <4>1. i \in UnsentCopies(u, t)
        BY <2>2, <3>3 DEF UnsentCopies
      <4>2. O1 # O
        BY <1>8, <2>2, <2>3, <4>1, FS_Subset
      <4> HIDE DEF O, A, P, L, F, O1, A1, P1, L1, F1
      <4>3. O1 + 1 <= O
        BY <2>3, <2>4, <2>5, <4>2
      <4>4. O1 + L1 + 1 <= O + L
        BY <2>3, <2>4, <3>2, <4>3
      <4> QED BY <2>5, <2>7, <4>4
    <3>4. CASE ~Unsent(i)
      <4>1. s \in Late(u, t, paid)
        BY <1>4, <2>1, <2>2, <2>9, <3>4 DEF Late
      <4>2. L # 0
        BY <2>3, <4>1, FS_EmptySet
      <4> HIDE DEF O, A, P, L, F, O1, A1, P1, L1, F1
      <4>3. L >= 1
        BY <2>3, <4>2
      <4>4. O1 + L1 + 1 <= O + L
        BY <2>3, <2>4, <2>5, <3>2, <4>3
      <4> QED BY <2>5, <2>7, <4>4
    <3> QED BY <3>3, <3>4
  <2>10. Chances(u, t, paid)' + 1 <= Chances(u, t, paid)
    <3>1. O1 + A1 + F1 + P1 + L1 + 1 <= O + A + F + P + L
      <4>1. (O1 + L1) + P1 + 1 <= (O + L) + P
        BY <2>8, <2>9
      <4> HIDE DEF O, A, P, L, F, O1, A1, P1, L1, F1
      <4>2. A1 + F1 <= A + F
        BY <2>5, <2>6, <2>7
      <4> QED BY <2>7, <4>1, <4>2, SMTT(60)
    <3> QED BY <3>1, ChancesSum
  <2>11. received'[u][t] = received[u][t] + 1
    BY <1>10 DEF Got, RowsInv, TypeInv, HistoryInv
  <2>12. faults <= faults'
    BY DEF RowsInv, TypeInv, HistoryInv
  <2> HIDE DEF O, A, P, L, F, O1, A1, P1, L1, F1
  <2> QED BY <2>10, <2>11, <2>12, CountTypes, Account DEF Settles
<1> QED BY <1>7, <1>9, <1>10

\* The copies, the transactions and the state of the row stay; a sweep s changes.
LEMMA StillFresh ==
    ASSUME arming' = arming, users' = users,
           \A i \in Ids : row'[i].status # "absent" <=> row[i].status # "absent",
           NEW u \in Audience, NEW t \in Steps
    PROVE  /\ ArmsOf(u, t)' = ArmsOf(u, t)
           /\ Fresh(u, t)' = Fresh(u, t) /\ Fresh(u, t)' <= Fresh(u, t)
<1>1. Copies(u, t) \subseteq Ids
  BY IdParts
<1>2. ArmsOf(u, t)' = ArmsOf(u, t) /\ (Exists(u, t)' <=> Exists(u, t))
  BY <1>1 DEF ArmsOf, Exists, Copies
<1>3. Fresh(u, t)' = Fresh(u, t)
  BY <1>2 DEF Fresh
<1> QED BY <1>2, <1>3 DEF Fresh

LEMMA StopFacts ==
    ASSUME RowsInv, NEW s \in Sweeps, sweep' = [sweep EXCEPT ![s] = Idle]
    PROVE  /\ \A o \in Sweeps \ {s} : sweep'[o] = sweep[o] /\ Wrote(o, "sent")' = Wrote(o, "sent")
           /\ ~Active(s)' /\ Wrote(s, "sent")' = {}
           /\ \A o \in Sweeps : Active(o)' => Active(o) /\ sweep'[o].table = sweep[o].table
           /\ \A o \in Sweeps : \A u, t : Able(o, u, t)' =>
                  Able(o, u, t) /\ ToSet(sweep'[o].list) \subseteq ToSet(sweep[o].list)
<1>1. DOMAIN sweep = Sweeps
  BY DEF RowsInv, TypeInv, SweepTypes
<1>2. /\ sweep'[s] = Idle /\ \A o \in Sweeps \ {s} : sweep'[o] = sweep[o]
  BY <1>1
<1>3. \A o \in Sweeps \ {s} : Wrote(o, "sent")' = Wrote(o, "sent")
  BY <1>2 DEF Wrote
<1>4. DOMAIN Idle.wrote = {}
  BY DEF Idle
<1>5. Wrote(s, "sent")' = {}
  BY <1>2, <1>4 DEF Wrote
<1>6. ~Active(s)' /\ \A o \in Sweeps : Active(o)' => Active(o) /\ sweep'[o] = sweep[o]
  BY <1>2 DEF Active
<1>7. \A o \in Sweeps : \A u, t : Able(o, u, t)' => Able(o, u, t) /\ sweep'[o] = sweep[o]
  BY <1>6 DEF Able, Told, Wrote
<1> QED BY <1>2, <1>3, <1>5, <1>6, <1>7

LEMMA FinishSettles ==
    ASSUME RowsInv, RowsInv', NEW paid \in SUBSET Sweeps, OneUnpaid(paid),
           NEW s \in Sweeps, FinishSweep(s)
    PROVE  /\ OneUnpaid(paid)'
           /\ \A u \in Audience, t \in Steps : Chances(u, t, paid)' <= Chances(u, t, paid)
<1>1. /\ arming' = arming /\ users' = users /\ sweep' = [sweep EXCEPT ![s] = Idle]
      /\ \A i \in Ids : row[i] \in RowType
  BY DEF FinishSweep, world, RowsInv, TypeInv, QueueInv
<1>2. \A i \in DOMAIN sweep[s].wrote : sweep[s].wrote[i] \in {"sent", "cancelled"}
  BY SweepFields DEF RowsInv, TypeInv
<1>3. ASSUME NEW i \in Ids
      PROVE  /\ row'[i].status # "absent" <=> row[i].status # "absent"
             /\ row'[i].status = "pending" =>
                    row[i].status = "pending" /\ i \notin DOMAIN sweep[s].wrote
  <2>1. CASE i \in Locked(s)
    <3>1. row'[i].status = sweep[s].wrote[i]
      BY <1>1, <2>1 DEF FinishSweep, Commit, RowType
    <3> QED BY <1>2, <2>1, <3>1 DEF Locked
  <2>2. CASE i \notin Locked(s)
    <3>1. row'[i] = row[i]
      BY <2>2 DEF FinishSweep, Commit
    <3> QED BY <2>2, <3>1 DEF Locked
  <2> QED BY <2>1, <2>2
<1>4. OneUnpaid(paid)'
  BY <1>1, StopFacts, UnpaidKept DEF RowsInv
<1>5. ASSUME NEW u \in Audience, NEW t \in Steps
      PROVE  Chances(u, t, paid)' <= Chances(u, t, paid)
  <2>1. UnsentCopies(u, t)' \subseteq UnsentCopies(u, t)
    <3> SUFFICES ASSUME NEW i \in UnsentCopies(u, t)' PROVE i \in UnsentCopies(u, t)
      OBVIOUS
    <3>1. i \in Copies(u, t) /\ i \in Ids /\ row'[i].status = "pending"
      BY IdParts DEF UnsentCopies, Unsent, Copies
    <3>2. row[i].status = "pending" /\ i \notin Wrote(s, "sent")
      BY <1>3, <3>1 DEF Wrote
    <3>3. \A o \in Sweeps \ {s} : i \notin Wrote(o, "sent")
      BY <1>1, StopFacts DEF UnsentCopies, Unsent
    <3> QED BY <3>1, <3>2, <3>3 DEF UnsentCopies, Unsent
  <2>2. ArmsOf(u, t)' = ArmsOf(u, t) /\ Fresh(u, t)' <= Fresh(u, t)
    BY <1>1, <1>3, StillFresh
  <2>3. \A o \in Sweeps : Able(o, u, t)' =>
            Able(o, u, t) /\ ToSet(sweep'[o].list) \subseteq ToSet(sweep[o].list)
    BY <1>1, StopFacts
  <2> QED BY <2>1, <2>2, <2>3, Closing
<1> QED BY <1>4, <1>5

\* What a sweep sent and did not commit may be sent again: one message to a user.
LEMMA CrashSettles ==
    ASSUME RowsInv, RowsInv', NEW paid \in SUBSET Sweeps, OneUnpaid(paid),
           NEW s \in Sweeps, Crash(s)
    PROVE  /\ OneUnpaid(paid)'
           /\ \A u \in Audience, t \in Steps : Settles(u, t, paid)
<1>1. /\ arming' = arming /\ users' = users /\ sweep' = [sweep EXCEPT ![s] = Idle]
      /\ row' = row /\ received' = received /\ faults' = faults + 1
  BY FaultType DEF Crash, world, table, RowsInv, TypeInv
<1>2. OneUnpaid(paid)'
  BY <1>1, StopFacts, UnpaidKept DEF RowsInv
<1>3. ASSUME NEW u \in Audience, NEW t \in Steps
      PROVE  Settles(u, t, paid)
  <2> DEFINE O == Cardinality(UnsentCopies(u, t))
             A == Cardinality(ArmsOf(u, t))
             P == Cardinality(Paid(u, t, paid))
             L == Cardinality(Late(u, t, paid))
             F == Fresh(u, t)
             O1 == Cardinality(UnsentCopies(u, t)')
             A1 == Cardinality(ArmsOf(u, t)')
             P1 == Cardinality(Paid(u, t, paid)')
             L1 == Cardinality(Late(u, t, paid)')
             F1 == Fresh(u, t)'
  <2>1. PICK x : \A i \in Wrote(s, "sent") : User(i) = u => i = x
    <3>1. \A i, j \in Wrote(s, "sent") : User(i) = User(j) => i = j
      BY DEF RowsInv, SweepInv, SweepOK, Wrote
    <3> QED BY <3>1
  <2>2. \A i \in Copies(u, t) : User(i) = u
    BY IdParts
  <2>3. UnsentCopies(u, t)' \subseteq UnsentCopies(u, t) \cup {x}
    <3> SUFFICES ASSUME NEW i \in UnsentCopies(u, t)', i # x PROVE i \in UnsentCopies(u, t)
      OBVIOUS
    <3>1. i \in Copies(u, t) /\ row[i].status = "pending"
      BY <1>1 DEF UnsentCopies, Unsent, Copies
    <3>2. \A o \in Sweeps \ {s} : i \notin Wrote(o, "sent")
      BY <1>1, StopFacts DEF UnsentCopies, Unsent
    <3>3. i \notin Wrote(s, "sent")
      BY <2>1, <2>2, <3>1
    <3> QED BY <3>1, <3>2, <3>3 DEF UnsentCopies, Unsent
  <2>4. UnsentCopies(u, t) \subseteq UnsentCopies(u, t)'
    <3> SUFFICES ASSUME NEW i \in UnsentCopies(u, t) PROVE i \in UnsentCopies(u, t)'
      OBVIOUS
    <3>1. i \in Copies(u, t) /\ row'[i].status = "pending"
      BY <1>1 DEF UnsentCopies, Unsent
    <3>2. \A o \in Sweeps : i \notin Wrote(o, "sent")'
      BY <1>1, StopFacts DEF UnsentCopies, Unsent
    <3> QED BY <3>1, <3>2 DEF UnsentCopies, Unsent, Copies
  <2>5. \A o \in Sweeps : Able(o, u, t)' =>
            Able(o, u, t) /\ ToSet(sweep'[o].list) \subseteq ToSet(sweep[o].list)
    BY <1>1, StopFacts
  <2>6. O1 <= O + 1 /\ P1 <= P /\ L1 <= L
    BY <2>3, <2>4, <2>5, Opening
  <2>7. ArmsOf(u, t)' = ArmsOf(u, t) /\ Fresh(u, t)' = Fresh(u, t)
    BY <1>1, StillFresh
  <2>8. /\ O \in Nat /\ A \in Nat /\ P \in Nat /\ L \in Nat /\ F \in {0, 1}
        /\ O1 \in Nat /\ A1 = A /\ P1 \in Nat /\ L1 \in Nat /\ F1 = F
    BY <2>7, ChancesFinite, ChancesFiniteNext
  <2>9. Chances(u, t, paid) = O + A + F + P + L /\ Chances(u, t, paid)' = O1 + A1 + F1 + P1 + L1
    BY ChancesSum
  <2>10. received'[u][t] = received[u][t]
    BY <1>1
  <2> HIDE DEF O, A, P, L, F, O1, A1, P1, L1, F1
  <2>11. Chances(u, t, paid)' <= Chances(u, t, paid) + 1
    BY <2>6, <2>8, <2>9
  <2> QED BY <1>1, <2>10, <2>11, CountTypes, Account DEF Settles
<1> QED BY <1>2, <1>3

LEMMA StartFacts ==
    ASSUME RowsInv, NEW s \in Sweeps, NEW x \in Tables, StartSweep(s, x)
    PROVE  /\ arming' = arming /\ users' = users /\ row' = row /\ received' = received
           /\ ~Active(s) /\ sweep[s] = Idle /\ sweep'[s].table = x
           /\ ToSet(sweep'[s].list) \subseteq {i \in Ids : OfTable(i) = x /\ row[i].status = "pending"}
           /\ \A o \in Sweeps : Wrote(o, "sent")' = Wrote(o, "sent")
           /\ \A o \in Sweeps \ {s} : sweep'[o] = sweep[o]
<1>1. /\ arming' = arming /\ users' = users /\ row' = row /\ received' = received
      /\ ~Active(s) /\ sweep[s] = Idle
  BY DEF StartSweep, world, table, Active
<1>2. /\ \A o \in Sweeps \ {s} : sweep'[o] = sweep[o]
      /\ sweep'[s].table = x /\ sweep'[s].list = Listed(x) /\ sweep'[s].wrote = <<>>
  BY StartStep DEF RowsInv, TypeInv
<1>3. ToSet(sweep'[s].list) \subseteq {i \in Ids : OfTable(i) = x /\ row[i].status = "pending"}
  BY <1>2, ListedFacts DEF RowsInv, TypeInv
<1>4. Wrote(s, "sent")' = {} /\ Wrote(s, "sent") = {}
  BY <1>1, <1>2 DEF Wrote, Idle
<1>5. \A o \in Sweeps : Wrote(o, "sent")' = Wrote(o, "sent")
  BY <1>2, <1>4 DEF Wrote
<1> QED BY <1>1, <1>2, <1>3, <1>5

\* Nothing but the sweeps changes the chances of a user: so many more to pay for.
LEMMA PaidMore ==
    ASSUME RowsInv, RowsInv', NEW paid \in SUBSET Sweeps, NEW next \in SUBSET Sweeps,
           NEW u \in Audience, NEW t \in Steps,
           UnsentCopies(u, t)' = UnsentCopies(u, t), ArmsOf(u, t)' = ArmsOf(u, t),
           Fresh(u, t)' = Fresh(u, t), received'[u][t] = received[u][t],
           Late(u, t, next)' \subseteq Late(u, t, paid),
           NEW s, \/ /\ Paid(u, t, next)' \subseteq Paid(u, t, paid)
                     /\ faults' = faults
                  \/ /\ Paid(u, t, next)' \subseteq Paid(u, t, paid) \cup {s}
                     /\ faults' = faults + 1,
           received[u][t] + Chances(u, t, paid) <= 1 + faults
    PROVE  received'[u][t] + Chances(u, t, next)' <= 1 + faults'
<1> DEFINE O == Cardinality(UnsentCopies(u, t))
           A == Cardinality(ArmsOf(u, t))
           P == Cardinality(Paid(u, t, paid))
           L == Cardinality(Late(u, t, paid))
           F == Fresh(u, t)
           P1 == Cardinality(Paid(u, t, next)')
           L1 == Cardinality(Late(u, t, next)')
           r == received[u][t]
<1>1. /\ O \in Nat /\ A \in Nat /\ P \in Nat /\ L \in Nat /\ F \in Nat
      /\ IsFiniteSet(Paid(u, t, paid)) /\ IsFiniteSet(Late(u, t, paid))
  BY ChancesFinite
<1>2. P1 \in Nat /\ L1 \in Nat
  BY ChancesFiniteNext
<1>3. L1 <= L
  BY <1>1, FS_Subset
<1>4. Cardinality(Paid(u, t, paid) \cup {s}) = IF s \in Paid(u, t, paid) THEN P ELSE P + 1
  BY <1>1, FS_AddElement
<1>5. \/ P1 <= P /\ faults' = faults
      \/ P1 <= P + 1 /\ faults' = faults + 1
  <2>1. CASE Paid(u, t, next)' \subseteq Paid(u, t, paid) /\ faults' = faults
    <3>1. P1 <= P
      BY <1>1, <2>1, FS_Subset
    <3> QED BY <2>1, <3>1
  <2>2. CASE Paid(u, t, next)' \subseteq Paid(u, t, paid) \cup {s} /\ faults' = faults + 1
    <3> DEFINE m == Cardinality(Paid(u, t, paid) \cup {s})
    <3>1. IsFiniteSet(Paid(u, t, paid) \cup {s})
      BY <1>1, FS_AddElement
    <3>2. P1 <= m /\ m \in Nat
      BY <2>2, <3>1, FS_Subset, FS_CardinalityType
    <3>3. m = P \/ m = P + 1
      BY <1>4
    <3> HIDE DEF P, P1, m
    <3>4. P1 <= P + 1
      BY <1>1, <1>2, <3>2, <3>3
    <3> QED BY <2>2, <3>4
  <2> QED BY <2>1, <2>2
<1>6. /\ Chances(u, t, paid) = O + A + F + P + L
      /\ Chances(u, t, next)' = O + A + F + P1 + L1
  BY ChancesSum
<1>7. r \in Nat /\ faults \in Nat /\ r + (O + A + F + P + L) <= 1 + faults
  BY <1>6, CountTypes
<1> HIDE DEF O, A, P, L, F, P1, L1, r
<1>8. r + (O + A + F + P1 + L1) <= 1 + faults'
  BY <1>1, <1>2, <1>3, <1>5, <1>7
<1> QED BY <1>6, <1>8 DEF r

\* A sweep that starts alone on its table need not be paid for: it finds every row it
\* lists unsent.  One that starts besides another is paid for by the fault.
LEMMA StartOnce ==
    ASSUME RowsInv, RowsInv', NEW paid \in SUBSET Sweeps, OnceFor(paid),
           NEW s \in Sweeps, NEW x \in Tables, StartSweep(s, x)
    PROVE  OnceInv'
<1>1. /\ arming' = arming /\ users' = users /\ row' = row /\ received' = received
      /\ ~Active(s) /\ sweep[s] = Idle /\ sweep'[s].table = x
      /\ ToSet(sweep'[s].list) \subseteq {i \in Ids : OfTable(i) = x /\ row[i].status = "pending"}
      /\ \A o \in Sweeps : Wrote(o, "sent")' = Wrote(o, "sent")
      /\ \A o \in Sweeps \ {s} : sweep'[o] = sweep[o]
  BY StartFacts
<1>2. \A i : Unsent(i)' <=> Unsent(i)
  BY <1>1 DEF Unsent
<1>3. \A u, t : UnsentCopies(u, t)' = UnsentCopies(u, t)
  BY <1>2 DEF UnsentCopies, Copies
<1>4. \A u \in Audience, t \in Steps : ArmsOf(u, t)' = ArmsOf(u, t) /\ Fresh(u, t)' = Fresh(u, t)
  BY <1>1, StillFresh
<1>5. \A o \in Sweeps \ {s} : \A u, t : Able(o, u, t)' <=> Able(o, u, t)
  BY <1>1 DEF Able, Active, Told
<1>6. \A o \in Sweeps \ {s} : (Active(o)' <=> Active(o)) /\ sweep'[o].table = sweep[o].table
  BY <1>1 DEF Active
<1>7. \A u \in Audience, t \in Steps : received[u][t] + Chances(u, t, paid) <= 1 + faults
  BY DEF OnceFor
<1>8. CASE (\A o \in Sweeps \ {s} : sweep[o].table # x) /\ faults' = faults
  <2> DEFINE next == paid \ {s}
  <2>1. OneUnpaid(next)'
    <3> SUFFICES ASSUME NEW o \in Sweeps \ next, NEW p \in Sweeps \ next, Active(o)',
                        sweep'[o].table = sweep'[p].table
                 PROVE  o = p
      BY DEF OneUnpaid
    <3>1. CASE o # s /\ p # s
      BY <1>6, <3>1 DEF OneUnpaid, OnceFor
    <3>2. CASE o = s \/ p = s
      BY <1>1, <1>6, <1>8, <3>2
    <3> QED BY <3>1, <3>2
  <2>2. \A i \in ToSet(sweep'[s].list) : Unsent(i)
    <3> SUFFICES ASSUME NEW i \in ToSet(sweep'[s].list), NEW o \in Sweeps
                 PROVE  i \notin Wrote(o, "sent") /\ row[i].status = "pending"
      BY DEF Unsent
    <3>1. OfTable(i) = x /\ row[i].status = "pending"
      BY <1>1
    <3>2. CASE o = s
      BY <1>1, <3>1, <3>2 DEF Wrote, Idle
    <3>3. CASE o # s
      <4>1. i \notin DOMAIN sweep[o].wrote
        BY <1>8, <3>1, <3>3 DEF RowsInv, SweepInv, SweepOK
      <4> QED BY <3>1, <4>1 DEF Wrote
    <3> QED BY <3>2, <3>3
  <2>3. ASSUME NEW u \in Audience, NEW t \in Steps
        PROVE  received'[u][t] + Chances(u, t, next)' <= 1 + faults'
    <3>1. Paid(u, t, next)' \subseteq Paid(u, t, paid)
      BY <1>5 DEF Paid
    <3>2. Late(u, t, next)' \subseteq Late(u, t, paid)
      <4> SUFFICES ASSUME NEW o \in Late(u, t, next)' PROVE o \in Late(u, t, paid)
        OBVIOUS
      <4>1. /\ o \in Sweeps \ next /\ Able(o, u, t)'
            /\ \E i \in Copies(u, t) \cap ToSet(sweep'[o].list) : ~Unsent(i)
        BY <1>2 DEF Late, Copies
      <4>2. o # s
        BY <2>2, <4>1
      <4> QED BY <1>1, <1>5, <4>1, <4>2 DEF Late
    <3>3. received'[u][t] = received[u][t]
      BY <1>1
    <3> HIDE DEF next
    <3>4. next \in SUBSET Sweeps
      BY DEF next
    <3> QED BY <1>3, <1>4, <1>7, <1>8, <3>1, <3>2, <3>3, <3>4, PaidMore
  <2>4. OnceFor(next)'
    BY <2>1, <2>3 DEF OnceFor
  <2> QED BY <2>4 DEF OnceInv
<1>9. CASE faults' = faults + 1
  <2> DEFINE next == paid \cup {s}
  <2>1. OneUnpaid(next)'
    <3> SUFFICES ASSUME NEW o \in Sweeps \ next, NEW p \in Sweeps \ next, Active(o)',
                        sweep'[o].table = sweep'[p].table
                 PROVE  o = p
      BY DEF OneUnpaid
    <3> QED BY <1>6 DEF OneUnpaid, OnceFor
  <2>2. ASSUME NEW u \in Audience, NEW t \in Steps
        PROVE  received'[u][t] + Chances(u, t, next)' <= 1 + faults'
    <3>1. Paid(u, t, next)' \subseteq Paid(u, t, paid) \cup {s}
      BY <1>5 DEF Paid
    <3>2. Late(u, t, next)' \subseteq Late(u, t, paid)
      <4> SUFFICES ASSUME NEW o \in Late(u, t, next)' PROVE o \in Late(u, t, paid)
        OBVIOUS
      <4>1. /\ o \in Sweeps \ next /\ Able(o, u, t)'
            /\ \E i \in Copies(u, t) \cap ToSet(sweep'[o].list) : ~Unsent(i)
        BY <1>2 DEF Late, Copies
      <4> QED BY <1>1, <1>5, <4>1 DEF Late
    <3>3. received'[u][t] = received[u][t]
      BY <1>1
    <3> HIDE DEF next
    <3>4. next \in SUBSET Sweeps
      BY DEF next
    <3> QED BY <1>3, <1>4, <1>7, <1>9, <3>1, <3>2, <3>3, <3>4, PaidMore
  <2>3. OnceFor(next)'
    BY <2>1, <2>2 DEF OnceFor
  <2> QED BY <2>3 DEF OnceInv
<1>10. \/ (\A o \in Sweeps \ {s} : sweep[o].table # x) /\ faults' = faults
       \/ faults' = faults + 1
  BY FaultType DEF StartSweep, RowsInv, TypeInv
<1> QED BY <1>8, <1>9, <1>10

LEMMA CheckSettles ==
    ASSUME RowsInv, RowsInv', NEW paid \in SUBSET Sweeps, OneUnpaid(paid),
           NEW s \in Sweeps, Check(s)
    PROVE  /\ OneUnpaid(paid)'
           /\ \A u \in Audience, t \in Steps : Settles(u, t, paid)
<1>1. sweep[s].list # <<>> /\ UNCHANGED <<world, table, arming, received, faults>>
  BY DEF Check
<1>2. {Head(sweep[s].list)} \cap Wrote(s, "sent") = {}
  <2>1. sweep[s].list \in Seq(Ids) /\ SweepOK(sweep[s]) /\ IsInjective(sweep[s].list)
    BY SweepFields DEF RowsInv, TypeInv, SweepInv, SweepOK
  <2>2. Head(sweep[s].list) \in ToSet(sweep[s].list)
    BY <1>1, <2>1, TailFacts
  <2> QED BY <2>1, <2>2 DEF SweepOK, Wrote
<1>3. \/ sweep' = [sweep EXCEPT ![s].sending = TRUE]
      \/ \E ids, status : /\ Advance(s, ids, status) /\ ids \cap Wrote(s, "sent") = {}
                          /\ status # "sent"
  <2>1. CASE sweep' = [sweep EXCEPT ![s].sending = TRUE]
    BY <2>1
  <2>2. CASE Advance(s, {Head(sweep[s].list)}, "cancelled")
    BY <1>2, <2>2
  <2>3. CASE Advance(s, {}, "pending")
    BY <2>3
  <2> QED BY <2>1, <2>2, <2>3 DEF Check
<1>4. /\ OneUnpaid(paid)'
      /\ \A u \in Audience, t \in Steps : Chances(u, t, paid)' <= Chances(u, t, paid)
  BY <1>1, <1>3, SkipSettles
<1>5. faults <= faults' /\ \A u \in Audience, t \in Steps : received'[u][t] = received[u][t]
  BY <1>1 DEF RowsInv, TypeInv, HistoryInv
<1> QED BY <1>4, <1>5, SettlesDown

LEMMA DeliverSettles ==
    ASSUME RowsInv, RowsInv', NEW paid \in SUBSET Sweeps, OneUnpaid(paid),
           NEW s \in Sweeps, Deliver(s)
    PROVE  /\ OneUnpaid(paid)'
           /\ \A u \in Audience, t \in Steps : Settles(u, t, paid)
<1> DEFINE i == Head(sweep[s].list)
<1>1. sweep[s].list # <<>> /\ UNCHANGED <<world, table, arming>>
  BY DEF Deliver, RowsInv, SweepInv, SweepOK
<1>2. CASE Got(i) /\ Mark(s, i) /\ faults' = faults
  BY <1>1, <1>2, MarkSettles
<1>3. ASSUME \E ids, status : /\ Advance(s, ids, status) /\ ids \cap Wrote(s, "sent") = {}
                              /\ status # "sent",
             \/ received' = received /\ faults' = faults
             \/ received' = received /\ faults' = faults + 1
             \/ Got(i) /\ faults' = faults + 1
      PROVE  /\ OneUnpaid(paid)'
             /\ \A u \in Audience, t \in Steps : Settles(u, t, paid)
  <2>1. /\ OneUnpaid(paid)'
        /\ \A u \in Audience, t \in Steps : Chances(u, t, paid)' <= Chances(u, t, paid)
    BY <1>1, <1>3, SkipSettles
  <2>2. ASSUME NEW u \in Audience, NEW t \in Steps
        PROVE  \/ received'[u][t] = received[u][t] /\ faults <= faults'
               \/ received'[u][t] <= received[u][t] + 1 /\ faults' = faults + 1
    <3>1. faults \in Nat /\ received \in [Audience -> [Steps -> Nat]] /\ received[u][t] \in Nat
      BY Numbers DEF RowsInv, TypeInv, HistoryInv
    <3>2. CASE received' = received
      BY <1>3, <3>1, <3>2
    <3>3. CASE Got(i) /\ faults' = faults + 1
      BY <3>1, <3>3 DEF Got
    <3> QED BY <1>3, <3>2, <3>3
  <2> QED BY <2>1, <2>2, SettlesDown
<1>4. CASE Advance(s, PendingSeen(s, User(i)), "cancelled") /\ UNCHANGED <<received, faults>>
  <2>1. PendingSeen(s, User(i)) \cap Wrote(s, "sent") = {}
    BY DEF PendingSeen, Wrote
  <2>2. \E ids, status : /\ Advance(s, ids, status) /\ ids \cap Wrote(s, "sent") = {}
                         /\ status # "sent"
    BY <1>4, <2>1
  <2> QED BY <1>3, <1>4, <2>2
<1>5. CASE /\ Advance(s, {}, "pending")
           /\ \/ Fault("error") /\ UNCHANGED received
              \/ Fault("unanswered") /\ Got(i)
              \/ UNCHANGED <<received, faults>>
  <2>1. \E ids, status : /\ Advance(s, ids, status) /\ ids \cap Wrote(s, "sent") = {}
                         /\ status # "sent"
    BY <1>5
  <2>2. \/ received' = received /\ faults' = faults
        \/ received' = received /\ faults' = faults + 1
        \/ Got(i) /\ faults' = faults + 1
    <3>1. \A kind : Fault(kind) => faults' = faults + 1
      BY DEF Fault
    <3> QED BY <1>5, <3>1
  <2> QED BY <1>3, <2>1, <2>2
<1>6. \/ Got(i) /\ Mark(s, i) /\ UNCHANGED faults
      \/ Advance(s, PendingSeen(s, User(i)), "cancelled") /\ UNCHANGED <<received, faults>>
      \/ Advance(s, {}, "pending") /\ UNCHANGED <<received, faults>>
      \/ Fault("error") /\ Advance(s, {}, "pending") /\ UNCHANGED received
      \/ Fault("unanswered") /\ Got(i) /\ Advance(s, {}, "pending")
  BY DEF Deliver
<1> QED BY <1>2, <1>4, <1>5, <1>6

LEMMA EventSettles ==
    ASSUME RowsInv, RowsInv', NEW paid \in SUBSET Sweeps, OneUnpaid(paid), Events,
           NEW u \in Audience, NEW t \in Steps
    PROVE  Settles(u, t, paid)
<1>1. /\ Copies(u, t) \subseteq Ids /\ (\A i \in Copies(u, t) : User(i) = u)
      /\ \A i \in Ids : row[i] \in RowType
  BY IdParts DEF RowsInv, TypeInv, QueueInv
<1>2. ASSUME NEW v \in Audience, OpenFunnel(v) \/ Expire(v) \/ ExpireAgain(v)
      PROVE  Settles(u, t, paid)
  <2>1. PICK c : BeginArm(v, c)
    BY <1>2 DEF OpenFunnel, Expire, ExpireAgain
  <2>2. /\ sweep' = sweep /\ row' = row /\ received' = received /\ users' = users
        /\ v \in users
    BY <1>2 DEF OpenFunnel, Expire, ExpireAgain, world, table
  <2> QED BY <2>1, <2>2, BeginSettles
<1>3. ASSUME NEW v \in Audience, Connect(v) PROVE Settles(u, t, paid)
  BY <1>3, ConnectSettles
<1>4. ASSUME \/ Switch
             \/ \E v \in Audience : FinishFunnel(v) \/ Buy(v) \/ Block(v) \/ Delete(v)
      PROVE  Settles(u, t, paid)
  <2>1. sweep' = sweep /\ arming' = arming /\ received' = received /\ faults' = faults
    BY <1>4 DEF Switch, FinishFunnel, Buy, Block, Delete
  <2>2. \/ users' = users /\ row' = row
        \/ users' = users /\ \E v \in Audience : Cancelled(Silenced(v))
        \/ \E v \in Audience : Delete(v)
    BY <1>4 DEF Switch, FinishFunnel, Buy, Block, world, table
  <2>3. CASE users' = users /\ row' = row
    <3>1. /\ \A i \in Copies(u, t) : row'[i].status = "pending" => row[i].status = "pending"
          /\ u \in users' => u \in users /\ \A i \in Copies(u, t) :
                                row[i].status # "absent" => row'[i].status # "absent"
      BY <2>3
    <3> QED BY <2>1, <3>1, WorldSettles
  <2>4. CASE users' = users /\ \E v \in Audience : Cancelled(Silenced(v))
    <3>1. PICK v \in Audience : Cancelled(Silenced(v))
      BY <2>4
    <3>2. \A i \in Copies(u, t) : row'[i] = IF i \in Silenced(v)
                                            THEN [row[i] EXCEPT !.status = "cancelled"] ELSE row[i]
      BY <1>1, <3>1 DEF Cancelled
    <3>3. \A i \in Copies(u, t) : row[i] \in RowType
      BY <1>1
    <3>4. \A i \in Copies(u, t) : row'[i].status = "pending" => row[i].status = "pending"
      BY <3>2, <3>3 DEF RowType
    <3>5. \A i \in Copies(u, t) : row[i].status # "absent" => row'[i].status # "absent"
      BY <3>2, <3>3 DEF RowType
    <3>6. u \in users' => u \in users /\ \A i \in Copies(u, t) :
                                row[i].status # "absent" => row'[i].status # "absent"
      BY <2>4, <3>5
    <3> QED BY <2>1, <3>4, <3>6, WorldSettles
  <2>5. ASSUME NEW v \in Audience, Delete(v) PROVE Settles(u, t, paid)
    <3>1. /\ users' = users \ {v}
          /\ \A i \in Copies(u, t) : row'[i] = IF u = v THEN Absent ELSE row[i]
      BY <1>1, <2>5 DEF Delete
    <3>2. \A i \in Copies(u, t) : row'[i].status = "pending" => row[i].status = "pending"
      BY <3>1 DEF Absent
    <3>3. u \in users' => u \in users /\ \A i \in Copies(u, t) :
                                row[i].status # "absent" => row'[i].status # "absent"
      BY <3>1
    <3> QED BY <2>1, <3>2, <3>3, WorldSettles
  <2> QED BY <2>2, <2>3, <2>4, <2>5
<1> QED BY <1>2, <1>3, <1>4 DEF Events

LEMMA OnceStep == ASSUME RowsInv, OnceInv, [NudgesNext]_nudgesVars PROVE OnceInv'
<1>1. RowsInv'
  BY RowsStep
<1>2. PICK paid \in SUBSET Sweeps : OnceFor(paid)
  BY DEF OnceInv
<1>3. OneUnpaid(paid)
  BY <1>2 DEF OnceFor
<1>4. CASE Events
  <2>1. sweep' = sweep
    BY <1>4 DEF Events, OpenFunnel, Expire, ExpireAgain, Connect, FinishFunnel, Buy, Block,
                Delete, Switch
  <2>2. OneUnpaid(paid)'
    BY <1>3, <2>1, SweepsSame
  <2>3. \A u \in Audience, t \in Steps : Settles(u, t, paid)
    BY <1>1, <1>3, <1>4, EventSettles
  <2> QED BY <1>1, <1>2, <2>2, <2>3, OnceKept
<1>5. CASE Arms
  <2>1. PICK a \in arming : Arm(a)
    BY <1>5 DEF Arms
  <2>2. OneUnpaid(paid)'
    BY <1>3, <2>1, SweepsSame DEF Arm
  <2>3. \A u \in Audience, t \in Steps : Settles(u, t, paid)
    BY <1>1, <1>3, <2>1, ArmSettles
  <2> QED BY <1>1, <1>2, <2>2, <2>3, OnceKept
<1>6. ASSUME OneUnpaid(paid)', received' = received, faults' = faults,
             \A u \in Audience, t \in Steps : Chances(u, t, paid)' <= Chances(u, t, paid)
      PROVE  OnceInv'
  <2>1. faults <= faults'
    BY <1>6 DEF RowsInv, TypeInv, HistoryInv
  <2>2. \A u \in Audience, t \in Steps : Settles(u, t, paid)
    BY <1>1, <1>6, <2>1, SettlesDown
  <2> QED BY <1>1, <1>2, <1>6, <2>2, OnceKept
<1>7. CASE Tick
  <2>1. received' = received /\ faults' = faults
    BY <1>7 DEF Tick
  <2> QED BY <1>1, <1>3, <1>6, <1>7, <2>1, TickSettles
<1>8. ASSUME NEW s \in Sweeps, Check(s) PROVE OnceInv'
  BY <1>1, <1>2, <1>3, <1>8, CheckSettles, OnceKept
<1>9. ASSUME NEW s \in Sweeps, Deliver(s) PROVE OnceInv'
  BY <1>1, <1>2, <1>3, <1>9, DeliverSettles, OnceKept
<1>10. ASSUME NEW s \in Sweeps, FinishSweep(s) PROVE OnceInv'
  <2>1. received' = received /\ faults' = faults
    BY <1>10 DEF FinishSweep
  <2> QED BY <1>1, <1>3, <1>6, <1>10, <2>1, FinishSettles
<1>11. ASSUME NEW s \in Sweeps, Crash(s) PROVE OnceInv'
  BY <1>1, <1>2, <1>3, <1>11, CrashSettles, OnceKept
<1>12. ASSUME NEW s \in Sweeps, NEW x \in Tables, StartSweep(s, x) PROVE OnceInv'
  BY <1>1, <1>2, <1>12, StartOnce
<1>13. CASE UNCHANGED nudgesVars
  <2>1. /\ sweep' = sweep /\ arming' = arming /\ received' = received /\ faults' = faults
        /\ users' = users /\ row' = row
    BY <1>13 DEF nudgesVars
  <2>2. OneUnpaid(paid)'
    BY <1>3, <2>1, SweepsSame
  <2>3. ASSUME NEW u \in Audience, NEW t \in Steps PROVE Settles(u, t, paid)
    <3>1. /\ \A i \in Copies(u, t) : row'[i].status = "pending" => row[i].status = "pending"
          /\ u \in users' => u \in users /\ \A i \in Copies(u, t) :
                                row[i].status # "absent" => row'[i].status # "absent"
      BY <2>1
    <3> QED BY <1>1, <1>3, <2>1, <3>1, WorldSettles
  <2> QED BY <1>1, <1>2, <2>2, <2>3, OnceKept
<1> QED BY <1>4, <1>5, <1>7, <1>8, <1>9, <1>10, <1>11, <1>12, <1>13 DEF NudgesNext, Work

LEMMA OnceInit == NudgesInit => OnceInv
<1> SUFFICES ASSUME NudgesInit PROVE OnceFor({})
  BY DEF OnceInv
<1>1. RowsInv
  BY RowsInit
<1>2. \A s \in Sweeps : ~Active(s)
  BY DEF NudgesInit, Active
<1>3. OneUnpaid({})
  BY <1>2 DEF OneUnpaid
<1>4. ASSUME NEW u \in Audience, NEW t \in Steps
      PROVE  received[u][t] + Chances(u, t, {}) <= 1 + faults
  <2>1. received[u][t] = 0 /\ faults = 0
    BY DEF NudgesInit
  <2>2. \A i \in Copies(u, t) : row[i].status # "pending"
    BY IdParts DEF NudgesInit, Absent
  <2>3. /\ UnsentCopies(u, t) = {} /\ ArmsOf(u, t) = {}
        /\ Paid(u, t, {}) = {} /\ Late(u, t, {}) = {}
    BY <1>2, <2>2 DEF UnsentCopies, Unsent, ArmsOf, Paid, Late, Able, NudgesInit
  <2>4. Cardinality({}) = 0
    BY FS_EmptySet
  <2>5. Chances(u, t, {}) = Fresh(u, t) /\ Fresh(u, t) \in {0, 1}
    BY <2>3, <2>4 DEF Chances, Fresh
  <2> QED BY <2>1, <2>5
<1> QED BY <1>3, <1>4 DEF OnceFor

LEMMA OnceSafe == RowsInv /\ OnceInv => OncePerStep
<1> SUFFICES ASSUME RowsInv, NEW paid \in SUBSET Sweeps, OnceFor(paid),
                    NEW u \in Audience, NEW t \in Steps
             PROVE  received[u][t] <= 1 + faults
  BY DEF OnceInv, OncePerStep
<1>1. received[u][t] + Chances(u, t, paid) <= 1 + faults
  BY DEF OnceFor
<1>2. Chances(u, t, paid) \in Nat
  BY ChancesFinite, ChancesSum
<1>3. received[u][t] \in Nat /\ faults \in Nat
  BY Numbers DEF RowsInv, TypeInv, HistoryInv
<1> QED BY <1>1, <1>2, <1>3

-----------------------------------------------------------------------------
(* How fast reminders follow each other.                                    *)

LEMMA FewIds ==
    ASSUME NEW B \in SUBSET Ids, NEW A \in SUBSET B
    PROVE  /\ IsFiniteSet(A) /\ IsFiniteSet(B) /\ Cardinality(A) \in Nat /\ Cardinality(B) \in Nat
           /\ Cardinality(A) <= Cardinality(B)
<1>1. IsFiniteSet(B)
  BY IdsFinite, FS_Subset
<1> QED BY <1>1, FS_Subset, FS_CardinalityType

\* What a sweep counts against the cap and the gap of a user.
Seen(s, u, window) == {i \in Ids : /\ User(i) = u /\ OfTable(i) = sweep[s].table
                                   /\ SentSeen(s, i) /\ SentBefore(s, i) <= window}

LEMMA Limits ==
    ASSUME NEW s, NEW u
    PROVE  /\ RateLimited(s, u) <=> \/ Cardinality(Seen(s, u, Gap)) > 0
                                    \/ Cardinality(Seen(s, u, Day)) >= DailyCap[sweep[s].table]
           /\ RateLimited(s, u)' <=> \/ Cardinality(Seen(s, u, Gap)') > 0
                                     \/ Cardinality(Seen(s, u, Day)') >= DailyCap[sweep'[s].table]
           /\ \A w : Seen(s, u, w) \in SUBSET Ids
BY DEF RateLimited, SentInWindow, Seen, OfTable

LEMMA Caps == \A t \in Tables : DailyCap[t] \in Nat /\ DailyCap[t] > 0
BY NudgesAssumption DEF NudgesAssumption

LEMMA ClearedKept ==
    ASSUME NEW s, NEW u, ~RateLimited(s, u), sweep[s].table \in Tables,
           sweep'[s].table = sweep[s].table,
           Seen(s, u, Gap)' \subseteq Seen(s, u, Gap), Seen(s, u, Day)' \subseteq Seen(s, u, Day)
    PROVE  ~RateLimited(s, u)'
<1> DEFINE g == Cardinality(Seen(s, u, Gap))
           d == Cardinality(Seen(s, u, Day))
           g1 == Cardinality(Seen(s, u, Gap)')
           d1 == Cardinality(Seen(s, u, Day)')
           cap == DailyCap[sweep[s].table]
<1>1. g \in Nat /\ d \in Nat /\ g1 \in Nat /\ d1 \in Nat /\ g1 <= g /\ d1 <= d /\ cap \in Nat
  BY Limits, FewIds, Caps
<1>2. ~(g > 0) /\ ~(d >= cap)
  BY Limits
<1>3. RateLimited(s, u)' <=> g1 > 0 \/ d1 >= cap
  BY Limits
<1> HIDE DEF g, d, g1, d1, cap
<1> QED BY <1>1, <1>2, <1>3

\* A row of a table is as old, or as far from the sweep, as before.
LEMMA SpacedKept ==
    ASSUME NEW s, NEW i \in Ids, SpacedAt(s, i), SentBy(s, i)' \subseteq SentBy(s, i),
           \A j \in SentBy(s, i)' :
              \/ row'[j].age - sweep'[s].since = row[j].age - sweep[s].since
              \/ row'[j].age - sweep'[s].since \in Int /\ row'[j].age - sweep'[s].since > Day
    PROVE  SpacedAt(s, i)'
<1> DEFINE n == Cardinality(Near(s, i))
           n1 == Cardinality(Near(s, i)')
           cap == DailyCap[OfTable(i)]
<1>1. ASSUME NEW j \in SentBy(s, i)' PROVE row'[j].age - sweep'[s].since > Gap
  <2> DEFINE x == row'[j].age - sweep'[s].since
             y == row[j].age - sweep[s].since
  <2>1. x = y \/ (x \in Int /\ x > Day)
    OBVIOUS
  <2>2. y > Gap
    BY DEF SpacedAt
  <2> HIDE DEF x, y
  <2>3. x > Gap
    BY <2>1, <2>2, Numbers
  <2> QED BY <2>3 DEF x
<1>2. Near(s, i)' \subseteq Near(s, i)
  <2> SUFFICES ASSUME NEW j \in Near(s, i)' PROVE j \in Near(s, i)
    OBVIOUS
  <2> DEFINE x == row'[j].age - sweep'[s].since
             y == row[j].age - sweep[s].since
  <2>1. j \in SentBy(s, i)' /\ x <= Day
    BY DEF Near
  <2>2. x = y \/ (x \in Int /\ x > Day)
    BY <2>1
  <2> HIDE DEF x, y
  <2>3. y <= Day
    BY <2>1, <2>2, Numbers
  <2> QED BY <2>1, <2>3 DEF Near, y
<1>3. Near(s, i) \in SUBSET Ids
  BY DEF Near, SentBy
<1>4. n1 \in Nat /\ n \in Nat /\ n1 <= n
  BY <1>2, <1>3, FewIds
<1>5. n < cap /\ cap \in Nat
  BY IdParts, Caps DEF SpacedAt
<1> HIDE DEF n, n1, cap
<1>6. n1 < cap
  BY <1>4, <1>5
<1> QED BY <1>1, <1>6 DEF SpacedAt, n1, cap

LEMMA PacedKept ==
    ASSUME NEW u \in Audience, NEW t \in Tables, PacedFor(u, t),
           SentRows(u, t)' \subseteq SentRows(u, t),
           \A i, j \in SentRows(u, t)' : row'[i].age - row'[j].age = row[i].age - row[j].age
    PROVE  PacedFor(u, t)'
<1> SUFFICES ASSUME NEW i \in SentRows(u, t)'
             PROVE  /\ \A j \in SentRows(u, t)' \ {i} : \/ row'[i].age - row'[j].age > Gap
                                                        \/ row'[j].age - row'[i].age > Gap
                    /\ Cardinality(SameDay(u, t, i)') <= DailyCap[t]
  BY DEF PacedFor
<1>1. ASSUME NEW j \in SentRows(u, t)', j # i
      PROVE  row'[i].age - row'[j].age > Gap \/ row'[j].age - row'[i].age > Gap
  <2>1. /\ row'[i].age - row'[j].age = row[i].age - row[j].age
        /\ row'[j].age - row'[i].age = row[j].age - row[i].age
    OBVIOUS
  <2>2. row[i].age - row[j].age > Gap \/ row[j].age - row[i].age > Gap
    BY <1>1 DEF PacedFor
  <2> QED BY <2>1, <2>2
<1>2. SameDay(u, t, i)' \subseteq SameDay(u, t, i) /\ SameDay(u, t, i) \in SUBSET Ids
  <2>1. SameDay(u, t, i) \in SUBSET Ids
    BY DEF SameDay, SentRows
  <2>2. ASSUME NEW j \in SameDay(u, t, i)' PROVE j \in SameDay(u, t, i)
    <3>1. j \in SentRows(u, t)' /\ row'[j].age - row'[i].age \in 0..Day
      BY DEF SameDay
    <3>2. row'[j].age - row'[i].age = row[j].age - row[i].age
      BY <3>1
    <3>3. row[j].age - row[i].age \in 0..Day
      BY <3>1, <3>2
    <3> QED BY <3>1, <3>3 DEF SameDay
  <2> QED BY <2>1, <2>2
<1> DEFINE n == Cardinality(SameDay(u, t, i))
           n1 == Cardinality(SameDay(u, t, i)')
<1>3. n1 \in Nat /\ n \in Nat /\ n1 <= n /\ DailyCap[t] \in Nat /\ n <= DailyCap[t]
  BY <1>2, FewIds, Caps DEF PacedFor
<1> HIDE DEF n, n1
<1>4. n1 <= DailyCap[t]
  BY <1>3
<1>5. \A j \in SentRows(u, t)' \ {i} : \/ row'[i].age - row'[j].age > Gap
                                       \/ row'[j].age - row'[i].age > Gap
  BY <1>1
<1> QED BY <1>4, <1>5 DEF n1

LEMMA PaceTypes ==
    ASSUME RowsInv
    PROVE  /\ \A i \in Ids : row[i].age \in Int /\ row[i].age >= 0 /\ row[i].age <= MaxAge
           /\ \A s \in Sweeps : /\ sweep[s].since \in Int /\ sweep[s].since <= MaxSweepTicks
                                /\ sweep[s].table \in Tables \cup {"none"}
                                /\ (sweep[s].sending => Active(s))
                                /\ \A i \in Wrote(s, "sent") : i \in Ids /\ Active(s)
                                /\ \A j \in DOMAIN sweep[s].wrote : OfTable(j) = sweep[s].table
                                /\ (Active(s) => sweep[s].table \in Tables)
<1>1. \A i \in Ids : row[i].age \in Int /\ row[i].age >= 0 /\ row[i].age <= MaxAge
  BY Numbers DEF RowsInv, TypeInv, QueueInv, RowType
<1>2. ASSUME NEW s \in Sweeps
      PROVE  /\ sweep[s].since \in Int /\ sweep[s].since <= MaxSweepTicks
             /\ (sweep[s].table = "none" => sweep[s] = Idle)
             /\ sweep[s].table \in Tables \cup {"none"}
             /\ (sweep[s].sending => Active(s))
             /\ \A i \in Wrote(s, "sent") : i \in Ids /\ Active(s)
             /\ \A i \in DOMAIN sweep[s].wrote : OfTable(i) = sweep[s].table
  <2>1. sweep[s] \in SweepType /\ SweepOK(sweep[s])
    BY DEF RowsInv, TypeInv, SweepTypes, SweepInv
  <2>2. /\ sweep[s].since \in Int /\ sweep[s].since <= MaxSweepTicks
        /\ DOMAIN sweep[s].wrote \subseteq Ids
    BY SweepFields DEF RowsInv, TypeInv
  <2>3. sweep[s].table \in Tables \cup {"none"}
    BY <2>1 DEF SweepType
  <2>4. sweep[s].sending => Active(s)
    BY <2>1 DEF SweepOK, Active, Idle
  <2>5. \A i \in DOMAIN sweep[s].wrote : i \in Ids /\ OfTable(i) = sweep[s].table
    BY <2>1, <2>2 DEF SweepOK
  <2>6. \A i \in DOMAIN sweep[s].wrote : Active(s)
    BY DEF Active, Idle
  <2> QED BY <2>1, <2>2, <2>3, <2>4, <2>5, <2>6 DEF SweepOK, Wrote
<1>3. \A s \in Sweeps : Active(s) => sweep[s].table \in Tables
  BY <1>2 DEF Active
<1> QED BY <1>1, <1>2, <1>3

\* A sweep whose table keeps its rows, and that stays as it is.
LEMMA SameSweep ==
    ASSUME NEW o \in Sweeps, sweep'[o] = sweep[o], RowsInv, Active(o),
           \A i \in Ids : OfTable(i) = sweep[o].table =>
               /\ row'[i].status = "sent" <=> row[i].status = "sent"
               /\ row'[i].age = row[i].age
    PROVE  /\ \A u : ~RateLimited(o, u) => ~RateLimited(o, u)'
           /\ Wrote(o, "sent")' = Wrote(o, "sent")
           /\ \A i \in Wrote(o, "sent") : SpacedAt(o, i) => SpacedAt(o, i)'
<1>1. /\ sweep[o].table \in Tables
      /\ \A i \in Wrote(o, "sent") : i \in Ids /\ OfTable(i) = sweep[o].table
  BY PaceTypes DEF Wrote
<1>2. Wrote(o, "sent")' = Wrote(o, "sent")
  BY DEF Wrote
<1>3. \A u, w : Seen(o, u, w)' = Seen(o, u, w)
  <2>1. ASSUME NEW i \in Ids, OfTable(i) = sweep[o].table
        PROVE  (SentSeen(o, i)' <=> SentSeen(o, i)) /\ SentBefore(o, i)' = SentBefore(o, i)
    BY <2>1 DEF SentSeen, SentBefore
  <2> QED BY <2>1 DEF Seen
<1>4. \A u : ~RateLimited(o, u) => ~RateLimited(o, u)'
  BY <1>1, <1>3, ClearedKept
<1>5. ASSUME NEW i \in Wrote(o, "sent"), SpacedAt(o, i) PROVE SpacedAt(o, i)'
  <2>1. SentBy(o, i)' = SentBy(o, i)
    BY <1>1 DEF SentBy, Alike
  <2>2. \A j \in SentBy(o, i)' : row'[j].age - sweep'[o].since = row[j].age - sweep[o].since
    BY <1>1, <2>1 DEF SentBy, Alike
  <2> QED BY <1>1, <1>5, <2>1, <2>2, SpacedKept
<1> QED BY <1>2, <1>4, <1>5

\* The sweeps stay; rows that were sent may go.
LEMMA PaceThin ==
    ASSUME RowsInv, Paces, sweep' = sweep,
           \A i \in Ids : row'[i].status = "sent" =>
               row[i].status = "sent" /\ row'[i].age = row[i].age
    PROVE  Paces'
<1>1. Alone'
  BY DEF Paces, Alone, Active
<1>2. Behind'
  BY DEF Paces, Behind, Active
<1>3. Cleared'
  <2> SUFFICES ASSUME NEW s \in Sweeps, sweep[s].sending, NEW u, u = User(Head(sweep[s].list))
               PROVE  ~RateLimited(s, u)'
    BY DEF Cleared
  <2>1. sweep[s].table \in Tables
    BY PaceTypes
  <2>2. ~RateLimited(s, u)
    BY DEF Paces, Cleared
  <2>3. \A w : Seen(s, u, w)' \subseteq Seen(s, u, w)
    <3>1. ASSUME NEW i \in Ids, SentSeen(s, i)'
          PROVE  SentSeen(s, i) /\ SentBefore(s, i)' = SentBefore(s, i)
      BY <3>1 DEF SentSeen, SentBefore
    <3> QED BY <3>1 DEF Seen
  <2> QED BY <2>1, <2>2, <2>3, ClearedKept
<1>4. Spaced'
  <2> SUFFICES ASSUME NEW s \in Sweeps, NEW i \in Wrote(s, "sent") PROVE SpacedAt(s, i)'
    <3>1. \A s \in Sweeps : Wrote(s, "sent")' = Wrote(s, "sent")
      BY DEF Wrote
    <3> QED BY <3>1 DEF Spaced
  <2>1. i \in Ids /\ SpacedAt(s, i)
    BY PaceTypes DEF Paces, Spaced
  <2>2. SentBy(s, i)' \subseteq SentBy(s, i)
    BY DEF SentBy, Alike
  <2>3. \A j \in SentBy(s, i)' : row'[j].age - sweep'[s].since = row[j].age - sweep[s].since
    BY DEF SentBy
  <2> QED BY <2>1, <2>2, <2>3, SpacedKept
<1>5. AllPaced'
  <2> SUFFICES ASSUME NEW u \in Audience, NEW t \in Tables PROVE PacedFor(u, t)'
    BY DEF AllPaced
  <2>1. SentRows(u, t)' \subseteq SentRows(u, t)
    BY DEF SentRows
  <2>2. \A i, j \in SentRows(u, t)' : row'[i].age - row'[j].age = row[i].age - row[j].age
    BY DEF SentRows
  <2> QED BY <2>1, <2>2, PacedKept DEF Paces, AllPaced
<1> QED BY <1>1, <1>2, <1>3, <1>4, <1>5 DEF Paces

\* The table stays, and so do the sweeps but one.
LEMMA PaceSweep ==
    ASSUME RowsInv, Paces, row' = row, NEW s \in Sweeps, NEW u,
           \A o \in Sweeps \ {s} : sweep'[o] = sweep[o],
           Active(s)' => \A o \in Sweeps \ {s} : sweep[o].table # sweep'[s].table,
           Active(s)' => \A i \in Ids : OfTable(i) = sweep'[s].table /\ row[i].status = "sent" =>
                             row[i].age >= sweep'[s].since,
           sweep'[s].sending => u = User(Head(sweep'[s].list)) /\ ~RateLimited(s, u)',
           \A i \in Wrote(s, "sent")' : SpacedAt(s, i)'
    PROVE  Paces'
<1>1. Alone'
  <2> SUFFICES ASSUME NEW o \in Sweeps, NEW p \in Sweeps, Active(o)',
                      sweep'[o].table = sweep'[p].table
               PROVE  o = p
    BY DEF Alone
  <2>1. CASE o # s /\ p # s
    BY <2>1 DEF Active, Paces, Alone
  <2>2. CASE o = s /\ p # s
    BY <2>2
  <2>3. CASE o # s /\ p = s
    <3>1. Active(o) /\ sweep'[o] = sweep[o]
      BY <2>3 DEF Active
    <3>2. sweep[o].table \in Tables
      BY <3>1, PaceTypes
    <3>3. ~Active(s)' => sweep'[s].table = "none"
      BY DEF Active, Idle
    <3> QED BY <2>3, <3>1, <3>2, <3>3 DEF Tables
  <2> QED BY <2>1, <2>2, <2>3
<1>2. Behind'
  BY DEF Paces, Behind, Active
<1>3. \A o \in Sweeps \ {s} : Active(o) =>
          /\ \A v : ~RateLimited(o, v) => ~RateLimited(o, v)'
          /\ Wrote(o, "sent")' = Wrote(o, "sent")
          /\ \A i \in Wrote(o, "sent") : SpacedAt(o, i) => SpacedAt(o, i)'
  BY SameSweep
<1>4. Cleared'
  <2> SUFFICES ASSUME NEW o \in Sweeps, sweep'[o].sending, NEW v,
                      v = User(Head(sweep'[o].list))
               PROVE  ~RateLimited(o, v)'
    BY DEF Cleared
  <2>1. CASE o = s
    BY <2>1
  <2>2. CASE o # s
    <3>1. sweep'[o] = sweep[o] /\ Active(o)
      BY <2>2, PaceTypes
    <3>2. ~RateLimited(o, v)
      BY <3>1 DEF Paces, Cleared
    <3> QED BY <1>3, <2>2, <3>1, <3>2
  <2> QED BY <2>1, <2>2
<1>5. Spaced'
  <2> SUFFICES ASSUME NEW o \in Sweeps, NEW i \in Wrote(o, "sent")' PROVE SpacedAt(o, i)'
    BY DEF Spaced
  <2>1. CASE o = s
    BY <2>1
  <2>2. CASE o # s
    <3>1. i \in Wrote(o, "sent")
      BY <2>2 DEF Wrote
    <3>2. Active(o)
      BY <3>1, PaceTypes
    <3>3. SpacedAt(o, i)
      BY <3>1 DEF Paces, Spaced
    <3> QED BY <1>3, <2>2, <3>1, <3>2, <3>3
  <2> QED BY <2>1, <2>2
<1>6. AllPaced'
  <2> SUFFICES ASSUME NEW u1 \in Audience, NEW t \in Tables PROVE PacedFor(u1, t)'
    BY DEF AllPaced
  <2>1. SentRows(u1, t)' = SentRows(u1, t)
    BY DEF SentRows
  <2>2. \A i, j \in SentRows(u1, t)' : row'[i].age - row'[j].age = row[i].age - row[j].age
    OBVIOUS
  <2> QED BY <2>1, <2>2, PacedKept DEF Paces, AllPaced
<1> QED BY <1>1, <1>2, <1>4, <1>5, <1>6 DEF Paces

LEMMA PaceTick == ASSUME RowsInv, Paces, Tick PROVE Paces'
<1>1. \A i \in Ids : /\ row[i].age \in Int /\ row[i].age >= 0 /\ row[i].age <= MaxAge
                     /\ row[i] \in RowType
  BY PaceTypes DEF RowsInv, TypeInv, QueueInv
<1>2. \A i \in Ids : /\ row'[i].status = row[i].status
                     /\ row[i].status = "sent" =>
                          row'[i].age = IF row[i].age < MaxAge THEN row[i].age + 1 ELSE row[i].age
  BY <1>1 DEF Tick, RowType
<1>3. \A s \in Sweeps : /\ sweep'[s].table = sweep[s].table /\ sweep'[s].list = sweep[s].list
                        /\ sweep'[s].wrote = sweep[s].wrote
                        /\ sweep'[s].sending = sweep[s].sending
                        /\ Active(s) => sweep'[s].since = sweep[s].since + 1
  <2>1. SweepTypes /\ SweepInv
    BY DEF RowsInv, TypeInv
  <2> QED BY <2>1, TickSweep
<1>4. \A s \in Sweeps : /\ Active(s)' => Active(s)
                        /\ Active(s) => /\ sweep[s].since \in Int
                                        /\ sweep[s].since < MaxSweepTicks
  BY PaceTypes DEF Tick, Active
<1>5. ASSUME NEW s \in Sweeps, Active(s), NEW i \in Ids, row[i].status = "sent"
      PROVE  \/ row'[i].age - sweep'[s].since = row[i].age - sweep[s].since
             \/ row'[i].age - sweep'[s].since \in Int /\ row'[i].age - sweep'[s].since > Day
  <2> DEFINE a == row[i].age
             b == sweep[s].since
             a1 == row'[i].age
             b1 == sweep'[s].since
  <2>1. a \in Int /\ b \in Int /\ a <= MaxAge /\ b < MaxSweepTicks
    BY <1>1, <1>4, <1>5
  <2>2. a1 = (IF a < MaxAge THEN a + 1 ELSE a) /\ b1 = b + 1
    BY <1>2, <1>3, <1>5
  <2> HIDE DEF a, b, a1, b1
  <2>3. a1 - b1 = a - b \/ (a1 - b1 \in Int /\ a1 - b1 > Day)
    BY <2>1, <2>2, Numbers
  <2> QED BY <2>3 DEF a, b, a1, b1
<1>6. Alone'
  BY <1>3, <1>4 DEF Paces, Alone
<1>7. Behind'
  <2> SUFFICES ASSUME NEW s \in Sweeps, Active(s)', NEW i \in Ids,
                      OfTable(i) = sweep'[s].table, row'[i].status = "sent"
               PROVE  row'[i].age >= sweep'[s].since
    BY DEF Behind
  <2> DEFINE a == row[i].age
             b == sweep[s].since
             a1 == row'[i].age
             b1 == sweep'[s].since
  <2>1. Active(s) /\ row[i].status = "sent"
    BY <1>2, <1>4
  <2>2. a >= b
    BY <1>3, <2>1 DEF Paces, Behind
  <2>3. a \in Int /\ b \in Int /\ a <= MaxAge /\ b < MaxSweepTicks
    BY <1>1, <1>4, <2>1
  <2>4. a1 = (IF a < MaxAge THEN a + 1 ELSE a) /\ b1 = b + 1
    BY <1>2, <1>3, <2>1
  <2> HIDE DEF a, b, a1, b1
  <2>5. a1 >= b1
    BY <2>2, <2>3, <2>4, Numbers
  <2> QED BY <2>5 DEF a1, b1
<1>8. Cleared'
  <2> SUFFICES ASSUME NEW s \in Sweeps, sweep'[s].sending, NEW u, u = User(Head(sweep'[s].list))
               PROVE  ~RateLimited(s, u)'
    BY DEF Cleared
  <2>1. sweep[s].sending /\ Active(s) /\ sweep[s].table \in Tables
    BY <1>3, PaceTypes
  <2>2. ~RateLimited(s, u)
    BY <1>3, <2>1 DEF Paces, Cleared
  <2>3. ASSUME NEW w \in Int, w <= Day PROVE Seen(s, u, w)' \subseteq Seen(s, u, w)
    <3> SUFFICES ASSUME NEW i \in Seen(s, u, w)' PROVE i \in Seen(s, u, w)
      OBVIOUS
    <3>1. /\ i \in Ids /\ User(i) = u /\ OfTable(i) = sweep[s].table
          /\ SentSeen(s, i)' /\ SentBefore(s, i)' <= w
      BY <1>3 DEF Seen
    <3>2. CASE i \in DOMAIN sweep[s].wrote
      BY <1>3, <3>1, <3>2 DEF Seen, SentSeen, SentBefore
    <3>3. CASE i \notin DOMAIN sweep[s].wrote
      <4> DEFINE x == row'[i].age - sweep'[s].since
                 y == row[i].age - sweep[s].since
      <4>1. row[i].status = "sent" /\ x <= w
        BY <1>2, <1>3, <3>1, <3>3 DEF SentSeen, SentBefore
      <4>2. x = y \/ (x \in Int /\ x > Day)
        BY <1>5, <2>1, <3>1, <4>1
      <4> HIDE DEF x, y
      <4>3. y <= w
        BY <2>3, <4>1, <4>2, Numbers
      <4> QED BY <3>1, <3>3, <4>1, <4>3 DEF Seen, SentSeen, SentBefore, y
    <3> QED BY <3>2, <3>3
  <2> QED BY <1>3, <2>1, <2>2, <2>3, ClearedKept, Numbers
<1>9. Spaced'
  <2> SUFFICES ASSUME NEW s \in Sweeps, NEW i \in Wrote(s, "sent")' PROVE SpacedAt(s, i)'
    BY DEF Spaced
  <2>1. i \in Wrote(s, "sent")
    BY <1>3 DEF Wrote
  <2>2. i \in Ids /\ Active(s) /\ SpacedAt(s, i)
    BY <2>1, PaceTypes DEF Paces, Spaced
  <2>3. SentBy(s, i)' \subseteq SentBy(s, i)
    BY <1>2, <1>3 DEF SentBy, Alike
  <2>4. \A j \in SentBy(s, i) : j \in Ids /\ row[j].status = "sent"
    BY DEF SentBy
  <2> QED BY <1>5, <2>2, <2>3, <2>4, SpacedKept
<1>10. AllPaced'
  <2> SUFFICES ASSUME NEW u \in Audience, NEW t \in Tables PROVE PacedFor(u, t)'
    BY DEF AllPaced
  <2>1. ASSUME NEW i \in SentRows(u, t)'
        PROVE  /\ i \in SentRows(u, t) /\ row'[i].age = row[i].age + 1 /\ row[i].age \in Int
    <3>1. /\ i \in Ids /\ User(i) = u /\ OfTable(i) = t /\ row[i].status = "sent"
          /\ row'[i].age < MaxAge
      BY <1>2 DEF SentRows
    <3>2. row[i].age < MaxAge
      BY <1>1, <1>2, <3>1
    <3> QED BY <1>1, <1>2, <3>1, <3>2 DEF SentRows
  <2>2. ASSUME NEW i \in SentRows(u, t)', NEW j \in SentRows(u, t)'
        PROVE  row'[i].age - row'[j].age = row[i].age - row[j].age
    <3> DEFINE a == row[i].age
               b == row[j].age
    <3>1. row'[i].age = a + 1 /\ row'[j].age = b + 1 /\ a \in Int /\ b \in Int
      BY <2>1
    <3> HIDE DEF a, b
    <3>2. row'[i].age - row'[j].age = a - b
      BY <3>1
    <3> QED BY <3>2 DEF a, b
  <2>3. SentRows(u, t)' \subseteq SentRows(u, t)
    BY <2>1
  <2> QED BY <2>2, <2>3, PacedKept DEF Paces, AllPaced
<1> QED BY <1>6, <1>7, <1>8, <1>9, <1>10 DEF Paces

LEMMA AdvanceRest ==
    ASSUME RowsInv, NEW s \in Sweeps, NEW ids, NEW status, Advance(s, ids, status)
    PROVE  /\ sweep'[s].since = sweep[s].since /\ ~sweep'[s].sending
           /\ DOMAIN sweep'[s].wrote = DOMAIN sweep[s].wrote \cup ids
<1>1. sweep[s] \in SweepType /\ DOMAIN sweep = Sweeps
  BY DEF RowsInv, TypeInv, SweepTypes
<1>2. /\ sweep'[s].since = sweep[s].since /\ ~sweep'[s].sending
      /\ sweep'[s].wrote = Writes(s, ids, status)
  BY <1>1 DEF Advance, SweepType
<1> QED BY <1>2 DEF Writes

LEMMA PaceAdvance ==
    ASSUME RowsInv, Paces, row' = row, NEW s \in Sweeps, sweep[s].list # <<>>,
           NEW ids, NEW status, Advance(s, ids, status),
           \A i \in Wrote(s, "sent")' : i \in Ids /\ SpacedAt(s, i)
    PROVE  Paces'
<1>1. /\ sweep'[s].table = sweep[s].table /\ Active(s)
      /\ \A o \in Sweeps \ {s} : sweep'[o] = sweep[o]
  BY AdvanceWrote
<1>2. /\ sweep'[s].since = sweep[s].since /\ ~sweep'[s].sending
      /\ DOMAIN sweep[s].wrote \subseteq DOMAIN sweep'[s].wrote
  BY AdvanceRest
<1>3. \A o \in Sweeps \ {s} : sweep[o].table # sweep'[s].table
  BY <1>1 DEF Paces, Alone
<1>4. \A i \in Ids : OfTable(i) = sweep'[s].table /\ row[i].status = "sent" =>
                        row[i].age >= sweep'[s].since
  BY <1>1, <1>2 DEF Paces, Behind
<1>5. ASSUME NEW i \in Wrote(s, "sent")' PROVE SpacedAt(s, i)'
  <2>1. SentBy(s, i)' \subseteq SentBy(s, i)
    BY <1>2 DEF SentBy, Alike
  <2>2. \A j \in SentBy(s, i)' : row'[j].age - sweep'[s].since = row[j].age - sweep[s].since
    BY <1>2
  <2> QED BY <2>1, <2>2, SpacedKept
<1> QED BY <1>1, <1>2, <1>3, <1>4, <1>5, PaceSweep

LEMMA PaceCheck == ASSUME RowsInv, Paces, NEW s \in Sweeps, Check(s) PROVE Paces'
<1>1. sweep[s].list # <<>> /\ row' = row
  BY DEF Check, table
<1>2. \A i \in Wrote(s, "sent") : i \in Ids /\ SpacedAt(s, i)
  BY PaceTypes DEF Paces, Spaced
<1>3. ASSUME NEW ids, Advance(s, ids, "cancelled") \/ Advance(s, ids, "pending")
      PROVE  Paces'
  <2>1. PICK status : Advance(s, ids, status) /\ status # "sent"
    BY <1>3
  <2>2. Wrote(s, "sent")' = Wrote(s, "sent") \ ids
    BY <1>1, <2>1, AdvanceWrote
  <2> QED BY <1>1, <1>2, <2>1, <2>2, PaceAdvance
<1>4. CASE /\ ~RateLimited(s, User(Head(sweep[s].list)))
           /\ sweep' = [sweep EXCEPT ![s].sending = TRUE]
  <2>0. PICK u : u = User(Head(sweep[s].list))
    OBVIOUS
  <2>1. sweep[s] \in SweepType /\ DOMAIN sweep = Sweeps
    BY DEF RowsInv, TypeInv, SweepTypes
  <2>2. /\ \A o \in Sweeps \ {s} : sweep'[o] = sweep[o]
        /\ sweep'[s].table = sweep[s].table /\ sweep'[s].since = sweep[s].since
        /\ sweep'[s].wrote = sweep[s].wrote /\ sweep'[s].list = sweep[s].list
    BY <1>4, <2>1 DEF SweepType
  <2>3. Active(s) /\ sweep[s].table \in Tables
    BY PaceTypes DEF Check
  <2>4. \A o \in Sweeps \ {s} : sweep[o].table # sweep'[s].table
    BY <2>2, <2>3 DEF Paces, Alone
  <2>5. \A i \in Ids : OfTable(i) = sweep'[s].table /\ row[i].status = "sent" =>
                          row[i].age >= sweep'[s].since
    BY <2>2, <2>3 DEF Paces, Behind
  <2>6. ~RateLimited(s, u)
    BY <1>4, <2>0
  <2>7. \A w : Seen(s, u, w)' \subseteq Seen(s, u, w)
    <3>1. \A i : (SentSeen(s, i)' <=> SentSeen(s, i)) /\ SentBefore(s, i)' = SentBefore(s, i)
      BY <1>1, <2>2 DEF SentSeen, SentBefore
    <3> QED BY <2>2, <3>1 DEF Seen
  <2>8. ~RateLimited(s, u)'
    BY <2>2, <2>3, <2>6, <2>7, ClearedKept
  <2>9. u = User(Head(sweep'[s].list))
    BY <2>0, <2>2
  <2>10. ASSUME NEW i \in Wrote(s, "sent")' PROVE SpacedAt(s, i)'
    <3>1. i \in Ids /\ SpacedAt(s, i)
      BY <1>2, <2>2 DEF Wrote
    <3>2. SentBy(s, i)' \subseteq SentBy(s, i)
      BY <1>1, <2>2 DEF SentBy, Alike
    <3>3. \A j \in SentBy(s, i)' : row'[j].age - sweep'[s].since = row[j].age - sweep[s].since
      BY <1>1, <2>2
    <3> QED BY <3>1, <3>2, <3>3, SpacedKept
  <2> QED BY <1>1, <2>2, <2>4, <2>5, <2>8, <2>9, <2>10, PaceSweep
<1> QED BY <1>3, <1>4 DEF Check

\* The limits that the check found kept make room for the message.
LEMMA PaceMark ==
    ASSUME RowsInv, Paces, NEW s \in Sweeps, Deliver(s), Mark(s, Head(sweep[s].list))
    PROVE  Paces'
<1> DEFINE i == Head(sweep[s].list)
<1>1. row' = row /\ sweep[s].sending /\ sweep[s].list # <<>>
  BY DEF Deliver, table, RowsInv, SweepInv, SweepOK
<1>2. Wrote(s, "sent")' = Wrote(s, "sent") \cup {i}
  BY <1>1, AdvanceWrote DEF Mark
<1>3. i \in Ids /\ OfTable(i) = sweep[s].table /\ sweep[s].table \in Tables
  <2>1. sweep[s].list \in Seq(Ids) /\ SweepOK(sweep[s]) /\ IsInjective(sweep[s].list)
    BY SweepFields DEF RowsInv, TypeInv, SweepInv, SweepOK
  <2>2. i \in Ids /\ i \in ToSet(sweep[s].list)
    BY <1>1, <2>1, TailFacts
  <2> QED BY <1>1, <2>1, <2>2, PaceTypes DEF SweepOK
<1>4. ~RateLimited(s, User(i))
  BY <1>1 DEF Paces, Cleared
<1> HIDE DEF i
<1>5. \A j \in SentBy(s, i) : /\ j \in Ids /\ j \notin DOMAIN sweep[s].wrote
                              /\ User(j) = User(i) /\ OfTable(j) = sweep[s].table
                              /\ SentSeen(s, j)
                              /\ SentBefore(s, j) = row[j].age - sweep[s].since
  BY <1>3 DEF SentBy, Alike, SentSeen, SentBefore
<1>6. SpacedAt(s, i)
  <2> DEFINE g == Cardinality(Seen(s, User(i), Gap))
             d == Cardinality(Seen(s, User(i), Day))
             n == Cardinality(Near(s, i))
             cap == DailyCap[OfTable(i)]
  <2>1. g \in Nat /\ d \in Nat /\ IsFiniteSet(Seen(s, User(i), Gap)) /\ cap \in Nat
    BY <1>3, Limits, FewIds, Caps
  <2>2. ~(g > 0) /\ ~(d >= cap)
    BY <1>3, <1>4, Limits
  <2>3. g = 0
    <3> HIDE DEF g, d, cap
    <3> QED BY <2>1, <2>2
  <2>4. Seen(s, User(i), Gap) = {}
    BY <2>1, <2>3, FS_EmptySet
  <2>5. ASSUME NEW j \in SentBy(s, i) PROVE row[j].age - sweep[s].since > Gap
    <3>1. ~(row[j].age - sweep[s].since <= Gap)
      BY <1>5, <2>4 DEF Seen
    <3>2. row[j].age \in Int /\ sweep[s].since \in Int
      BY <1>5, PaceTypes
    <3> QED BY <3>1, <3>2, Numbers
  <2>6. Near(s, i) \subseteq Seen(s, User(i), Day)
    BY <1>5 DEF Near, Seen
  <2>7. n \in Nat /\ n <= d
    BY <2>6, Limits, FewIds
  <2> HIDE DEF g, d, n, cap
  <2>8. n < cap
    BY <2>1, <2>2, <2>7
  <2> QED BY <2>5, <2>8 DEF SpacedAt, n, cap
<1>7. \A j \in Wrote(s, "sent") : j \in Ids /\ SpacedAt(s, j)
  BY PaceTypes DEF Paces, Spaced
<1>8. Advance(s, {i}, "sent")
  BY DEF Mark, i
<1> QED BY <1>1, <1>2, <1>3, <1>6, <1>7, <1>8, PaceAdvance

LEMMA PaceDeliver ==
    ASSUME RowsInv, Paces, NEW s \in Sweeps, Deliver(s), faults' = faults PROVE Paces'
<1> DEFINE i == Head(sweep[s].list)
<1>1. row' = row /\ sweep[s].list # <<>>
  BY DEF Deliver, table, RowsInv, SweepInv, SweepOK
<1>2. CASE Mark(s, i)
  BY <1>2, PaceMark
<1>3. CASE Advance(s, PendingSeen(s, User(i)), "cancelled")
  <2>1. Wrote(s, "sent")' \subseteq Wrote(s, "sent")
    BY <1>1, <1>3, AdvanceWrote
  <2>2. \A j \in Wrote(s, "sent") : j \in Ids /\ SpacedAt(s, j)
    BY PaceTypes DEF Paces, Spaced
  <2> QED BY <1>1, <1>3, <2>1, <2>2, PaceAdvance
<1>4. \A kind : ~Fault(kind)
  <2>1. faults \in Nat
    BY Numbers DEF RowsInv, TypeInv, HistoryInv
  <2> QED BY <2>1 DEF Fault
<1>5. CASE Advance(s, {}, "pending")
  <2>1. Wrote(s, "sent")' \subseteq Wrote(s, "sent")
    BY <1>1, <1>5, AdvanceWrote
  <2>2. \A k \in Wrote(s, "sent") : k \in Ids /\ SpacedAt(s, k)
    BY PaceTypes DEF Paces, Spaced
  <2> QED BY <1>1, <1>5, <2>1, <2>2, PaceAdvance
<1>6. \/ Mark(s, i) \/ Advance(s, PendingSeen(s, User(i)), "cancelled")
      \/ Advance(s, {}, "pending") \/ (\E kind : Fault(kind))
  BY DEF Deliver
<1> QED BY <1>2, <1>3, <1>4, <1>5, <1>6

LEMMA PaceStart ==
    ASSUME RowsInv, Paces, NEW s \in Sweeps, NEW x \in Tables, StartSweep(s, x), faults' = faults
    PROVE  Paces'
<1>1. /\ SweepTypes /\ SweepInv /\ WorldInv /\ QueueInv /\ faults \in Nat
  BY Numbers DEF RowsInv, TypeInv, HistoryInv
<1>2. /\ \A o \in Sweeps \ {s} : sweep'[o] = sweep[o]
      /\ sweep'[s].table = x /\ sweep'[s].wrote = <<>> /\ ~sweep'[s].sending
      /\ sweep'[s].since = 0
  BY <1>1, StartStep
<1>3. row' = row
  BY DEF StartSweep, table
<1>4. \A o \in Sweeps \ {s} : sweep[o].table # sweep'[s].table
  <2>1. \A kind : ~Fault(kind)
    BY <1>1 DEF Fault
  <2> QED BY <1>2, <2>1 DEF StartSweep
<1>5. \A i \in Ids : row[i].age >= sweep'[s].since
  BY <1>2, PaceTypes
<1>6. Wrote(s, "sent")' = {}
  BY <1>2 DEF Wrote
<1> QED BY <1>2, <1>3, <1>4, <1>5, <1>6, PaceSweep

\* The sweep alone on its table commits what it sent.
LEMMA PaceFinish == ASSUME RowsInv, Paces, NEW s \in Sweeps, FinishSweep(s) PROVE Paces'
<1>1. /\ sweep' = [sweep EXCEPT ![s] = Idle] /\ Active(s) /\ Commit(s)
      /\ DOMAIN sweep = Sweeps /\ \A i \in Ids : row[i] \in RowType
  BY DEF FinishSweep, RowsInv, TypeInv, SweepTypes, QueueInv
<1>2. /\ \A o \in Sweeps \ {s} : sweep'[o] = sweep[o]
      /\ ~Active(s)' /\ Wrote(s, "sent")' = {} /\ sweep'[s] = Idle
      /\ \A o \in Sweeps : Active(o)' => Active(o)
  BY <1>1, StopFacts
<1>3. /\ \A i \in DOMAIN sweep[s].wrote : /\ sweep[s].wrote[i] \in {"sent", "cancelled"}
                                          /\ OfTable(i) = sweep[s].table
      /\ sweep[s].table \in Tables
  BY <1>1, SweepFields, PaceTypes DEF RowsInv, TypeInv
<1>4. ASSUME NEW i \in Ids
      PROVE  \/ i \notin DOMAIN sweep[s].wrote /\ row'[i] = row[i]
             \/ row[i].status = "absent" /\ row'[i] = row[i]
             \/ /\ i \in DOMAIN sweep[s].wrote /\ sweep[s].wrote[i] = "cancelled"
                /\ row'[i].status = "cancelled"
             \/ /\ i \in Wrote(s, "sent") /\ row'[i].status = "sent"
                /\ row'[i].age = sweep[s].since
  <2>1. CASE i \in Locked(s)
    <3>1. /\ row'[i].status = sweep[s].wrote[i]
          /\ sweep[s].wrote[i] = "sent" => row'[i].age = sweep[s].since
      BY <1>1, <2>1 DEF Commit, RowType
    <3> QED BY <1>3, <2>1, <3>1 DEF Locked, Wrote
  <2>2. CASE i \notin Locked(s)
    BY <1>1, <2>2 DEF Commit, Locked
  <2> QED BY <2>1, <2>2
<1>5. \A o \in Sweeps \ {s} : sweep[o].table # sweep[s].table
  BY <1>1 DEF Paces, Alone
<1>6. ASSUME NEW o \in Sweeps \ {s}, Active(o)
      PROVE  /\ \A v : ~RateLimited(o, v) => ~RateLimited(o, v)'
             /\ Wrote(o, "sent")' = Wrote(o, "sent")
             /\ \A i \in Wrote(o, "sent") : SpacedAt(o, i) => SpacedAt(o, i)'
             /\ \A i \in Ids : OfTable(i) = sweep[o].table => row'[i] = row[i]
  <2>1. \A i \in Ids : OfTable(i) = sweep[o].table => row'[i] = row[i]
    BY <1>3, <1>4, <1>5 DEF Wrote
  <2>2. \A i \in Ids : OfTable(i) = sweep[o].table =>
               /\ row'[i].status = "sent" <=> row[i].status = "sent"
               /\ row'[i].age = row[i].age
    BY <2>1
  <2>3. o \in Sweeps /\ sweep'[o] = sweep[o]
    BY <1>2
  <2> QED BY <1>6, <2>1, <2>2, <2>3, SameSweep
<1>7. Alone'
  <2> SUFFICES ASSUME NEW o \in Sweeps, NEW p \in Sweeps, Active(o)',
                      sweep'[o].table = sweep'[p].table
               PROVE  o = p
    BY DEF Alone
  <2>1. o # s /\ sweep'[o] = sweep[o] /\ Active(o)
    BY <1>2
  <2>2. sweep[o].table \in Tables
    BY <2>1, PaceTypes
  <2>3. p # s
    BY <1>2, <2>1, <2>2 DEF Idle, Tables
  <2> QED BY <1>2, <2>1, <2>3 DEF Paces, Alone
<1>8. Behind'
  <2> SUFFICES ASSUME NEW o \in Sweeps, Active(o)', NEW i \in Ids,
                      OfTable(i) = sweep'[o].table, row'[i].status = "sent"
               PROVE  row'[i].age >= sweep'[o].since
    BY DEF Behind
  <2>1. o \in Sweeps \ {s} /\ sweep'[o] = sweep[o] /\ Active(o)
    BY <1>2
  <2>2. row'[i] = row[i]
    BY <1>6, <2>1
  <2> QED BY <2>1, <2>2 DEF Paces, Behind
<1>9. Cleared'
  <2> SUFFICES ASSUME NEW o \in Sweeps, sweep'[o].sending, NEW v,
                      v = User(Head(sweep'[o].list))
               PROVE  ~RateLimited(o, v)'
    BY DEF Cleared
  <2>1. o \in Sweeps \ {s} /\ sweep'[o] = sweep[o]
    BY <1>2 DEF Idle
  <2>2. Active(o) /\ ~RateLimited(o, v)
    BY <2>1, PaceTypes DEF Paces, Cleared
  <2> QED BY <1>6, <2>1, <2>2
<1>10. Spaced'
  <2> SUFFICES ASSUME NEW o \in Sweeps, NEW i \in Wrote(o, "sent")' PROVE SpacedAt(o, i)'
    BY DEF Spaced
  <2>1. o \in Sweeps \ {s}
    BY <1>2
  <2>2. i \in Wrote(o, "sent")
    BY <1>2, <2>1 DEF Wrote
  <2>3. Active(o) /\ SpacedAt(o, i)
    BY <2>1, <2>2, PaceTypes DEF Paces, Spaced
  <2> QED BY <1>6, <2>1, <2>2, <2>3
<1>11. ASSUME NEW u \in Audience, NEW t \in Tables PROVE PacedFor(u, t)'
  <2>0. PacedFor(u, t)
    BY DEF Paces, AllPaced
  <2>1. CASE ~\E n \in Wrote(s, "sent") : User(n) = u /\ OfTable(n) = t
    <3>1. \A i \in SentRows(u, t)' : i \in SentRows(u, t) /\ row'[i].age = row[i].age
      BY <1>4, <2>1 DEF SentRows
    <3>2. SentRows(u, t)' \subseteq SentRows(u, t)
      BY <3>1
    <3>3. \A i, j \in SentRows(u, t)' : row'[i].age - row'[j].age = row[i].age - row[j].age
      BY <3>1
    <3> QED BY <2>0, <3>2, <3>3, PacedKept
  <2>2. ASSUME NEW n \in Wrote(s, "sent"), User(n) = u, OfTable(n) = t PROVE PacedFor(u, t)'
    <3>1. n \in Ids /\ SpacedAt(s, n) /\ sweep[s].since \in Int
      BY <2>2, PaceTypes DEF Paces, Spaced
    <3>2. \A i \in Wrote(s, "sent") : User(i) = u => i = n
      BY <2>2 DEF RowsInv, SweepInv, SweepOK, Wrote
    <3>3. ASSUME NEW j \in SentRows(u, t)', j # n
          PROVE  /\ j \in SentRows(u, t) /\ j \in SentBy(s, n) /\ row'[j] = row[j]
                 /\ row[j].age \in Int /\ row[j].age - sweep[s].since > Gap
      <4>1. /\ j \in Ids /\ User(j) = u /\ OfTable(j) = t
            /\ row'[j].status = "sent" /\ row'[j].age < MaxAge
        BY DEF SentRows
      <4>2. j \notin Wrote(s, "sent")
        BY <3>2, <3>3, <4>1
      <4>3. j \notin DOMAIN sweep[s].wrote /\ row'[j] = row[j]
        BY <1>4, <4>1, <4>2
      <4>4. j \in SentRows(u, t) /\ j \in SentBy(s, n)
        BY <2>2, <4>1, <4>3 DEF SentRows, SentBy, Alike
      <4> QED BY <3>1, <4>1, <4>3, <4>4, PaceTypes DEF SpacedAt
    <3>4. n \in SentRows(u, t)' => row'[n].age = sweep[s].since
      <4>1. n \in SentRows(u, t)' => row'[n].status = "sent"
        BY DEF SentRows
      <4>2. n \in DOMAIN sweep[s].wrote /\ sweep[s].wrote[n] = "sent"
        BY DEF Wrote
      <4> QED BY <1>4, <3>1, <4>1, <4>2
    <3>5. ASSUME NEW i \in SentRows(u, t)', NEW j \in SentRows(u, t)', j # i
          PROVE  row'[i].age - row'[j].age > Gap \/ row'[j].age - row'[i].age > Gap
      <4>1. CASE i # n /\ j # n
        BY <2>0, <3>3, <3>5, <4>1 DEF PacedFor
      <4>2. CASE i = n
        <5>1. row'[j].age - row'[i].age > Gap
          BY <3>3, <3>4, <3>5, <4>2
        <5> QED BY <5>1
      <4>3. CASE j = n
        <5>1. row'[i].age - row'[j].age > Gap
          BY <3>3, <3>4, <3>5, <4>3
        <5> QED BY <5>1
      <4> QED BY <4>1, <4>2, <4>3
    <3>6. ASSUME NEW i \in SentRows(u, t)'
          PROVE  Cardinality(SameDay(u, t, i)') <= DailyCap[t]
      <4> DEFINE c == Cardinality(SameDay(u, t, i)')
                 cap == DailyCap[t]
      <4>1. cap \in Nat /\ cap > 0
        BY Caps
      <4>2. CASE i = n
        <5> DEFINE m == Cardinality(Near(s, n))
                   k == Cardinality(Near(s, n) \cup {n})
        <5>1. SameDay(u, t, i)' \subseteq Near(s, n) \cup {n}
          <6> SUFFICES ASSUME NEW j \in SameDay(u, t, i)', j # n PROVE j \in Near(s, n)
            OBVIOUS
          <6>1. j \in SentRows(u, t)' /\ row'[j].age - row'[i].age \in 0..Day
            BY DEF SameDay
          <6>2. j \in SentBy(s, n) /\ row[j].age - sweep[s].since \in 0..Day
            BY <3>3, <3>4, <3>6, <4>2, <6>1
          <6> QED BY <6>2, Numbers DEF Near
        <5>2. Near(s, n) \in SUBSET Ids /\ Near(s, n) \cup {n} \in SUBSET Ids
          BY <3>1 DEF Near, SentBy
        <5>3. IsFiniteSet(Near(s, n)) /\ m \in Nat /\ k \in Nat /\ c \in Nat /\ c <= k
          BY <5>1, <5>2, FewIds
        <5>4. k = IF n \in Near(s, n) THEN m ELSE m + 1
          BY <5>3, FS_AddElement
        <5>5. m < cap
          BY <2>2, <3>1 DEF SpacedAt
        <5> HIDE DEF m, k, c, cap
        <5> QED BY <4>1, <5>3, <5>4, <5>5 DEF c, cap
      <4>3. CASE i # n
        <5> DEFINE m == Cardinality(SameDay(u, t, i))
        <5>1. SameDay(u, t, i)' \subseteq SameDay(u, t, i)
          <6> SUFFICES ASSUME NEW j \in SameDay(u, t, i)' PROVE j \in SameDay(u, t, i)
            OBVIOUS
          <6>1. j \in SentRows(u, t)' /\ row'[j].age - row'[i].age \in 0..Day
            BY DEF SameDay
          <6>2. j # n
            <7>1. SUFFICES ASSUME j = n PROVE FALSE
              OBVIOUS
            <7>2. row'[j].age = sweep[s].since
              BY <3>4, <6>1, <7>1
            <7>3. row'[i].age = row[i].age /\ row[i].age - sweep[s].since > Gap
              BY <3>3, <3>6, <4>3
            <7>4. row[i].age \in Int
              BY <3>3, <3>6, <4>3
            <7> DEFINE a == row[i].age
                       b == sweep[s].since
            <7>5. b - a \in 0..Day /\ a - b > Gap /\ a \in Int /\ b \in Int
              BY <3>1, <6>1, <7>2, <7>3, <7>4
            <7> HIDE DEF a, b
            <7> QED BY <7>5, Numbers
          <6>3. row'[j].age - row'[i].age = row[j].age - row[i].age /\ j \in SentRows(u, t)
            BY <3>3, <3>6, <4>3, <6>1, <6>2
          <6>4. row[j].age - row[i].age \in 0..Day
            BY <6>1, <6>3
          <6> QED BY <6>3, <6>4 DEF SameDay
        <5>2. SameDay(u, t, i) \in SUBSET Ids
          BY DEF SameDay, SentRows
        <5>3. m \in Nat /\ c \in Nat /\ c <= m
          BY <5>1, <5>2, FewIds
        <5>4. m <= cap
          BY <2>0, <3>3, <3>6, <4>3 DEF PacedFor
        <5> HIDE DEF m, c, cap
        <5> QED BY <4>1, <5>3, <5>4 DEF c, cap
      <4> QED BY <4>2, <4>3
    <3> QED BY <3>5, <3>6 DEF PacedFor
  <2> QED BY <2>1, <2>2
<1> QED BY <1>7, <1>8, <1>9, <1>10, <1>11 DEF Paces, AllPaced

LEMMA FaultsGrow ==
    ASSUME RowsInv, [NudgesNext]_nudgesVars PROVE faults' = faults \/ faults' = faults + 1
<1>1. CASE Events
  BY <1>1 DEF Events, OpenFunnel, Expire, ExpireAgain, Connect, FinishFunnel, Buy, Block, Delete,
              Switch, BeginArm, Fault
<1>2. CASE Arms \/ Tick
  BY <1>2 DEF Arms, Arm, Tick
<1>3. ASSUME NEW s \in Sweeps, Work(s) \/ Crash(s) \/ \E t \in Tables : StartSweep(s, t)
      PROVE  faults' = faults \/ faults' = faults + 1
  BY <1>3 DEF Work, Check, Deliver, FinishSweep, Crash, StartSweep, Fault
<1>4. CASE UNCHANGED nudgesVars
  BY <1>4 DEF nudgesVars
<1> QED BY <1>1, <1>2, <1>3, <1>4 DEF NudgesNext

LEMMA PaceStep == ASSUME RowsInv, PaceInv, [NudgesNext]_nudgesVars PROVE PaceInv'
<1> SUFFICES ASSUME faults' = 0 PROVE Paces'
  BY DEF PaceInv
<1>1. faults \in Nat
  BY Numbers DEF RowsInv, TypeInv, HistoryInv
<1>2. faults = 0
  BY <1>1, FaultsGrow
<1>3. Paces /\ faults' = faults
  BY <1>2 DEF PaceInv
<1>4. \A i \in Ids : row[i] \in RowType
  BY DEF RowsInv, TypeInv, QueueInv
<1>5. CASE Events
  <2>1. sweep' = sweep
    BY <1>5 DEF Events, OpenFunnel, Expire, ExpireAgain, Connect, FinishFunnel, Buy, Block,
                Delete, Switch
  <2>2. ASSUME NEW i \in Ids, row'[i].status = "sent"
        PROVE  row[i].status = "sent" /\ row'[i].age = row[i].age
    <3>1. CASE row' = row
      BY <2>2, <3>1
    <3>2. ASSUME NEW u \in Audience, Connect(u) PROVE row[i].status = "sent" /\ row'[i] = row[i]
      <4> DEFINE ids == Silenced(u)
                 new == IF sub[u] = "trial" THEN {FreeId(u, t) : t \in Missing(u, "C")} ELSE {}
      <4>1. row'[i] = IF i \in ids THEN [row[i] EXCEPT !.status = "cancelled"]
                      ELSE IF i \in new
                           THEN [status |-> "pending", wait |-> Delay[Step(i)], age |-> 0]
                           ELSE row[i]
        BY <3>2 DEF Connect
      <4> HIDE DEF ids, new
      <4> QED BY <1>4, <2>2, <4>1 DEF RowType
    <3>3. ASSUME NEW u \in Audience, FinishFunnel(u)
          PROVE  row[i].status = "sent" /\ row'[i] = row[i]
      BY <1>4, <2>2, <3>3 DEF FinishFunnel, Cancelled, RowType
    <3>4. ASSUME NEW u \in Audience, Delete(u) PROVE row[i].status = "sent" /\ row'[i] = row[i]
      BY <2>2, <3>4 DEF Delete, Absent
    <3> QED BY <1>5, <3>1, <3>2, <3>3, <3>4
            DEF Events, OpenFunnel, Expire, ExpireAgain, Buy, Block, Switch, table
  <2> QED BY <1>3, <2>1, <2>2, PaceThin
<1>6. CASE Arms
  <2>1. PICK a \in arming : Arm(a)
    BY <1>6 DEF Arms
  <2>2. /\ sweep' = sweep
        /\ \A i \in Ids : row'[i].status = "sent" => row'[i] = row[i]
    BY <2>1 DEF Arm, Insert
  <2>3. \A i \in Ids : row'[i].status = "sent" =>
            row[i].status = "sent" /\ row'[i].age = row[i].age
    BY <2>2
  <2> QED BY <1>3, <2>2, <2>3, PaceThin
<1>7. CASE Tick
  BY <1>3, <1>7, PaceTick
<1>8. ASSUME NEW s \in Sweeps, Work(s) PROVE Paces'
  BY <1>3, <1>8, PaceCheck, PaceDeliver, PaceFinish DEF Work
<1>9. ASSUME NEW s \in Sweeps, Crash(s) PROVE Paces'
  BY <1>1, <1>3, <1>9 DEF Crash, Fault
<1>10. ASSUME NEW s \in Sweeps, NEW t \in Tables, StartSweep(s, t) PROVE Paces'
  BY <1>3, <1>10, PaceStart
<1>11. CASE UNCHANGED nudgesVars
  <2>1. sweep' = sweep /\ row' = row
    BY <1>11 DEF nudgesVars
  <2> QED BY <1>3, <2>1, PaceThin
<1> QED BY <1>5, <1>6, <1>7, <1>8, <1>9, <1>10, <1>11 DEF NudgesNext

LEMMA PaceInit == NudgesInit => PaceInv
<1> SUFFICES ASSUME NudgesInit PROVE Paces
  BY DEF PaceInv
<1>1. \A s \in Sweeps : /\ ~Active(s) /\ ~sweep[s].sending /\ Wrote(s, "sent") = {}
  BY DEF NudgesInit, Active, Idle, Wrote
<1>2. \A u, t : SentRows(u, t) = {}
  BY DEF NudgesInit, SentRows, Absent
<1>3. AllPaced
  BY <1>2 DEF AllPaced, PacedFor
<1> QED BY <1>1, <1>3 DEF Paces, Alone, Behind, Cleared, Spaced

LEMMA PaceSafe == PaceInv => Paced
<1> SUFFICES ASSUME AllPaced, NEW u \in Audience, NEW t \in Tables PROVE PacedFor(u, t)
  BY DEF PaceInv, Paces, Paced, PacedFor, SentRows, SameDay, OfTable
<1> QED BY DEF AllPaced

\* Users get each reminder once, but for what crashes, overlapping sweeps, lost answers
\* and chains armed twice add, one message each; and where nothing of the kind has
\* happened the messages of a table keep the gap and the cap of the day.
THEOREM NudgesAsPlanned == NudgesSpec => []SentAsPlanned
<1>1. NudgesInit => RowsInv /\ OnceInv /\ PaceInv
  BY RowsInit, OnceInit, PaceInit
<1>2. RowsInv /\ OnceInv /\ PaceInv /\ [NudgesNext]_nudgesVars => (RowsInv /\ OnceInv /\ PaceInv)'
  BY RowsStep, OnceStep, PaceStep
<1>3. RowsInv /\ OnceInv /\ PaceInv => SentAsPlanned
  BY TypesHold, OnceSafe, PaceSafe DEF SentAsPlanned, RowsInv
<1> QED BY <1>1, <1>2, <1>3, PTL DEF NudgesSpec
=============================================================================
