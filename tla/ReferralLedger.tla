--------------------------- MODULE ReferralLedger ---------------------------
(***************************************************************************)
(* The referral balance.  Commissions earn it; a user withdraws all of it  *)
(* as a payout (crypto or Stars) that an operator settles, or spends it on *)
(* a term of the subscription.  The balance is never stored: it is         *)
(*     EARNED - SPENT - WITHDRAWN,                                         *)
(* sums over three tables, read by separate statements before the write    *)
(* they justify, with no lock and READ COMMITTED isolation.                *)
(*                                                                         *)
(* A session is one request of a user in flight, a desk one operator.  One *)
(* database transaction, one group of reads, or one call of the panel is   *)
(* one action.  The three sums are kept as running totals.                 *)
(*                                                                         *)
(* Time is measured as in Payments: every plan lasts Term, Now is the      *)
(* present, an expiry of 0 has passed.  All amounts are in one unit.       *)
(***************************************************************************)
EXTENDS Integers, FiniteSets

CONSTANTS
    Users,       \* referrers
    Payments,    \* payments of the users they referred
    Payouts,     \* bound: payout ids
    Wallets,     \* addresses of crypto wallets
    None,        \* NULL in a column
    Sessions,    \* requests in flight
    Owner,       \* the user of each session
    Operators,   \* operators working the payout queue
    Commissions, \* what a commission may amount to
    Price,       \* of a term
    PayoutMin,   \* REFERRAL_PAYOUT_MIN_KOP
    StarsMin,    \* STARS_MIN_KOP
    StarsRate    \* STARS_RUB_RATE

Now  == 1
Term == 1

Kinds     == {"crypto", "stars", "balance"}
Methods   == {"crypto", "stars"}
Statuses  == {"none", "requested", "processing", "paid", "rejected"}
Open      == {"requested", "processing"}  \* PAYOUT_OPEN_STATUSES
Verbs     == {"start", "complete", "reject"}

ASSUME LedgerAssumption ==
    /\ None \notin Users \cup Payouts \cup Wallets
    /\ Owner \in [Sessions -> Users]
    /\ Commissions \subseteq Nat \ {0}
    /\ {Price, PayoutMin, StarsMin} \subseteq Nat
    /\ StarsRate \in Nat \ {0}

VARIABLES
    credited,   \* payments with a row in referral_events
    earned,     \* sum of referral_events.commission_kop of each user
    spent,      \* sum of balance_spends.amount_kop of each user
    withdrawn,  \* sum of payouts.amount_kop of each user where status = paid
    payout,     \* payouts table
    expire,     \* expire_at of each user's current subscription
    panel,      \* expiry the panel holds for each user
    session,    \* program counter and locals of each request
    desk,       \* what each operator has on screen, and the call under way
    sent,       \* history: the wallet an operator had on screen as processing
                \* when marking the payout paid
    torn,       \* history: users whose payout was paid between the reads of
                \* one of their requests
    raced,      \* history: users of whom one request wrote while another was
                \* past the reads that the write overtakes
    overruled   \* history: payouts closed by one operator while another had
                \* them loaded

sums  == <<credited, earned, spent, withdrawn>>
subs  == <<expire, panel>>
marks == <<torn, raced, overruled>>
vars  == <<sums, payout, subs, session, desk, sent, marks>>

-----------------------------------------------------------------------------

NoPayout == [user |-> None, method |-> "crypto", amount |-> 0, status |-> "none", wallet |-> None]
Quiet    == [step |-> "idle", kind |-> "crypto", balance |-> 0, target |-> 0]
Empty    == [step |-> "idle", payout |-> None, verb |-> "start", seen |-> "none", wallet |-> None]

Init ==
    /\ credited = {}
    /\ earned = [u \in Users |-> 0]
    /\ spent = [u \in Users |-> 0]
    /\ withdrawn = [u \in Users |-> 0]
    /\ payout = [p \in Payouts |-> NoPayout]
    /\ expire \in [Users -> {0, Now + Term}]
    /\ panel = expire
    /\ session = [s \in Sessions |-> Quiet]
    /\ desk = [o \in Operators |-> Empty]
    /\ sent = [p \in Payouts |-> None]
    /\ torn = {} /\ raced = {} /\ overruled = {}

\* ReferralSummaryDto.balance_kop and has_open_payout.
Balance(u) == earned[u] - spent[u] - withdrawn[u]
OpenOf(u)  == {p \in Payouts : payout[p].user = u /\ payout[p].status \in Open}

MaxOf(a, b) == IF a >= b THEN a ELSE b

-----------------------------------------------------------------------------
(* RecordReferralCommission: at most one row per payment.                   *)

RecordCommission(k, u, c) ==
    /\ k \notin credited
    /\ credited' = credited \cup {k}
    /\ earned' = [earned EXCEPT ![u] = @ + c]
    /\ UNCHANGED <<spent, withdrawn, payout, subs, session, desk, sent, marks>>

-----------------------------------------------------------------------------
(* RequestCryptoPayout, RequestPayoutStars, PayWithBalance.                 *)

Goto(s, step) == session' = [session EXCEPT ![s].step = step]
Finish(s)     == session' = [session EXCEPT ![s] = Quiet]

\* Other requests of the same user that have come to one of these steps.
Past == {"checked", "opened", "panelled"}  \* the gates are behind it
Rivals(s, steps) ==
    {t \in Sessions \ {s} : Owner[t] = Owner[s] /\ session[t].step \in steps}

\* A write that they have read past: nothing makes them look again.
Overtakes(s, steps) ==
    /\ raced' = IF Rivals(s, steps) # {} THEN raced \cup {Owner[s]} ELSE raced
    /\ UNCHANGED <<torn, overruled>>

\* GetReferralSummary reads the sums first; EARNED only grows and SPENT is the
\* user's own, so the order of the three reads does not show.
ReadSums(s, kind) ==
    /\ session[s].step = "idle"
    /\ session' = [session EXCEPT ![s] = [step |-> "sums", kind |-> kind,
                                          balance |-> Balance(Owner[s]), target |-> 0]]
    /\ UNCHANGED <<sums, payout, subs, desk, sent, marks>>

Least(kind) == CASE kind = "crypto"  -> PayoutMin
                 [] kind = "stars"   -> StarsMin
                 [] kind = "balance" -> Price

\* Mutations of Refused: an open payout is not looked at; the balance is not.
RefusedOnBalance(s) == session[s].balance < 0 \/ session[s].balance < Least(session[s].kind)
RefusedOnOpen(s) == OpenOf(Owner[s]) # {}

\* The gates: an open payout, a negative balance, less than the minimum.
Refused(s) ==
    \/ OpenOf(Owner[s]) # {}
    \/ session[s].balance < 0
    \/ session[s].balance < Least(session[s].kind)

\* ... and then whether a payout is open; the gates follow without a read.
ReadOpen(s) ==
    /\ session[s].step = "sums"
    /\ IF Refused(s) THEN Finish(s) ELSE Goto(s, "checked")
    /\ UNCHANGED <<sums, payout, subs, desk, sent, marks>>

WholeStars(amount) == amount - (amount % StarsRate)

\* What is withdrawn: all of the balance; whole Stars of it, or of the part the
\* website asked for.
Amounts(s) == LET b == session[s].balance IN
    IF session[s].kind = "crypto" THEN {b} ELSE {WholeStars(a) : a \in 1..b} \ {0}

CreatePayout(s, p, w) ==
    /\ session[s].step = "checked" /\ session[s].kind \in Methods
    /\ payout[p].status = "none"
    /\ \E a \in Amounts(s) :
          payout' = [payout EXCEPT ![p] =
                       [user |-> Owner[s], method |-> session[s].kind, amount |-> a,
                        status |-> "requested",
                        wallet |-> IF session[s].kind = "crypto" THEN w ELSE None]]
    /\ Overtakes(s, Past)
    /\ Finish(s)
    /\ UNCHANGED <<sums, subs, desk, sent>>

\* Mutation of Extended: the new term starts now.
ExtendedFromNow(e) == Now + Term

Extended(e) == MaxOf(e, Now) + Term

\* PayWithBalance: get_current inside the unit of work; the row it read is the
\* one it writes back.
ReadSubscription(s) ==
    /\ session[s].step = "checked" /\ session[s].kind = "balance"
    /\ session' = [session EXCEPT ![s].step = "opened", ![s].target = Extended(expire[Owner[s]])]
    /\ UNCHANGED <<sums, payout, subs, desk, sent, marks>>

\* Mutation of ExtendPanel: the panel is left to be updated later.
SkipPanel(s) ==
    /\ session[s].step = "opened"
    /\ Goto(s, "panelled")
    /\ UNCHANGED <<sums, payout, subs, desk, sent, marks>>

\* update_user, before the commit; its answer may be lost.
ExtendPanel(s) ==
    /\ session[s].step = "opened"
    /\ panel' = [panel EXCEPT ![Owner[s]] = session[s].target]
    /\ Goto(s, "panelled") \/ Finish(s)
    /\ UNCHANGED <<sums, payout, expire, desk, sent, marks>>

\* The debit and the new expiry are committed together.
CommitSpend(s) ==
    /\ session[s].step = "panelled"
    /\ spent' = [spent EXCEPT ![Owner[s]] = @ + Price]
    /\ expire' = [expire EXCEPT ![Owner[s]] = session[s].target]
    /\ Overtakes(s, Past \cup {"sums"})
    /\ Finish(s)
    /\ UNCHANGED <<credited, earned, withdrawn, payout, panel, desk, sent>>

\* An exception or a crash: what is not committed is rolled back.
Abandon(s) ==
    /\ session[s].step # "idle"
    /\ Finish(s)
    /\ UNCHANGED <<sums, payout, subs, desk, sent, marks>>

\* Mutation of Editable: the status is not looked at.
EditableOpen(p, u) ==
    payout[p].user = u /\ payout[p].method = "crypto" /\ payout[p].status \in Open

Editable(p, u) ==
    payout[p].user = u /\ payout[p].method = "crypto" /\ payout[p].status = "requested"

\* ChangeCryptoPayoutWallet: one guarded UPDATE.
ChangeWallet(u, w) ==
    /\ \E p \in Payouts : Editable(p, u)
    /\ payout' = [p \in Payouts |->
                    IF Editable(p, u) THEN [payout[p] EXCEPT !.wallet = w] ELSE payout[p]]
    /\ UNCHANGED <<sums, subs, session, desk, sent, marks>>

-----------------------------------------------------------------------------
(* The queue: StartPayout, CompletePayout, RejectPayout, RunCryptoBatch.    *)

\* The operator opens, or looks again at, the detail of an open payout.
Show(o, p) ==
    /\ desk[o].step \in {"idle", "shown"}
    /\ payout[p].status \in Open
    /\ desk' = [desk EXCEPT ![o] = [step |-> "shown", payout |-> p, verb |-> "start",
                                    seen |-> payout[p].status, wallet |-> payout[p].wallet]]
    /\ UNCHANGED <<sums, payout, subs, session, sent, marks>>

Loadable(p, verb) ==
    IF verb = "start" THEN payout[p].status = "requested" ELSE payout[p].status \in Open

\* _load_open_payout: a read, outside the unit of work that writes.
LoadOpenPayout(o, verb) ==
    /\ desk[o].step = "shown"
    /\ Loadable(desk[o].payout, verb)
    /\ desk' = [desk EXCEPT ![o].step = "loaded", ![o].verb = verb]
    /\ UNCHANGED <<sums, payout, subs, session, sent, marks>>

\* WITHDRAWN is a sum over the rows that are paid: a row counts once however
\* often it is marked, and no longer when its status moves on.
Settle(p, status) ==
    /\ payout' = [payout EXCEPT ![p].status = status]
    /\ withdrawn' = [withdrawn EXCEPT ![payout[p].user] =
                       @ + (IF status = "paid" THEN payout[p].amount ELSE 0)
                         - (IF payout[p].status = "paid" THEN payout[p].amount ELSE 0)]

LeaveDesk(o) == desk' = [desk EXCEPT ![o] = Empty]

\* The other operators who loaded the payout as open will not look again.
Overrules(o) == LET p == desk[o].payout IN
    overruled' = IF \E q \in Operators \ {o} : desk[q].step = "loaded" /\ desk[q].payout = p
                 THEN overruled \cup {p} ELSE overruled

MarkProcessing(o) ==
    /\ desk[o].step = "loaded" /\ desk[o].verb = "start"
    /\ Settle(desk[o].payout, "processing")
    /\ LeaveDesk(o)
    /\ UNCHANGED <<credited, earned, spent, subs, session, sent, marks>>

MarkPaid(o) == LET p == desk[o].payout  u == payout[p].user IN
    /\ desk[o].step = "loaded" /\ desk[o].verb = "complete"
    /\ Settle(p, "paid")
    /\ sent' = IF desk[o].seen = "processing" THEN [sent EXCEPT ![p] = desk[o].wallet] ELSE sent
    /\ torn' = IF \E s \in Sessions : Owner[s] = u /\ session[s].step = "sums"
               THEN torn \cup {u} ELSE torn
    /\ Overrules(o)
    /\ LeaveDesk(o)
    /\ UNCHANGED <<credited, earned, spent, subs, session, raced>>

MarkRejected(o) ==
    /\ desk[o].step = "loaded" /\ desk[o].verb = "reject"
    /\ Settle(desk[o].payout, "rejected")
    /\ Overrules(o)
    /\ LeaveDesk(o)
    /\ UNCHANGED <<credited, earned, spent, subs, session, sent, torn, raced>>

\* The operator turns to something else, or the call fails before it commits.
Leave(o) ==
    /\ desk[o].step # "idle"
    /\ LeaveDesk(o)
    /\ UNCHANGED <<sums, payout, subs, session, sent, marks>>

\* Mutation of Collectable: paid and rejected rows are collected again.
CollectableAny(r) == r.method = "crypto" /\ r.status # "none"

Collectable(r) == r.method = "crypto" /\ r.status = "requested"

\* The Monday job; it fires only when there is something to collect.
RunCryptoBatch ==
    /\ \E p \in Payouts : Collectable(payout[p])
    /\ payout' = [p \in Payouts |-> IF Collectable(payout[p])
                                    THEN [payout[p] EXCEPT !.status = "processing"]
                                    ELSE payout[p]]
    /\ UNCHANGED <<sums, subs, session, desk, sent, marks>>

-----------------------------------------------------------------------------

SessionStep(s) ==
    \/ \E kind \in Kinds : ReadSums(s, kind)
    \/ ReadOpen(s)
    \/ \E p \in Payouts, w \in Wallets : CreatePayout(s, p, w)
    \/ ReadSubscription(s) \/ ExtendPanel(s) \/ CommitSpend(s) \/ Abandon(s)

DeskStep(o) ==
    \/ \E p \in Payouts : Show(o, p)
    \/ \E verb \in Verbs : LoadOpenPayout(o, verb)
    \/ MarkProcessing(o) \/ MarkPaid(o) \/ MarkRejected(o) \/ Leave(o)

Next ==
    \/ \E k \in Payments, u \in Users, c \in Commissions : RecordCommission(k, u, c)
    \/ \E s \in Sessions : SessionStep(s)
    \/ \E u \in Users, w \in Wallets : ChangeWallet(u, w)
    \/ \E o \in Operators : DeskStep(o)
    \/ RunCryptoBatch

Spec == Init /\ [][Next]_vars

-----------------------------------------------------------------------------
(* Properties.  The code keeps no lock and re-reads nothing before a write, *)
(* so each says what it costs: two requests of a user where one overtook    *)
(* the other, or two operators where one closed what the other had loaded.  *)

PayoutType == [user : Users \cup {None}, method : Methods, amount : Nat,
               status : Statuses, wallet : Wallets \cup {None}]
SessionType == [step : {"idle", "sums", "checked", "opened", "panelled"}, kind : Kinds,
                balance : Int, target : Nat]
DeskType == [step : {"idle", "shown", "loaded"}, payout : Payouts \cup {None}, verb : Verbs,
             seen : Statuses, wallet : Wallets \cup {None}]

\* Every variable keeps its type; a payout has a user from the moment it exists.
TypeOK ==
    /\ credited \subseteq Payments
    /\ earned \in [Users -> Nat]
    /\ spent \in [Users -> Nat]
    /\ withdrawn \in [Users -> Int]
    /\ payout \in [Payouts -> PayoutType]
    /\ \A p \in Payouts : payout[p].status # "none" => payout[p].user \in Users
    /\ expire \in [Users -> Nat]
    /\ panel \in [Users -> Nat]
    /\ session \in [Sessions -> SessionType]
    /\ desk \in [Operators -> DeskType]
    /\ sent \in [Payouts -> Wallets \cup {None}]
    /\ torn \subseteq Users /\ raced \subseteq Users /\ overruled \subseteq Payouts

Undisturbed(u) == u \notin raced /\ \A p \in overruled : payout[p].user # u

\* "Only one open payout (requested/processing) per user is allowed (enforced
\* upstream)" (models/referral_ledger.py:55-56).  The check and the insert are
\* separate transactions: two open payouts need two requests of the user past
\* the check together, or an operator marking a payout another had closed.
SingleOpenPayout ==
    \A p, q \in Payouts :
        (payout[p].status \in Open /\ payout[q].status \in Open
           /\ payout[p].user = payout[q].user /\ Undisturbed(payout[p].user)) => p = q

\* What a user has been promised, an open payout, is on the balance, and the
\* balance is never negative.
Covered(u) ==
    /\ Balance(u) >= 0
    /\ \A p \in OpenOf(u) : payout[p].amount <= Balance(u)

\* "Full-cover only: allowed iff the balance >= plan price" (balance.py:48), and
\* "Preconditions: Баланс >= REFERRAL_PAYOUT_MIN_KOP" (payout.py:36).  A balance
\* is overdrawn only by a request whose two reads, the sums and the open payout,
\* fell on either side of the moment its payout was marked paid, by two
\* requests that overtook each other, or by two operators.
NoOverdraftUnlessTorn == \A u \in Users : u \in torn \/ ~Undisturbed(u) \/ Covered(u)

\* Money that left the shop stays on the books: a paid payout is never moved
\* back.  The three UPDATEs have no condition on the status, so it is up to what
\* the operators loaded: only one who loaded the payout before another closed it
\* can move it, whatever the Monday job does meanwhile.
PaidIsFinal ==
    [][\A p \in Payouts :
          payout[p].status = "paid" /\ p \notin overruled => payout'[p].status = "paid"]_vars

\* A payout the operator saw in processing is recorded as paid to the wallet
\* that was on screen: the user cannot change it under the operator's hands
\* (update_open_crypto_wallet is guarded on requested).
PaidToTheWalletShown == \A p \in Payouts : sent[p] # None => payout[p].wallet = sent[p]

\* Each debit of the balance buys a whole term on top of the expiry in force
\* when it is committed, and no expiry moves without a debit; the debit after one
\* that overtook it may write over the term that one bought.
SpendsExtend ==
    [][\A u \in Users \ raced :
          /\ spent'[u] # spent[u] => expire'[u] = MaxOf(expire[u], Now) + Term
          /\ expire'[u] # expire[u] => spent'[u] = spent[u] + Price]_vars

\* The panel never cuts a user off before the expiry the database promises: a
\* failed payment may leave it ahead, never behind, unless two requests of the
\* user overtook each other.
PanelNeverBehind == \A u \in Users \ raced : panel[u] >= expire[u]
=============================================================================
