---------------------------- MODULE AccountMerge ----------------------------
(***************************************************************************)
(* Absorbing one account into another: AccountMergeService, reached from a *)
(* Telegram link, a confirmed e-mail and a linked OAuth provider, against  *)
(* what else writes rows of either account: purchases, trials, payout      *)
(* requests, commissions and referral attachment.                          *)
(*                                                                         *)
(* A merge loads both accounts, reads their subscriptions, and then, in a  *)
(* transaction, repoints the children it sees (Repoint) and deletes the    *)
(* absorbed account, whose foreign keys cascade (Commit).  The panel is    *)
(* cleaned up after the commit.  Rows of subscriptions, payouts, referral  *)
(* events and code aliases stand for every table with a user_id.           *)
(***************************************************************************)
EXTENDS Integers, FiniteSets

CONSTANTS
    Accounts,   \* users.id; an account's referral code and first row have its number
    MaxRow,     \* bound on subscriptions; payouts are bounded alike
    Payments,   \* payments that may earn a commission
    Ops,        \* operations in flight at once
    Kinds,      \* kinds of operation that are begun
    Starts,     \* initial tables
    MaxBegun,   \* bound on operations begun, trials, expiries and payouts taken up
    Faults,     \* faults that may occur: "refused", "crash"
    MaxFaults,  \* bound on how many
    None

\* The tables: telegram_id and email of an account, a subscription with user_remna_id and
\* whether it is not a trial, not DELETED and not expired, a payout, a referral event.
Ids == [tg : (Nat \ Accounts) \cup {None}, mail : Nat \cup {None}]

Subscriptions ==
    [user : Accounts, remna : Nat, paid : BOOLEAN, live : BOOLEAN, ahead : BOOLEAN]

PayoutRows == [user : Accounts, status : {"requested", "processing", "rejected"}]

EventRows == [referrer : Accounts, referred : Accounts]

\* Tables as they are before anything merged: telegram ids are unique, a subscription has
\* the number and the panel's user of its account, one payout is open, nobody invited
\* themselves.
Legal(s) ==
    /\ s.id \in [Accounts -> Ids]
    /\ s.row \in [1..MaxRow -> Subscriptions \cup {None}]
    /\ s.payout \in [1..MaxRow -> PayoutRows \cup {None}]
    /\ s.event \in [Payments -> EventRows \cup {None}]
    /\ s.inviter \in [Accounts -> Accounts \cup {None}]
    /\ \A u, v \in Accounts : u # v /\ s.id[u].tg # None => s.id[u].tg # s.id[v].tg
    /\ \A r \in 1..MaxRow : s.row[r] # None =>
          r \in Accounts /\ s.row[r].user = r
          /\ s.row[r].remna = IF s.id[r].tg # None THEN s.id[r].tg ELSE r
    /\ \A j, k \in 1..MaxRow :
          /\ j # k /\ s.payout[j] # None /\ s.payout[k] # None
          /\ s.payout[j].status # "rejected" /\ s.payout[k].status # "rejected"
          => s.payout[j].user # s.payout[k].user
    /\ \A p \in Payments : s.event[p] # None => s.event[p].referrer # s.event[p].referred
    /\ \A u \in Accounts : s.inviter[u] # u

ASSUME MergeAssumption ==
    /\ Accounts \subseteq 1..MaxRow /\ MaxRow \in Nat
    /\ {MaxBegun, MaxFaults} \subseteq Nat
    /\ Kinds \subseteq {"merge", "buy", "request", "commission", "attach"}
    /\ None \notin Nat /\ None \notin Subscriptions \cup PayoutRows \cup EventRows
    /\ \A s \in Starts : Legal(s)

VARIABLES
    exists,     \* accounts that have a row in users
    id,         \* telegram and e-mail of each
    unspent,    \* is_trial_available
    current,    \* current_subscription_id
    row,        \* subscriptions
    panel,      \* names of the panel's users, which stand for their ids
    inviter,    \* referrals: who invited whom
    event,      \* referral_events by payment
    payout,     \* payouts
    alias,      \* referral_code_aliases
    op,         \* program counter and locals of each operation
    heir,       \* history: the account that now stands for each
    earned,     \* history: who earned each commission from whom, when it was recorded
    lost,       \* history: children deleted by a cascade
    overlapped, \* history: kinds of operation a merge was overlapped by
    begun,      \* what MaxBegun bounds
    faults      \* number of faults

tables  == <<exists, id, unspent, current, row, inviter, event, payout, alias>>
history == <<heir, earned, lost>>
vars    == <<exists, id, unspent, current, row, panel, inviter, event, payout, alias, op,
             heir, earned, lost, overlapped, begun, faults>>

-----------------------------------------------------------------------------

Idle == [kind |-> "none", pc |-> "idle", u |-> None, v |-> None, how |-> "none",
         seen |-> None, best |-> None, moved |-> {}, reject |-> {}, orphans |-> {}]

Init ==
    /\ \E s \in Starts :
         /\ id = s.id /\ inviter = s.inviter
         /\ row = s.row /\ payout = s.payout /\ event = s.event /\ earned = s.event
         /\ current = [u \in Accounts |-> IF row[u] = None THEN None ELSE u]
         /\ unspent = [u \in Accounts |-> row[u] = None]
         /\ panel = {row[r].remna : r \in {x \in DOMAIN row : row[x] # None}}
    /\ exists = Accounts
    /\ alias = [u \in Accounts |-> None]
    /\ op = [o \in Ops |-> Idle]
    /\ heir = [u \in Accounts |-> u] /\ lost = {}
    /\ overlapped = {} /\ begun = 0 /\ faults = 0

Fault(kind) == kind \in Faults /\ faults < MaxFaults /\ faults' = faults + 1

Running(kind) == {o \in Ops : op[o].kind = kind}

Counted == begun < MaxBegun /\ begun' = begun + 1

\* What else runs is one operation at a time; how those race each other is the matter
\* of their own modules.
Begin(o, q) ==
    /\ q.kind = "merge" \/ \A p \in Ops : op[p].kind \in {"none", "merge"}
    /\ q.kind \in Kinds /\ op[o].kind = "none" /\ Counted
    /\ op' = [op EXCEPT ![o] = q]
    /\ overlapped' = overlapped
          \cup (IF Running("merge") # {} THEN {q.kind} ELSE {})
          \cup (IF q.kind = "merge" THEN {op[p].kind : p \in Ops} \ {"none"} ELSE {})

Drop(o) == op' = [op EXCEPT ![o] = Idle]

At(o, kind, pc) == op[o].kind = kind /\ op[o].pc = pc

\* The children of an account, as the transaction that asks sees them.
Rows(u)    == {<<"row", r>> : r \in {x \in DOMAIN row : row[x] # None /\ row[x].user = u}}
Payouts(u) == {<<"payout", k>> : k \in {x \in DOMAIN payout : payout[x] # None /\ payout[x].user = u}}
Events(u)  == {<<"event", p>> : p \in {x \in Payments :
                    event[x] # None /\ u \in {event[x].referrer, event[x].referred}}}
Edges(u)   == {<<"edge", x>> : x \in {y \in Accounts :
                    inviter[y] # None /\ u \in {y, inviter[y]}}}
Codes(u)   == {<<"alias", c>> : c \in {x \in Accounts : alias[x] = u}}

Children(u) == Rows(u) \cup Payouts(u) \cup Events(u) \cup Edges(u) \cup Codes(u)

\* Rows an open transaction has written.
Locked == UNION {op[o].moved \cup op[o].reject : o \in Ops}

-----------------------------------------------------------------------------
(* AccountMergeService.merge                                                *)

\* Mutation of Mergeable: two Telegram accounts are merged by an e-mail.
MergeableAny(how, s, l) == how = "email" /\ id[l].mail # None

\* What the callers check of the two accounts they loaded.
Mergeable(how, s, l) ==
    \/ how = "telegram" /\ id[s].tg = None /\ id[l].tg # None
    \/ how = "email" /\ id[l].mail # None /\ (id[s].tg = None \/ id[l].tg = None)
    \/ how = "oauth" /\ (id[s].tg = None \/ id[l].tg = None)

Ask(o) ==
    /\ \E s \in exists, l \in exists, how \in {"telegram", "email", "oauth"} :
         /\ s # l /\ Mergeable(how, s, l)
         /\ Begin(o, [Idle EXCEPT !.kind = "merge", !.pc = "subs", !.u = s, !.v = l, !.how = how,
               !.seen = [s |-> id[s], l |-> id[l],
                         spends |-> unspent[s] /\ ~unspent[l]]])
    /\ UNCHANGED <<tables, panel, history, faults>>

\* Mutation of ActivePaid: nothing is refused.
ActivePaidNever(r) == FALSE

ActivePaid(r) == r # None /\ row[r].ahead /\ row[r].paid

Rank(r) == (IF row[r].ahead THEN 2 ELSE 0) + (IF row[r].paid THEN 1 ELSE 0)

\* _pick_current; of two alike the later expiry, either one here.
Best(c) == {x \in c : \A y \in c : Rank(x) >= Rank(y)}

ReadSubs(o) == LET s == op[o].u  l == op[o].v  c == {current[s], current[l]} \ {None} IN
    /\ At(o, "merge", "subs")
    /\ IF ActivePaid(current[s]) /\ ActivePaid(current[l])
       THEN Drop(o)
       ELSE \E b \in (IF c = {} THEN {None} ELSE Best(c)) :
              op' = [op EXCEPT ![o].pc = "repoint", ![o].best = b]
    /\ UNCHANGED <<tables, panel, history, overlapped, begun, faults>>

\* Mutation of Alive: nothing tells that the account one acts from is gone.
AliveAssumed(u) == TRUE

\* A foreign key tells, or an update that returns no row.
Alive(u) == u \in exists

Open(k) == payout[k] # None /\ payout[k].status \in {"requested", "processing"}

\* Mutation of Superseded: every open payout is kept.
SupersededNone(open) == {}

\* _collapse_open_payouts keeps one in processing before one requested, then the oldest.
Superseded(open) ==
    {k \in open : \E j \in open \ {k} :
        \/ payout[j].status = "processing" /\ payout[k].status = "requested"
        \/ payout[j].status = payout[k].status /\ j < k}

\* reassign_children; waits for rows another transaction has written.
Repoint(o) == LET s == op[o].u  l == op[o].v IN
    /\ At(o, "merge", "repoint") /\ Alive(s)
    /\ LET open == {k \in DOMAIN payout : Open(k) /\ payout[k].user \in {s, l}}
           out  == {<<"payout", k>> : k \in Superseded(open)}
       IN /\ (Children(l) \cup out) \cap Locked = {}
          /\ op' = [op EXCEPT ![o].pc = "commit", ![o].moved = Children(l), ![o].reject = out]
    /\ UNCHANGED <<tables, panel, history, overlapped, begun, faults>>

\* The identity the survivor ends up with; an attribute that did not change from what
\* was loaded is not written.
Stamped(o) == LET q == op[o]  s == q.seen.s  l == q.seen.l IN
    [tg   |-> IF s.tg = None /\ l.tg # None THEN l.tg ELSE id[q.u].tg,
     mail |-> IF q.how = "email" \/ (q.how = "oauth" /\ s.mail = None /\ l.mail # None)
              THEN l.mail ELSE id[q.u].mail]

\* Mutation of Adopted: the survivor takes over what invited the absorbed account.
AdoptedAlways(o) == LET s == op[o].u  l == op[o].v IN inviter[l]

\* The survivor keeps who invited it, or else takes over who invited the absorbed
\* account; an edge between the two is dropped.
Adopted(o) == LET s == op[o].u  l == op[o].v IN
    IF inviter[s] \notin {None, l} THEN inviter[s]
    ELSE IF <<"edge", l>> \in op[o].moved /\ inviter[l] # s THEN inviter[l] ELSE None

\* The new edge of the survivor is in the unique index before the commit.
Adopting(u) == \E o \in Ops : At(o, "merge", "commit") /\ op[o].u = u /\ Adopted(o) # None

\* The unique indexes, the foreign keys and the row count of the update.
Possible(o) == LET q == op[o]  n == Stamped(o) IN
    /\ Alive(q.u)
    /\ \A x \in exists \ {q.u, q.v} : /\ n.tg # None => id[x].tg # n.tg
                                      /\ n.mail # None => id[x].mail # n.mail
    /\ q.best # None =>
          row[q.best] # None /\ (row[q.best].user = q.v => <<"row", q.best>> \in q.moved)

\* The transactions the delete waits for: they point children at the account, or have
\* written a child that the cascade reaches.
Awaited(o) == {p \in Ops \ {o} :
    /\ At(p, "merge", "commit")
    /\ \/ op[p].u = op[o].v
       \/ Children(op[o].v) \cap (op[p].moved \cup op[p].reject) # {}}

\* Mutation of Keys: a column is forgotten.
KeysButReferred == {"user", "referrer"}

\* The columns that refer to users.
Keys == {"user", "referrer", "referred"}

\* A child of the absorbed account goes to the survivor if Repoint saw it, and is
\* deleted with the account if not.
Follow(o, tag, i, rec) == LET s == op[o].u  l == op[o].v IN
    IF rec = None \/ \A f \in DOMAIN rec \cap Keys : rec[f] # l THEN rec
    ELSE IF <<tag, i>> \in op[o].moved
         THEN [f \in DOMAIN rec |-> IF f \in Keys /\ rec[f] = l THEN s ELSE rec[f]]
         ELSE None

\* Mutation of Between: every commission of either is deleted.
BetweenAny(o, rec) == rec # None /\ {rec.referrer, rec.referred} \cap {op[o].u, op[o].v} # {}

\* A commission one of the accounts earned from the other.
Between(o, rec) == rec # None /\ {rec.referrer, rec.referred} = {op[o].u, op[o].v}

\* Mutation of Retired: every row stays live.
RetiredNone(o, rec) == FALSE

\* _retire_losing_subscriptions: what is not of the kept panel user.
Retired(o, rec) ==
    /\ rec # None /\ op[o].best # None
    /\ rec.user = op[o].u /\ rec.remna # row[op[o].best].remna

\* Mutation of Spent: the trial of the account one acts from stands.
SpentNot(o) == FALSE

\* _merge_scalars: written if it changes what was loaded.
Spent(o) == op[o].seen.spends

\* The foreign keys to users cascade, the one to the current subscription is set to null.
Commit(o) ==
    LET s == op[o].u  l == op[o].v
        rows == [r \in DOMAIN row |-> Follow(o, "row", r, row[r])]
    IN
    /\ At(o, "merge", "commit") /\ Possible(o) /\ Awaited(o) = {}
    /\ exists' = exists \ {l}
    /\ id' = [id EXCEPT ![s] = Stamped(o), ![l] = [tg |-> None, mail |-> None]]
    /\ unspent' = [unspent EXCEPT ![s] = @ /\ ~Spent(o), ![l] = FALSE]
    /\ current' = [u \in Accounts |->
          LET r == IF u = s /\ op[o].best # None THEN op[o].best ELSE current[u]
          IN IF u = l \/ r = None THEN None ELSE IF rows[r] = None THEN None ELSE r]
    /\ row' = [r \in DOMAIN row |-> IF Retired(o, rows[r]) THEN [rows[r] EXCEPT !.live = FALSE]
                                                         ELSE rows[r]]
    /\ payout' = [k \in DOMAIN payout |-> LET kept == Follow(o, "payout", k, payout[k]) IN
          IF <<"payout", k>> \in op[o].reject THEN [kept EXCEPT !.status = "rejected"] ELSE kept]
    /\ event' = [p \in Payments |-> IF Between(o, event[p]) THEN None
                                    ELSE Follow(o, "event", p, event[p])]
    /\ inviter' = [u \in Accounts |->
          CASE u = s -> Adopted(o)
            [] u = l -> None
            [] OTHER -> IF inviter[u] # l THEN inviter[u]
                        ELSE IF <<"edge", u>> \in op[o].moved THEN s ELSE None]
    /\ alias' = [c \in Accounts |->
          IF c = l /\ l \in exists THEN s
          ELSE IF alias[c] # l THEN alias[c]
          ELSE IF <<"alias", c>> \in op[o].moved THEN s ELSE None]
    /\ heir' = [u \in Accounts |-> IF l \in exists /\ heir[u] = l THEN s ELSE heir[u]]
    /\ lost' = lost \cup (Children(l) \ op[o].moved)
    /\ op' = [op EXCEPT ![o] = [Idle EXCEPT !.kind = "merge", !.pc = "panel",
                  !.orphans = {rows[r].remna : r \in {x \in DOMAIN row : Retired(o, rows[x])}}]]
    /\ UNCHANGED <<panel, earned, overlapped, begun, faults>>

\* Rolled back: a constraint, or a deadlock with the opposite merge.
MergeFails(o) ==
    /\ \/ At(o, "merge", "repoint") /\ ~Alive(op[o].u)
       \/ At(o, "merge", "commit")
          /\ (~Possible(o) \/ \E p \in Awaited(o) : o \in Awaited(p))
    /\ Drop(o)
    /\ UNCHANGED <<tables, panel, history, overlapped, begun, faults>>

\* Each panel user left over is deleted, best effort.
CleanUp(o) ==
    /\ At(o, "merge", "panel")
    /\ IF op[o].orphans = {} THEN Drop(o) /\ UNCHANGED <<panel, faults>>
       ELSE \E x \in op[o].orphans :
              /\ op' = [op EXCEPT ![o].orphans = @ \ {x}]
              /\ \/ panel' = panel \ {x} /\ UNCHANGED faults
                 \/ Fault("refused") /\ UNCHANGED panel
    /\ UNCHANGED <<tables, history, overlapped, begun>>

Crash(o) ==
    /\ op[o].kind # "none" /\ Fault("crash") /\ Drop(o)
    /\ UNCHANGED <<tables, panel, history, overlapped, begun>>

-----------------------------------------------------------------------------
(* What else writes rows of an account                                      *)

\* Ids after every one a table has given out.
NextIds(tbl, tag) == {i \in DOMAIN tbl :
    /\ tbl[i] = None /\ \A j \in DOMAIN tbl : tbl[j] # None \/ <<tag, j>> \in lost => j < i}

\* The bound on rows leaves one.
Room(tbl, tag) == NextIds(tbl, tag) # {}

NextId(tbl, tag) == CHOOSE i \in NextIds(tbl, tag) : TRUE

\* UserDto.remna_name
Name(u) == IF id[u].tg # None THEN id[u].tg ELSE u

NewRow(u, remna, paid) ==
    [user |-> u, remna |-> remna, paid |-> paid, live |-> TRUE, ahead |-> TRUE]

\* PurchaseSubscription reads the current subscription, then picks its branch.
ReadCurrent(o) ==
    /\ \E u \in exists, how \in {"renew", "change"} :
         Begin(o, [Idle EXCEPT !.kind = "buy", !.pc = "write", !.u = u,
               !.seen = IF current[u] = None THEN Name(u) ELSE current[u],
               !.how = IF current[u] = None THEN "new"
                       ELSE IF ~row[current[u]].paid THEN "change" ELSE how])
    /\ UNCHANGED <<tables, panel, history, faults>>

\* The panel refuses a name it knows.  The row of an account that is gone cannot be
\* inserted; the panel's user stays.
BuyNew(o) == LET u == op[o].u  name == op[o].seen IN
    /\ At(o, "buy", "write") /\ op[o].how = "new" /\ Room(row, "row")
    /\ panel' = panel \cup {name}
    /\ IF u \in exists /\ name \notin panel
       THEN /\ row' = [row EXCEPT ![NextId(row, "row")] = NewRow(u, name, TRUE)]
            /\ current' = [current EXCEPT ![u] = NextId(row, "row")]
            /\ unspent' = [unspent EXCEPT ![u] = FALSE]
       ELSE UNCHANGED <<row, current, unspent>>
    /\ Drop(o)
    /\ UNCHANGED <<exists, id, inviter, event, payout, alias, history, overlapped, begun, faults>>

Renew(o) == LET r == op[o].seen IN
    /\ At(o, "buy", "write") /\ op[o].how = "renew" /\ <<"row", r>> \notin Locked
    /\ row' = IF row[r] # None /\ row[r].remna \in panel
              THEN [row EXCEPT ![r].ahead = TRUE] ELSE row
    /\ Drop(o)
    /\ UNCHANGED <<exists, id, unspent, current, panel, inviter, event, payout, alias, history,
                   overlapped, begun, faults>>

Change(o) == LET u == op[o].u  r == op[o].seen IN
    /\ At(o, "buy", "write") /\ op[o].how = "change" /\ <<"row", r>> \notin Locked
    /\ Room(row, "row")
    /\ IF u \in exists /\ row[r] # None /\ row[r].remna \in panel
       THEN /\ row' = [row EXCEPT ![r].live = FALSE,
                                  ![NextId(row, "row")] = NewRow(u, row[r].remna, TRUE)]
            /\ current' = [current EXCEPT ![u] = NextId(row, "row")]
       ELSE UNCHANGED <<row, current>>
    /\ Drop(o)
    /\ UNCHANGED <<exists, id, unspent, panel, inviter, event, payout, alias, history,
                   overlapped, begun, faults>>

\* ActivateTrialSubscription, at once.
StartTrial(u) ==
    /\ u \in exists /\ unspent[u] /\ Name(u) \notin panel
    /\ Counted /\ Room(row, "row")
    /\ row' = [row EXCEPT ![NextId(row, "row")] = NewRow(u, Name(u), FALSE)]
    /\ panel' = panel \cup {Name(u)} /\ current' = [current EXCEPT ![u] = NextId(row, "row")]
    /\ unspent' = [unspent EXCEPT ![u] = FALSE]
    /\ overlapped' = overlapped \cup (IF Running("merge") # {} THEN {"trial"} ELSE {})
    /\ UNCHANGED <<exists, id, inviter, event, payout, alias, op, history, faults>>

Expire(r) ==
    /\ row[r] # None /\ row[r].live /\ row[r].ahead /\ <<"row", r>> \notin Locked
    /\ Counted
    /\ row' = [row EXCEPT ![r].ahead = FALSE]
    /\ UNCHANGED <<exists, id, unspent, current, panel, inviter, event, payout, alias, op,
                   history, overlapped, faults>>

\* RequestCryptoPayout and its like: no open payout, then the insert.
AskPayout(o) ==
    /\ \E u \in exists :
         /\ \A k \in DOMAIN payout : Open(k) => payout[k].user # u
         /\ Begin(o, [Idle EXCEPT !.kind = "request", !.pc = "write", !.u = u])
    /\ UNCHANGED <<tables, panel, history, faults>>

CreatePayout(o) ==
    /\ At(o, "request", "write") /\ Room(payout, "payout")
    /\ IF op[o].u \in exists
       THEN payout' = [payout EXCEPT ![NextId(payout, "payout")] =
                          [user |-> op[o].u, status |-> "requested"]]
       ELSE UNCHANGED payout
    /\ Drop(o)
    /\ UNCHANGED <<exists, id, unspent, current, row, panel, inviter, event, alias, history,
                   overlapped, begun, faults>>

\* An operator takes it up, or the weekly batch does.
StartPayout(k) ==
    /\ payout[k] # None /\ payout[k].status = "requested" /\ <<"payout", k>> \notin Locked
    /\ Counted
    /\ payout' = [payout EXCEPT ![k].status = "processing"]
    /\ UNCHANGED <<exists, id, unspent, current, row, panel, inviter, event, alias, op, history,
                   overlapped, faults>>

\* RecordReferralCommission reads who invited the buyer, then inserts.
ReadInviter(o) ==
    /\ \E u \in exists, p \in Payments :
         /\ inviter[u] # None /\ event[p] = None /\ <<"event", p>> \notin lost /\ earned[p] = None
         /\ Begin(o, [Idle EXCEPT !.kind = "commission", !.pc = "write", !.u = u,
                                  !.v = inviter[u], !.seen = p])
    /\ UNCHANGED <<tables, panel, history, faults>>

AddCommission(o) == LET p == op[o].seen
                        e == [referrer |-> op[o].v, referred |-> op[o].u] IN
    /\ At(o, "commission", "write")
    /\ IF {op[o].u, op[o].v} \subseteq exists /\ earned[p] = None
       THEN event' = [event EXCEPT ![p] = e] /\ earned' = [earned EXCEPT ![p] = e]
       ELSE UNCHANGED <<event, earned>>
    /\ Drop(o)
    /\ UNCHANGED <<exists, id, unspent, current, row, panel, inviter, payout, alias, heir, lost,
                   overlapped, begun, faults>>

\* Mutation of OwnerOf: aliases are not asked.
OwnerOfLive(c) == IF c \in exists THEN c ELSE None

\* get_by_referral_code: the live code of an account, or of one it absorbed.
OwnerOf(c) == IF c \in exists THEN c ELSE alias[c]

MayAttach(u, v) == v \notin {None, u} /\ inviter[u] = None

\* AttachReferral reads the owner of the code and the chain, then inserts.
ReadCode(o) ==
    /\ \E u \in exists, c \in Accounts :
         /\ MayAttach(u, OwnerOf(c))
         /\ Begin(o, [Idle EXCEPT !.kind = "attach", !.pc = "write", !.u = u, !.v = OwnerOf(c)])
    /\ UNCHANGED <<tables, panel, history, faults>>

CreateReferral(o) == LET u == op[o].u IN
    /\ At(o, "attach", "write") /\ ~Adopting(u)
    /\ inviter' = IF {u, op[o].v} \subseteq exists /\ inviter[u] = None
                  THEN [inviter EXCEPT ![u] = op[o].v] ELSE inviter
    /\ Drop(o)
    /\ UNCHANGED <<exists, id, unspent, current, row, panel, event, payout, alias, history,
                   overlapped, begun, faults>>

-----------------------------------------------------------------------------

Next ==
    \/ \E o \in Ops :
         \/ Ask(o) \/ ReadSubs(o) \/ Repoint(o) \/ Commit(o) \/ MergeFails(o) \/ CleanUp(o)
         \/ Crash(o)
         \/ ReadCurrent(o) \/ BuyNew(o) \/ Renew(o) \/ Change(o)
         \/ AskPayout(o) \/ CreatePayout(o)
         \/ ReadInviter(o) \/ AddCommission(o) \/ ReadCode(o) \/ CreateReferral(o)
    \/ \E u \in Accounts : StartTrial(u)
    \/ \E r \in DOMAIN row : Expire(r)
    \/ \E k \in DOMAIN payout : StartPayout(k)

Spec == Init /\ [][Next]_vars

-----------------------------------------------------------------------------

Quiet == \A o \in Ops : op[o].kind = "none"

Apart(kinds) == overlapped \cap kinds = {}

\* Every table has its type, and what it refers to exists: no row of a deleted account
\* is left, and no current subscription that is not a row.
TypeOK ==
    /\ exists \subseteq Accounts /\ overlapped \subseteq Kinds \cup {"trial"}
    /\ \A r \in DOMAIN row : row[r] # None => row[r].user \in exists
    /\ \A k \in DOMAIN payout : payout[k] # None =>
          payout[k].user \in exists /\ payout[k].status \in {"requested", "processing", "rejected"}
    /\ \A p \in Payments : event[p] # None => {event[p].referrer, event[p].referred} \subseteq exists
    /\ \A u \in Accounts : /\ inviter[u] # None => {u, inviter[u]} \subseteq exists
                           /\ current[u] # None => u \in exists /\ row[current[u]] # None
                           /\ alias[u] # None => alias[u] \in exists \ {u}
    /\ panel \subseteq Nat /\ begun \in 0..MaxBegun /\ faults \in 0..MaxFaults

\* However merges cross, also two opposite ones, each account ends up in one that exists.
NobodyVanishes == \A u \in Accounts : heir[u] \in exists

\* A subscription that is paid and running stays what it is, the current one of an
\* account, with its user on the panel, until it runs out or a plan change replaces it;
\* unless a purchase or a second merge overlapped the merge, whose view of the two
\* subscriptions is from before its transaction, or a trial did, and a second one is taken.
Served(r) ==
    /\ row[r] # None /\ row[r].paid /\ row[r].live /\ row[r].ahead
    /\ current[row[r].user] = r /\ row[r].remna \in panel

TrialAgain(u) ==
    "trial" \in overlapped /\ u \in exists /\ unspent[u] /\ ~unspent'[u] /\ heir' = heir

PaidIsKept ==
    Apart({"buy", "merge"})' => \A r \in DOMAIN row : Served(r) =>
      \/ Served(r)'
      \/ row'[r] # None /\ ~row'[r].ahead
      \/ \E q \in DOMAIN row : Served(q)' /\ row'[q].remna = row[r].remna
      \/ TrialAgain(row[r].user)

\* A commission stays with whoever stands for its earner, through any number of merges,
\* and goes if one person turns out to be on both sides; one that a cascade deleted aside.
CommissionsFollow ==
    \A p \in Payments : earned[p] # None /\ <<"event", p>> \notin lost =>
        LET e == [referrer |-> heir[earned[p].referrer], referred |-> heir[earned[p].referred]]
        IN event[p] = IF e.referrer = e.referred THEN None ELSE e

\* Nobody invited themselves or earns from themselves, whatever a merge makes of the
\* accounts between the check of a code and the insert.
NoSelfReferral ==
    /\ \A u \in Accounts : inviter[u] # u
    /\ \A p \in Payments : event[p] # None => event[p].referrer # event[p].referred

\* A merge leaves one payout open, unless a request or another merge overlapped it.
OneOpenPayout ==
    Apart({"request", "merge"}) =>
        \A j, k \in DOMAIN payout : Open(j) /\ Open(k) /\ j # k => payout[j].user # payout[k].user

\* A trial spent on either account is spent, unless something overlapped the merge.
TrialStaysSpent ==
    Apart({"trial", "buy", "merge"}) =>
        \A u \in exists : unspent[u] => \A r \in DOMAIN row : row[r] # None => row[r].user # u

\* A Telegram account that is bound stays bound, to whoever stands for its account,
\* unless two merges overlapped.
TelegramStaysBound ==
    Apart({"merge"})' => \A u \in exists : id[u].tg # None => id'[heir'[u]].tg = id[u].tg

\* The referral code of an account that is gone still leads to who absorbed it; an alias
\* a cascade deleted aside.
CodesResolve ==
    \A c \in Accounts : <<"alias", c>> \notin lost => OwnerOf(c) = heir[c]

\* When all is done, the panel has no user but those of current subscriptions, unless a
\* call was refused, a process died or something overlapped a merge.
OrphansGo ==
    Quiet /\ faults = 0 /\ overlapped = {} =>
        panel \subseteq {row[current[u]].remna : u \in {x \in exists : current[x] # None}}

\* However merges cross, every account, code and invitation leads to an account that is
\* there, and to somebody else's.
AccountsStand == TypeOK /\ NobodyVanishes /\ CodesResolve /\ NoSelfReferral

\* Commissions and payouts go with their owner through any number of merges, and a merge
\* leaves no second trial and no user of the panel behind.
RowsFollow == CommissionsFollow /\ OneOpenPayout /\ TrialStaysSpent /\ OrphansGo

\* No step of a merge takes a paid subscription or a Telegram account from its person.
KeptThroughMerge == [][PaidIsKept /\ TelegramStaysBound]_vars

=============================================================================
