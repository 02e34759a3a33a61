-------------------------- MODULE AccountMergeProofs --------------------------
(* Theorems of AccountMerge for any accounts, tables, operations in flight,  *)
(* merges in any direction and faults.                                       *)
EXTENDS AccountMerge, TLAPS

(***************************************************************************)
(* The inductive invariant has two halves: what the tables are among       *)
(* themselves, and what each operation in flight still knows of them       *)
(* (Fits).  Apart says which overlaps are left out of a part of either.    *)
(***************************************************************************)

Seen == [s : Ids, l : Ids, spends : BOOLEAN]

Things == {"row", "payout", "event", "edge", "alias"} \X (Nat \cup Payments)

Operations ==
    [kind : Kinds \cup {"none"},
     pc : {"idle", "subs", "repoint", "commit", "panel", "write"},
     u : Accounts \cup {None}, v : Accounts \cup {None},
     how : {"none", "telegram", "email", "oauth", "new", "renew", "change"},
     seen : Seen \cup Nat \cup Payments \cup {None}, best : (1..MaxRow) \cup {None},
     moved : SUBSET Things, reject : SUBSET Things, orphans : SUBSET Nat]

TypeInv ==
    /\ exists \subseteq Accounts /\ id \in [Accounts -> Ids]
    /\ unspent \in [Accounts -> BOOLEAN]
    /\ current \in [Accounts -> (1..MaxRow) \cup {None}]
    /\ row \in [1..MaxRow -> Subscriptions \cup {None}] /\ panel \subseteq Nat
    /\ inviter \in [Accounts -> Accounts \cup {None}]
    /\ event \in [Payments -> EventRows \cup {None}]
    /\ payout \in [1..MaxRow -> PayoutRows \cup {None}]
    /\ alias \in [Accounts -> Accounts \cup {None}]
    /\ op \in [Ops -> Operations]
    /\ heir \in [Accounts -> Accounts] /\ earned \in [Payments -> EventRows \cup {None}]
    /\ overlapped \subseteq Kinds \cup {"trial"}
    /\ begun \in 0..MaxBegun /\ faults \in 0..MaxFaults

\* What refers to an account, or to a row, refers to one that is there.
RefInv ==
    /\ \A r \in 1..MaxRow : row[r] # None => row[r].user \in exists
    /\ \A k \in 1..MaxRow : payout[k] # None => payout[k].user \in exists
    /\ \A p \in Payments : event[p] # None =>
          event[p].referrer \in exists /\ event[p].referred \in exists
    /\ \A u \in Accounts : inviter[u] # None => u \in exists /\ inviter[u] \in exists
    /\ \A u \in Accounts : current[u] # None => u \in exists /\ row[current[u]] # None

\* Who stands for whom.
HeirInv ==
    /\ \A u \in Accounts : heir[u] \in exists
    /\ \A u \in exists : heir[u] = u /\ alias[u] = None
    /\ \A u \in Accounts : alias[u] # None => alias[u] \in exists
    /\ \A u \in Accounts \ exists : <<"alias", u>> \notin lost => alias[u] = heir[u]

\* The panel's user of a subscription is named after an account that its owner stands
\* for, or after the owner's Telegram account, which is nobody else's.
NameInv ==
    /\ \A u, w \in exists : u # w /\ id[u].tg # None => id[u].tg # id[w].tg
    /\ Apart({"buy", "merge"}) => \A r \in 1..MaxRow : row[r] # None =>
          IF row[r].remna \in Accounts THEN row[r].user = heir[row[r].remna]
          ELSE id[row[r].user].tg = row[r].remna

\* The current subscription of an account is its own.
CurrentInv ==
    Apart({"merge"}) => \A u \in Accounts : current[u] # None => row[current[u]].user = u

\* Who still may have a trial has no subscription.
UnspentInv ==
    Apart({"trial", "buy", "merge"}) =>
        \A r \in 1..MaxRow : row[r] # None => ~unspent[row[r].user]

Cleaning == {o \in Ops : op[o].kind = "merge" /\ op[o].pc = "panel"}

PanelInv ==
    faults = 0 /\ overlapped = {} => \A x \in panel :
        \/ \E u \in exists : current[u] # None /\ row[current[u]].remna = x
        \/ \E o \in Cleaning : x \in op[o].orphans

\* One operation that is no merge runs at a time, and what overlaps a merge is recorded.
OverlapInv ==
    \A o, p \in Ops : o # p /\ op[p].kind # "none" =>
        /\ op[o].kind # "none" => "merge" \in {op[o].kind, op[p].kind}
        /\ op[o].kind = "merge" => op[p].kind \in overlapped

-----------------------------------------------------------------------------
(* What an operation q in flight knows.                                     *)

Merging(q) == q.kind = "merge" /\ q.pc \in {"subs", "repoint", "commit"}
Chosen(q)  == q.kind = "merge" /\ q.pc \in {"repoint", "commit"}
Moving(q)  == q.kind = "merge" /\ q.pc = "commit"

Shape(q) ==
    /\ q.kind = "none" => q.pc = "idle"
    /\ q.kind = "merge" => q.pc \in {"subs", "repoint", "commit", "panel"}
    /\ Merging(q) => /\ q.u \in Accounts /\ q.v \in Accounts /\ q.u # q.v /\ q.seen \in Seen
                     /\ q.seen.s.tg = None \/ q.seen.l.tg = None
    /\ q.kind \in {"buy", "request", "commission", "attach"} =>
          q.pc = "write" /\ q.u \in Accounts
    /\ q.kind = "buy" => /\ q.seen \in Nat /\ q.how \in {"new", "renew", "change"}
                         /\ q.how # "new" => q.seen \in 1..MaxRow
    /\ q.kind \in {"commission", "attach"} => q.v \in Accounts /\ q.u # q.v
    /\ q.kind = "commission" => q.seen \in Payments

\* A merge sees both accounts as they are, and keeps a subscription of one of them.
MergeView(q) ==
    Apart({"merge"}) =>
        /\ Merging(q) => /\ q.u \in exists /\ q.v \in exists
                         /\ q.seen.s = id[q.u] /\ q.seen.l = id[q.v]
        /\ Chosen(q) /\ q.best # None =>
              row[q.best] # None /\ row[q.best].user \in {q.u, q.v}

TrialView(q) ==
    Apart({"trial", "buy", "merge"}) =>
        (Merging(q) => (q.seen.spends <=> unspent[q.u] /\ ~unspent[q.v]))

\* A payout that is rejected is still there, and is repointed.
RejectView(q) ==
    Moving(q) => \A k \in 1..MaxRow : <<"payout", k>> \in q.reject =>
        payout[k] # None /\ (payout[k].user = q.v => <<"payout", k>> \in q.moved)

\* What is paid for and runs is kept, and no such subscription is cleaned up after.
PaidView(q) ==
    Apart({"buy", "merge"}) =>
        /\ Chosen(q) => /\ ActivePaid(current[q.u]) => q.best = current[q.u]
                        /\ ActivePaid(current[q.v]) => q.best = current[q.v]
        /\ q.kind = "merge" /\ q.pc = "panel" =>
              \A r \in 1..MaxRow : row[r] # None /\ row[r].paid /\ row[r].remna \in q.orphans =>
                  current[row[r].user] # r

BuyView(q) ==
    Apart({"buy", "merge"}) /\ q.kind = "buy" =>
        /\ q.u \in exists
        /\ q.how = "new" => q.seen = Name(q.u)
        /\ q.how # "new" => row[q.seen] # None /\ row[q.seen].user = q.u
        /\ current[q.u] # None /\ row[current[q.u]].paid =>
              q.how # "new" /\ current[q.u] = q.seen

PayoutView(q) ==
    Apart({"request", "merge"}) =>
        /\ q.kind = "request" => \A k \in 1..MaxRow : Open(k) => payout[k].user # q.u
        /\ Moving(q) =>
              /\ \A k \in 1..MaxRow : payout[k] # None /\ payout[k].user = q.v =>
                    <<"payout", k>> \in q.moved
              /\ \A j, k \in 1..MaxRow :
                    /\ j # k /\ Open(j) /\ Open(k)
                    /\ payout[j].user \in {q.u, q.v} /\ payout[k].user \in {q.u, q.v}
                    => <<"payout", j>> \in q.reject \/ <<"payout", k>> \in q.reject

\* Nothing overlapped a merge: the current subscriptions are those that were read.
PanelView(q) ==
    overlapped = {} =>
        /\ Chosen(q) => \/ q.best # None /\ q.best \in {current[q.u], current[q.v]}
                        \/ q.best = None /\ current[q.u] = None /\ current[q.v] = None
        /\ Moving(q) => \A r \in 1..MaxRow : row[r] # None /\ row[r].user = q.v =>
                            <<"row", r>> \in q.moved
        /\ q.kind = "buy" =>
              /\ q.how = "new" => current[q.u] = None \/ q.seen \in panel
              /\ q.how = "change" => current[q.u] = q.seen

Fits(q) ==
    /\ Shape(q) /\ MergeView(q) /\ TrialView(q) /\ RejectView(q) /\ PaidView(q)
    /\ BuyView(q) /\ PayoutView(q) /\ PanelView(q)

InFlight == {op[o] : o \in Ops}

IInv ==
    /\ TypeInv /\ RefInv /\ HeirInv /\ NoSelfReferral /\ CommissionsFollow /\ NameInv
    /\ CurrentInv /\ UnspentInv /\ OneOpenPayout /\ PanelInv /\ OverlapInv
    /\ \A q \in InFlight : Fits(q)

-----------------------------------------------------------------------------
LEMMA NoneIsNobody ==
    /\ None \notin Accounts /\ None \notin 1..MaxRow /\ None \notin Nat
    /\ None \notin Subscriptions /\ None \notin PayoutRows /\ None \notin EventRows
    /\ Accounts \subseteq 1..MaxRow /\ Accounts \subseteq Nat /\ 1..MaxRow \subseteq Nat
<1>1. Accounts \subseteq 1..MaxRow /\ MaxRow \in Nat /\ None \notin Nat
  BY MergeAssumption
<1>2. 1..MaxRow \subseteq Nat
  BY <1>1
<1>3. None \notin Subscriptions /\ None \notin PayoutRows /\ None \notin EventRows
  BY MergeAssumption
<1> QED BY <1>1, <1>2, <1>3

\* Who does nothing knows nothing.
LEMMA IdleFits == Idle \in Operations /\ Idle.kind = "none" /\ Idle.pc = "idle" /\ Fits(Idle)
<1>1. Idle \in Operations /\ Idle.kind = "none" /\ Idle.pc = "idle"
  BY DEF Idle, Operations
<1>2. ~Merging(Idle) /\ ~Chosen(Idle) /\ ~Moving(Idle)
  BY <1>1 DEF Merging, Chosen, Moving
<1>3. Shape(Idle)
  BY <1>1, <1>2 DEF Shape
<1> QED BY <1>1, <1>2, <1>3 DEF Fits, MergeView, TrialView, RejectView, PaidView, BuyView,
           PayoutView, PanelView

-----------------------------------------------------------------------------
(* What a merge makes of a child.                                           *)

LEMMA FollowRow ==
    ASSUME NEW o, NEW i, NEW rec \in Subscriptions \cup {None}, op[o].u \in Accounts
    PROVE  LET f == Follow(o, "row", i, rec) IN
           /\ f \in Subscriptions \cup {None}
           /\ f = None <=> rec = None \/ (rec.user = op[o].v /\ <<"row", i>> \notin op[o].moved)
           /\ f # None =>
                 /\ f.remna = rec.remna /\ f.paid = rec.paid /\ f.live = rec.live
                 /\ f.ahead = rec.ahead
                 /\ f.user = IF rec.user = op[o].v THEN op[o].u ELSE rec.user
<1> DEFINE s == op[o].u
           l == op[o].v
           f == Follow(o, "row", i, rec)
<1>1. None \notin Subscriptions
  BY MergeAssumption
<1>2. CASE rec = None
  BY <1>2 DEF Follow
<1>3. CASE rec # None
  <2>1. rec \in Subscriptions /\ DOMAIN rec = {"user", "remna", "paid", "live", "ahead"}
    BY <1>3 DEF Subscriptions
  <2>2. DOMAIN rec \cap Keys = {"user"}
    BY <2>1 DEF Keys
  <2>3. CASE rec.user # l
    <3>1. f = rec
      BY <2>2, <2>3 DEF Follow
    <3> QED BY <1>1, <2>1, <2>3, <3>1
  <2>4. CASE rec.user = l /\ <<"row", i>> \in op[o].moved
    <3>1. f = [g \in DOMAIN rec |-> IF g \in Keys /\ rec[g] = l THEN s ELSE rec[g]]
      BY <1>3, <2>2, <2>4 DEF Follow
    <3>2. f = [rec EXCEPT !.user = s]
      BY <2>1, <2>2, <2>4, <3>1
    <3>3. f \in Subscriptions
      BY <2>1, <3>2 DEF Subscriptions
    <3> QED BY <1>1, <1>3, <2>1, <2>4, <3>2, <3>3 DEF Subscriptions
  <2>5. CASE rec.user = l /\ <<"row", i>> \notin op[o].moved
    <3>1. f = None
      BY <1>3, <2>2, <2>5 DEF Follow
    <3> QED BY <1>3, <2>5, <3>1
  <2> QED BY <2>3, <2>4, <2>5
<1> QED BY <1>2, <1>3
LEMMA FollowPayout ==
    ASSUME NEW o, NEW i, NEW rec \in PayoutRows \cup {None}, op[o].u \in Accounts
    PROVE  LET f == Follow(o, "payout", i, rec) IN
           /\ f \in PayoutRows \cup {None}
           /\ f = None <=> rec = None \/ (rec.user = op[o].v /\ <<"payout", i>> \notin op[o].moved)
           /\ f # None =>
                 /\ f.status = rec.status
                 /\ f.user = IF rec.user = op[o].v THEN op[o].u ELSE rec.user
<1> DEFINE s == op[o].u
           l == op[o].v
           f == Follow(o, "payout", i, rec)
<1>1. None \notin PayoutRows
  BY MergeAssumption
<1>2. CASE rec = None
  BY <1>2 DEF Follow
<1>3. CASE rec # None
  <2>1. rec \in PayoutRows /\ DOMAIN rec = {"user", "status"}
    BY <1>3 DEF PayoutRows
  <2>2. DOMAIN rec \cap Keys = {"user"}
    BY <2>1 DEF Keys
  <2>3. CASE rec.user # l
    <3>1. f = rec
      BY <2>2, <2>3 DEF Follow
    <3> QED BY <1>1, <2>1, <2>3, <3>1
  <2>4. CASE rec.user = l /\ <<"payout", i>> \in op[o].moved
    <3>1. f = [g \in DOMAIN rec |-> IF g \in Keys /\ rec[g] = l THEN s ELSE rec[g]]
      BY <1>3, <2>2, <2>4 DEF Follow
    <3>2. f = [rec EXCEPT !.user = s]
      BY <2>1, <2>2, <2>4, <3>1
    <3>3. f \in PayoutRows
      BY <2>1, <3>2 DEF PayoutRows
    <3> QED BY <1>1, <1>3, <2>1, <2>4, <3>2, <3>3 DEF PayoutRows
  <2>5. CASE rec.user = l /\ <<"payout", i>> \notin op[o].moved
    <3>1. f = None
      BY <1>3, <2>2, <2>5 DEF Follow
    <3> QED BY <1>3, <2>5, <3>1
  <2> QED BY <2>3, <2>4, <2>5
<1> QED BY <1>2, <1>3

LEMMA FollowEvent ==
    ASSUME NEW o, NEW i, NEW rec \in EventRows \cup {None}, op[o].u \in Accounts
    PROVE  LET l == op[o].v
               f == Follow(o, "event", i, rec)
           IN /\ f \in EventRows \cup {None}
              /\ f = None <=> \/ rec = None
                              \/ /\ l \in {rec.referrer, rec.referred}
                                 /\ <<"event", i>> \notin op[o].moved
              /\ f # None =>
                   f = [referrer |-> IF rec.referrer = l THEN op[o].u ELSE rec.referrer,
                        referred |-> IF rec.referred = l THEN op[o].u ELSE rec.referred]
<1> DEFINE s == op[o].u
           l == op[o].v
           f == Follow(o, "event", i, rec)
           g == [referrer |-> IF rec.referrer = l THEN s ELSE rec.referrer,
                 referred |-> IF rec.referred = l THEN s ELSE rec.referred]
<1>1. None \notin EventRows
  BY MergeAssumption
<1>2. CASE rec = None
  BY <1>2 DEF Follow
<1>3. CASE rec # None
  <2>1. rec \in EventRows /\ DOMAIN rec = {"referrer", "referred"}
    BY <1>3 DEF EventRows
  <2>2. DOMAIN rec \cap Keys = {"referrer", "referred"}
    BY <2>1 DEF Keys
  <2>3. CASE l \notin {rec.referrer, rec.referred}
    <3>1. f = rec
      BY <2>2, <2>3 DEF Follow
    <3>2. rec = [referrer |-> rec.referrer, referred |-> rec.referred]
      BY <2>1 DEF EventRows
    <3> QED BY <1>1, <2>1, <2>3, <3>1, <3>2
  <2>4. CASE l \in {rec.referrer, rec.referred} /\ <<"event", i>> \in op[o].moved
    <3>1. f = [h \in DOMAIN rec |-> IF h \in Keys /\ rec[h] = l THEN s ELSE rec[h]]
      BY <1>3, <2>2, <2>4 DEF Follow
    <3>2. f = g
      BY <2>1, <2>2, <3>1
    <3>3. f \in EventRows
      BY <2>1, <3>2 DEF EventRows
    <3> QED BY <1>1, <1>3, <2>4, <3>2, <3>3
  <2>5. CASE l \in {rec.referrer, rec.referred} /\ <<"event", i>> \notin op[o].moved
    <3>1. f = None
      BY <1>3, <2>2, <2>5 DEF Follow
    <3> QED BY <1>3, <2>5, <3>1
  <2> QED BY <2>3, <2>4, <2>5
<1> QED BY <1>2, <1>3
-----------------------------------------------------------------------------
(* The commit of a merge, one table after the other.                        *)

LEMMA CommitBase ==
    ASSUME TypeInv, NEW o \in Ops, Shape(op[o]), Commit(o)
    PROVE  LET s == op[o].u
               l == op[o].v
           IN /\ Moving(op[o]) /\ Merging(op[o]) /\ Chosen(op[o])
              /\ s \in Accounts /\ l \in Accounts /\ s # l /\ s \in exists
              /\ op[o].seen \in Seen /\ (op[o].seen.s.tg = None \/ op[o].seen.l.tg = None)
              /\ op[o].best \in (1..MaxRow) \cup {None}
              /\ exists' = exists \ {l} /\ s \in exists' /\ l \notin exists'
              /\ panel' = panel /\ earned' = earned /\ overlapped' = overlapped
              /\ begun' = begun /\ faults' = faults
              /\ op[o].best # None =>
                    /\ row[op[o].best] # None
                    /\ row[op[o].best].user = l => <<"row", op[o].best>> \in op[o].moved
              /\ \A x \in exists \ {s, l} :
                    Stamped(o).tg # None => id[x].tg # Stamped(o).tg
              /\ \A p \in Ops \ {o} : Moving(op[p]) =>
                    op[p].u # l /\ Children(l) \cap (op[p].moved \cup op[p].reject) = {}
<1>1. At(o, "merge", "commit") /\ Possible(o) /\ Awaited(o) = {} /\ o \in Ops
  BY DEF Commit
<1>2. Moving(op[o]) /\ Merging(op[o]) /\ Chosen(op[o])
  BY <1>1 DEF At, Moving, Merging, Chosen
<1>3. /\ op[o].u \in Accounts /\ op[o].v \in Accounts /\ op[o].u # op[o].v
      /\ op[o].seen \in Seen /\ (op[o].seen.s.tg = None \/ op[o].seen.l.tg = None)
      /\ op[o].best \in (1..MaxRow) \cup {None}
  BY <1>2 DEF Shape, TypeInv, Operations
<1>4. /\ op[o].u \in exists
      /\ op[o].best # None =>
            /\ row[op[o].best] # None
            /\ row[op[o].best].user = op[o].v => <<"row", op[o].best>> \in op[o].moved
      /\ \A x \in exists \ {op[o].u, op[o].v} :
            Stamped(o).tg # None => id[x].tg # Stamped(o).tg
  BY <1>1 DEF Possible, Alive
<1>5. \A p \in Ops \ {o} : Moving(op[p]) =>
         /\ op[p].u # op[o].v
         /\ Children(op[o].v) \cap (op[p].moved \cup op[p].reject) = {}
  BY <1>1 DEF Awaited, At, Moving
<1>6. /\ exists' = exists \ {op[o].v} /\ panel' = panel /\ earned' = earned
      /\ overlapped' = overlapped /\ begun' = begun /\ faults' = faults
  BY DEF Commit
<1> QED BY <1>2, <1>3, <1>4, <1>5, <1>6

LEMMA CommitIds ==
    ASSUME TypeInv, NEW o \in Ops, Shape(op[o]), Commit(o)
    PROVE  LET s == op[o].u
               l == op[o].v
               q == op[o].seen
           IN /\ id' \in [Accounts -> Ids] /\ unspent' \in [Accounts -> BOOLEAN]
              /\ \A u \in Accounts \ {s, l} : id'[u] = id[u] /\ unspent'[u] = unspent[u]
              /\ id'[s] = Stamped(o)
              /\ id'[s].tg = IF q.s.tg = None /\ q.l.tg # None THEN q.l.tg ELSE id[s].tg
              /\ unspent'[s] <=> unspent[s] /\ ~q.spends
              /\ ~unspent'[l]
<1> DEFINE s == op[o].u
           l == op[o].v
           q == op[o].seen
           gone == [tg |-> None, mail |-> None]
<1>1. s \in Accounts /\ l \in Accounts /\ s # l /\ q \in Seen
  BY CommitBase
<1>2. /\ id' = [id EXCEPT ![s] = Stamped(o), ![l] = gone]
      /\ unspent' = [unspent EXCEPT ![s] = @ /\ ~Spent(o), ![l] = FALSE]
  BY DEF Commit
<1>3. id \in [Accounts -> Ids] /\ unspent \in [Accounts -> BOOLEAN] /\ id[s] \in Ids
  BY <1>1 DEF TypeInv
<1>4. q.s \in Ids /\ q.l \in Ids /\ Spent(o) = q.spends
  BY <1>1 DEF Seen, Spent
<1>5. Stamped(o).tg = IF q.s.tg = None /\ q.l.tg # None THEN q.l.tg ELSE id[s].tg
  BY DEF Stamped
<1>6. Stamped(o) \in Ids
  BY <1>3, <1>4 DEF Stamped, Ids
<1>7. gone \in Ids
  BY DEF Ids
<1>8. /\ id' \in [Accounts -> Ids] /\ id'[s] = Stamped(o)
      /\ \A u \in Accounts \ {s, l} : id'[u] = id[u]
  BY <1>1, <1>2, <1>3, <1>6, <1>7
<1> DEFINE left == unspent[s] /\ ~Spent(o)
<1>9. PICK b \in BOOLEAN : b <=> left
  OBVIOUS
<1>10. unspent' = [unspent EXCEPT ![s] = b, ![l] = FALSE]
  <2>1. b = left
    BY <1>9, Zenon
  <2> HIDE DEF left
  <2>2. unspent' = [unspent EXCEPT ![s] = left, ![l] = FALSE]
    BY <1>2 DEF left
  <2> QED BY <2>1, <2>2
<1>11. /\ unspent' \in [Accounts -> BOOLEAN] /\ unspent'[s] = b /\ ~unspent'[l]
       /\ \A u \in Accounts \ {s, l} : unspent'[u] = unspent[u]
  BY <1>1, <1>3, <1>10
<1>12. unspent'[s] <=> unspent[s] /\ ~q.spends
  BY <1>4, <1>9, <1>11
<1> QED BY <1>5, <1>8, <1>11, <1>12

\* A row of the absorbed account goes to the survivor or is deleted; what is not of the
\* panel's user that is kept is retired.
LEMMA CommitRows ==
    ASSUME TypeInv, NEW o \in Ops, Shape(op[o]), Commit(o)
    PROVE  LET s == op[o].u
               l == op[o].v
               b == op[o].best
               out == {row'[r].remna : r \in {x \in 1..MaxRow :
                          row'[x] # None /\ row'[x].user = s /\ b # None
                          /\ row'[x].remna # row[b].remna}}
           IN /\ row' \in [1..MaxRow -> Subscriptions \cup {None}]
              /\ current' \in [Accounts -> (1..MaxRow) \cup {None}]
              /\ \A r \in 1..MaxRow :
                    /\ row'[r] = None <=>
                          row[r] = None \/ (row[r].user = l /\ <<"row", r>> \notin op[o].moved)
                    /\ row'[r] # None =>
                          /\ row'[r].remna = row[r].remna /\ row'[r].paid = row[r].paid
                          /\ row'[r].ahead = row[r].ahead
                          /\ row'[r].user = IF row[r].user = l THEN s ELSE row[r].user
                          /\ \/ row'[r].live = row[r].live
                             \/ /\ row'[r].user = s /\ b # None
                                /\ row[r].remna # row[b].remna
              /\ \A u \in Accounts :
                    LET r == IF u = s /\ b # None THEN b ELSE current[u]
                    IN current'[u] = IF u = l \/ r = None \/ row'[r] = None THEN None ELSE r
              /\ op' = [op EXCEPT ![o] = [Idle EXCEPT !.kind = "merge", !.pc = "panel",
                                                      !.orphans = out]]
<1> DEFINE s == op[o].u
           l == op[o].v
           b == op[o].best
           rows == [r \in DOMAIN row |-> Follow(o, "row", r, row[r])]
<1>1. /\ s \in Accounts /\ l \in Accounts /\ s # l /\ b \in (1..MaxRow) \cup {None}
      /\ row \in [1..MaxRow -> Subscriptions \cup {None}]
      /\ current \in [Accounts -> (1..MaxRow) \cup {None}] /\ op \in [Ops -> Operations]
  BY CommitBase DEF TypeInv
<1>2. /\ row' = [r \in DOMAIN row |-> IF Retired(o, rows[r]) THEN [rows[r] EXCEPT !.live = FALSE]
                                                         ELSE rows[r]]
      /\ current' = [u \in Accounts |->
            LET r == IF u = s /\ b # None THEN b ELSE current[u]
            IN IF u = l \/ r = None THEN None ELSE IF rows[r] = None THEN None ELSE r]
      /\ op' = [op EXCEPT ![o] = [Idle EXCEPT !.kind = "merge", !.pc = "panel",
              !.orphans = {rows[r].remna : r \in {x \in DOMAIN row : Retired(o, rows[x])}}]]
  BY DEF Commit
<1>3. ASSUME NEW r \in 1..MaxRow
      PROVE  /\ rows[r] \in Subscriptions \cup {None}
             /\ rows[r] = None <=>
                   row[r] = None \/ (row[r].user = l /\ <<"row", r>> \notin op[o].moved)
             /\ rows[r] # None =>
                   /\ rows[r].remna = row[r].remna /\ rows[r].paid = row[r].paid
                   /\ rows[r].live = row[r].live /\ rows[r].ahead = row[r].ahead
                   /\ rows[r].user = IF row[r].user = l THEN s ELSE row[r].user
  <2>1. row[r] \in Subscriptions \cup {None} /\ rows[r] = Follow(o, "row", r, row[r])
    BY <1>1
  <2> HIDE DEF rows
  <2> QED BY <1>1, <2>1, FollowRow
<1> DEFINE w == [r \in 1..MaxRow |->
                    IF Retired(o, rows[r]) THEN [rows[r] EXCEPT !.live = FALSE] ELSE rows[r]]
<1>4. row' = w
  BY <1>1, <1>2
<1>5. \A r \in 1..MaxRow : Retired(o, rows[r]) <=>
        rows[r] # None /\ b # None /\ rows[r].user = s /\ rows[r].remna # row[b].remna
  BY DEF Retired
<1> HIDE DEF rows
<1>6. None \notin Subscriptions
  BY MergeAssumption
<1>7. ASSUME NEW r \in 1..MaxRow
      PROVE  /\ w[r] \in Subscriptions \cup {None} /\ (w[r] = None <=> rows[r] = None)
             /\ w[r] # None =>
                   /\ w[r].remna = rows[r].remna /\ w[r].paid = rows[r].paid
                   /\ w[r].ahead = rows[r].ahead /\ w[r].user = rows[r].user
                   /\ w[r].live = rows[r].live \/ Retired(o, rows[r])
  <2>1. CASE Retired(o, rows[r])
    <3>1. rows[r] \in Subscriptions /\ w[r] = [rows[r] EXCEPT !.live = FALSE]
      BY <1>3, <1>5, <2>1
    <3> QED BY <1>6, <2>1, <3>1 DEF Subscriptions
  <2>2. CASE ~Retired(o, rows[r])
    BY <1>3, <2>2
  <2> QED BY <2>1, <2>2
<1> HIDE DEF w
<1>8. row' \in [1..MaxRow -> Subscriptions \cup {None}]
  BY <1>4, <1>7 DEF w
<1>9. ASSUME NEW r \in 1..MaxRow
      PROVE  /\ row'[r] = None <=>
                   row[r] = None \/ (row[r].user = l /\ <<"row", r>> \notin op[o].moved)
             /\ row'[r] # None =>
                   /\ row'[r].remna = row[r].remna /\ row'[r].paid = row[r].paid
                   /\ row'[r].ahead = row[r].ahead
                   /\ row'[r].user = IF row[r].user = l THEN s ELSE row[r].user
                   /\ \/ row'[r].live = row[r].live
                      \/ row'[r].user = s /\ b # None /\ row[r].remna # row[b].remna
  <2>1. row'[r] = w[r]
    BY <1>4
  <2>2. w[r] = None <=> row[r] = None \/ (row[r].user = l /\ <<"row", r>> \notin op[o].moved)
    BY <1>3, <1>7
  <2>3. ASSUME w[r] # None
        PROVE  /\ w[r].remna = row[r].remna /\ w[r].paid = row[r].paid
               /\ w[r].ahead = row[r].ahead
               /\ w[r].user = IF row[r].user = l THEN s ELSE row[r].user
               /\ \/ w[r].live = row[r].live
                  \/ w[r].user = s /\ b # None /\ row[r].remna # row[b].remna
    <3>1. rows[r] # None /\ (Retired(o, rows[r]) <=>
              rows[r] # None /\ b # None /\ rows[r].user = s /\ rows[r].remna # row[b].remna)
      BY <1>5, <1>7, <2>3
    <3>2. /\ w[r].remna = rows[r].remna /\ w[r].paid = rows[r].paid
          /\ w[r].ahead = rows[r].ahead /\ w[r].user = rows[r].user
          /\ w[r].live = rows[r].live \/ Retired(o, rows[r])
      BY <1>7, <2>3
    <3>3. /\ rows[r].remna = row[r].remna /\ rows[r].paid = row[r].paid
          /\ rows[r].live = row[r].live /\ rows[r].ahead = row[r].ahead
          /\ rows[r].user = IF row[r].user = l THEN s ELSE row[r].user
      BY <1>3, <3>1
    <3> QED BY <3>1, <3>2, <3>3
  <2> QED BY <2>1, <2>2, <2>3
<1>10. \A r \in 1..MaxRow : rows[r] = None <=> row'[r] = None
  BY <1>4, <1>7
<1>11. \A u \in Accounts :
         LET r == IF u = s /\ b # None THEN b ELSE current[u]
         IN current'[u] = IF u = l \/ r = None \/ row'[r] = None THEN None ELSE r
  BY <1>1, <1>2, <1>10
<1>12. current' \in [Accounts -> (1..MaxRow) \cup {None}]
  BY <1>1, <1>2
<1>13. {rows[r].remna : r \in {x \in DOMAIN row : Retired(o, rows[x])}}
       = {row'[r].remna : r \in {x \in 1..MaxRow :
            row'[x] # None /\ row'[x].user = s /\ b # None /\ row'[x].remna # row[b].remna}}
  <2>1. DOMAIN row = 1..MaxRow
    BY <1>1
  <2>2. \A r \in 1..MaxRow : Retired(o, rows[r]) <=>
          row'[r] # None /\ row'[r].user = s /\ b # None /\ row'[r].remna # row[b].remna
    BY <1>4, <1>5, <1>7
  <2>3. \A r \in 1..MaxRow : Retired(o, rows[r]) => rows[r].remna = row'[r].remna
    BY <1>4, <1>5, <1>7
  <2> QED BY <2>1, <2>2, <2>3
<1> QED BY <1>2, <1>8, <1>9, <1>11, <1>12, <1>13

\* A payout of the absorbed account goes to the survivor or is deleted.
LEMMA CommitPayouts ==
    ASSUME TypeInv, NEW o \in Ops, Shape(op[o]), RejectView(op[o]), Commit(o)
    PROVE  LET s == op[o].u
               l == op[o].v
           IN /\ payout' \in [1..MaxRow -> PayoutRows \cup {None}]
              /\ \A k \in 1..MaxRow :
                    /\ payout'[k] = None <=>
                          payout[k] = None
                          \/ (payout[k].user = l /\ <<"payout", k>> \notin op[o].moved)
                    /\ payout'[k] # None =>
                          /\ payout'[k].user = IF payout[k].user = l THEN s ELSE payout[k].user
                          /\ payout'[k].status = IF <<"payout", k>> \in op[o].reject
                                                 THEN "rejected" ELSE payout[k].status
<1> DEFINE s == op[o].u
           l == op[o].v
           kept(k) == Follow(o, "payout", k, payout[k])
           w == [k \in 1..MaxRow |-> IF <<"payout", k>> \in op[o].reject
                                     THEN [kept(k) EXCEPT !.status = "rejected"] ELSE kept(k)]
<1>1. /\ s \in Accounts /\ Moving(op[o]) /\ payout \in [1..MaxRow -> PayoutRows \cup {None}]
  BY CommitBase DEF TypeInv
<1>2. payout' = w
  BY <1>1 DEF Commit
<1>3. None \notin PayoutRows
  BY MergeAssumption
<1>4. ASSUME NEW k \in 1..MaxRow
      PROVE  /\ w[k] \in PayoutRows \cup {None}
             /\ w[k] = None <=>
                   payout[k] = None
                   \/ (payout[k].user = l /\ <<"payout", k>> \notin op[o].moved)
             /\ w[k] # None =>
                   /\ w[k].user = IF payout[k].user = l THEN s ELSE payout[k].user
                   /\ w[k].status = IF <<"payout", k>> \in op[o].reject
                                    THEN "rejected" ELSE payout[k].status
  <2>1. payout[k] \in PayoutRows \cup {None}
    BY <1>1
  <2>2. /\ kept(k) \in PayoutRows \cup {None}
        /\ kept(k) = None <=>
              payout[k] = None \/ (payout[k].user = l /\ <<"payout", k>> \notin op[o].moved)
        /\ kept(k) # None =>
              /\ kept(k).status = payout[k].status
              /\ kept(k).user = IF payout[k].user = l THEN s ELSE payout[k].user
    BY <1>1, <2>1, FollowPayout
  <2> HIDE DEF kept
  <2>3. CASE <<"payout", k>> \notin op[o].reject
    BY <2>2, <2>3
  <2>4. CASE <<"payout", k>> \in op[o].reject
    <3>1. payout[k] # None /\ (payout[k].user = l => <<"payout", k>> \in op[o].moved)
      BY <1>1, <2>4 DEF RejectView
    <3>2. kept(k) \in PayoutRows /\ kept(k) # None
      BY <2>2, <3>1
    <3>3. w[k] = [kept(k) EXCEPT !.status = "rejected"]
      BY <2>4
    <3>4. w[k] \in PayoutRows /\ w[k].user = kept(k).user /\ w[k].status = "rejected"
      BY <3>2, <3>3 DEF PayoutRows
    <3> QED BY <1>3, <2>2, <2>4, <3>1, <3>2, <3>4
  <2> QED BY <2>3, <2>4
<1> HIDE DEF w
<1>5. payout' \in [1..MaxRow -> PayoutRows \cup {None}]
  BY <1>2, <1>4 DEF w
<1> QED BY <1>2, <1>4, <1>5

\* A commission one earned from the other goes; else those of the absorbed account go to
\* the survivor or are deleted.
LEMMA CommitEvents ==
    ASSUME TypeInv, NEW o \in Ops, Shape(op[o]), Commit(o)
    PROVE  LET s == op[o].u
               l == op[o].v
           IN /\ event' \in [Payments -> EventRows \cup {None}]
              /\ \A p \in Payments :
                    /\ event[p] = None => event'[p] = None
                    /\ event[p] # None /\ {event[p].referrer, event[p].referred} = {s, l} =>
                          event'[p] = None
                    /\ /\ event[p] # None /\ {event[p].referrer, event[p].referred} # {s, l}
                       /\ l \in {event[p].referrer, event[p].referred}
                       /\ <<"event", p>> \notin op[o].moved
                       => event'[p] = None
                    /\ /\ event[p] # None /\ {event[p].referrer, event[p].referred} # {s, l}
                       /\ \/ l \notin {event[p].referrer, event[p].referred}
                          \/ <<"event", p>> \in op[o].moved
                       => event'[p] =
                            [referrer |-> IF event[p].referrer = l THEN s ELSE event[p].referrer,
                             referred |-> IF event[p].referred = l THEN s ELSE event[p].referred]
<1> DEFINE s == op[o].u
           l == op[o].v
<1>1. s \in Accounts /\ event \in [Payments -> EventRows \cup {None}]
  BY CommitBase DEF TypeInv
<1>2. event' = [p \in Payments |-> IF Between(o, event[p]) THEN None
                                   ELSE Follow(o, "event", p, event[p])]
  BY DEF Commit
<1>3. ASSUME NEW p \in Payments
      PROVE  /\ event'[p] \in EventRows \cup {None}
             /\ event[p] = None => event'[p] = None
             /\ event[p] # None /\ {event[p].referrer, event[p].referred} = {s, l} =>
                   event'[p] = None
             /\ /\ event[p] # None /\ {event[p].referrer, event[p].referred} # {s, l}
                /\ l \in {event[p].referrer, event[p].referred}
                /\ <<"event", p>> \notin op[o].moved
                => event'[p] = None
             /\ /\ event[p] # None /\ {event[p].referrer, event[p].referred} # {s, l}
                /\ \/ l \notin {event[p].referrer, event[p].referred}
                   \/ <<"event", p>> \in op[o].moved
                => event'[p] =
                     [referrer |-> IF event[p].referrer = l THEN s ELSE event[p].referrer,
                      referred |-> IF event[p].referred = l THEN s ELSE event[p].referred]
  <2> DEFINE f == Follow(o, "event", p, event[p])
  <2>1. event[p] \in EventRows \cup {None}
    BY <1>1
  <2>2. /\ f \in EventRows \cup {None}
        /\ f = None <=> \/ event[p] = None
                        \/ /\ l \in {event[p].referrer, event[p].referred}
                           /\ <<"event", p>> \notin op[o].moved
        /\ f # None =>
             f = [referrer |-> IF event[p].referrer = l THEN s ELSE event[p].referrer,
                  referred |-> IF event[p].referred = l THEN s ELSE event[p].referred]
    BY <1>1, <2>1, FollowEvent
  <2>3. event'[p] = IF Between(o, event[p]) THEN None ELSE f
    BY <1>2
  <2>4. Between(o, event[p]) <=>
          event[p] # None /\ {event[p].referrer, event[p].referred} = {s, l}
    BY DEF Between
  <2> HIDE DEF f
  <2>5. CASE Between(o, event[p])
    BY <2>3, <2>4, <2>5
  <2>6. CASE ~Between(o, event[p])
    BY <2>2, <2>3, <2>4, <2>6
  <2> QED BY <2>5, <2>6
<1>4. event' \in [Payments -> EventRows \cup {None}]
  BY <1>2, <1>3
<1> QED BY <1>3, <1>4

\* Invitations, aliases and who stands for whom.
LEMMA CommitLinks ==
    ASSUME TypeInv, NEW o \in Ops, Shape(op[o]), Commit(o)
    PROVE  LET s == op[o].u
               l == op[o].v
           IN /\ inviter' \in [Accounts -> Accounts \cup {None}]
              /\ inviter'[s] \in {None, inviter[s], inviter[l]}
              /\ inviter'[s] # None => inviter'[s] # l \/ inviter[l] = l
              /\ inviter'[s] = s => inviter[s] = s
              /\ inviter'[l] = None
              /\ \A u \in Accounts \ {s, l} :
                    IF inviter[u] # l THEN inviter'[u] = inviter[u] ELSE inviter'[u] \in {None, s}
              /\ alias' \in [Accounts -> Accounts \cup {None}]
              /\ \A c \in Accounts :
                    /\ c = l /\ l \in exists => alias'[c] = s
                    /\ ~(c = l /\ l \in exists) /\ alias[c] # l => alias'[c] = alias[c]
                    /\ ~(c = l /\ l \in exists) /\ alias[c] = l =>
                          IF <<"alias", c>> \in op[o].moved THEN alias'[c] = s
                                                            ELSE alias'[c] = None
              /\ heir' \in [Accounts -> Accounts]
              /\ \A u \in Accounts :
                    heir'[u] = IF l \in exists /\ heir[u] = l THEN s ELSE heir[u]
              /\ lost' = lost \cup (Children(l) \ op[o].moved)
<1> DEFINE s == op[o].u
           l == op[o].v
<1>1. /\ s \in Accounts /\ l \in Accounts /\ s # l
      /\ inviter \in [Accounts -> Accounts \cup {None}]
      /\ alias \in [Accounts -> Accounts \cup {None}] /\ heir \in [Accounts -> Accounts]
      /\ None \notin Accounts
  BY CommitBase, NoneIsNobody DEF TypeInv
<1>2. /\ inviter' = [u \in Accounts |->
             CASE u = s -> Adopted(o)
               [] u = l -> None
               [] OTHER -> IF inviter[u] # l THEN inviter[u]
                           ELSE IF <<"edge", u>> \in op[o].moved THEN s ELSE None]
      /\ alias' = [c \in Accounts |->
             IF c = l /\ l \in exists THEN s
             ELSE IF alias[c] # l THEN alias[c]
             ELSE IF <<"alias", c>> \in op[o].moved THEN s ELSE None]
      /\ heir' = [u \in Accounts |-> IF l \in exists /\ heir[u] = l THEN s ELSE heir[u]]
      /\ lost' = lost \cup (Children(l) \ op[o].moved)
  BY DEF Commit
<1>3. /\ Adopted(o) \in {None, inviter[s], inviter[l]}
      /\ Adopted(o) # None => Adopted(o) # l \/ inviter[l] = l
      /\ Adopted(o) = s => inviter[s] = s
      /\ Adopted(o) \in Accounts \cup {None}
  BY <1>1 DEF Adopted
<1>4. inviter'[s] = Adopted(o) /\ inviter'[l] = None
  BY <1>1, <1>2
<1>5. \A u \in Accounts \ {s, l} :
         IF inviter[u] # l THEN inviter'[u] = inviter[u] ELSE inviter'[u] \in {None, s}
  BY <1>2
<1>6. inviter' \in [Accounts -> Accounts \cup {None}]
  BY <1>1, <1>2, <1>3
<1>7. alias' \in [Accounts -> Accounts \cup {None}] /\ heir' \in [Accounts -> Accounts]
  BY <1>1, <1>2
<1> QED BY <1>1, <1>2, <1>3, <1>4, <1>5, <1>6, <1>7

\* What is left of the merge: the panel's users to clean up after.
LEMMA CommitOp ==
    ASSUME TypeInv, NEW o \in Ops, Shape(op[o]), Commit(o)
    PROVE  /\ op' \in [Ops -> Operations] /\ \A p \in Ops \ {o} : op'[p] = op[p]
           /\ op'[o].kind = "merge" /\ op'[o].pc = "panel"
           /\ op'[o].orphans = {row'[r].remna : r \in {x \in 1..MaxRow :
                 row'[x] # None /\ row'[x].user = op[o].u /\ op[o].best # None
                 /\ row'[x].remna # row[op[o].best].remna}}
<1> DEFINE out == {row'[r].remna : r \in {x \in 1..MaxRow :
                     row'[x] # None /\ row'[x].user = op[o].u /\ op[o].best # None
                     /\ row'[x].remna # row[op[o].best].remna}}
           q == [Idle EXCEPT !.kind = "merge", !.pc = "panel", !.orphans = out]
<1>1. op' = [op EXCEPT ![o] = q] /\ op \in [Ops -> Operations]
  BY CommitRows DEF TypeInv
<1>2. row' \in [1..MaxRow -> Subscriptions \cup {None}] /\ op[o].kind = "merge"
  BY CommitRows, CommitBase DEF Moving
<1>3. out \subseteq Nat
  BY <1>2 DEF Subscriptions
<1>4. "merge" \in Kinds
  <2>1. op[o].kind \in Kinds \cup {"none"}
    BY <1>1 DEF Operations
  <2> QED BY <1>2, <2>1
<1> HIDE DEF out
<1>5. Idle \in Operations
  BY IdleFits
<1>6. /\ q \in Operations /\ q.kind = "merge" /\ q.pc = "panel" /\ q.orphans = out
  BY <1>3, <1>4, <1>5 DEF Operations
<1> HIDE DEF q
<1>8. op' \in [Ops -> Operations] /\ op'[o] = q /\ \A p \in Ops \ {o} : op'[p] = op[p]
  BY <1>1, <1>6
<1> QED BY <1>6, <1>8 DEF out

LEMMA CommitType ==
    ASSUME TypeInv, NEW o \in Ops, Shape(op[o]), RejectView(op[o]), Commit(o)
    PROVE  TypeInv'
<1>1. id' \in [Accounts -> Ids] /\ unspent' \in [Accounts -> BOOLEAN]
  BY CommitIds
<1>2. /\ row' \in [1..MaxRow -> Subscriptions \cup {None}]
      /\ current' \in [Accounts -> (1..MaxRow) \cup {None}]
  BY CommitRows
<1>3. payout' \in [1..MaxRow -> PayoutRows \cup {None}]
  BY CommitPayouts
<1>4. event' \in [Payments -> EventRows \cup {None}]
  BY CommitEvents
<1>5. /\ inviter' \in [Accounts -> Accounts \cup {None}] /\ heir' \in [Accounts -> Accounts]
      /\ alias' \in [Accounts -> Accounts \cup {None}]
  BY CommitLinks
<1>6. op' \in [Ops -> Operations]
  BY CommitOp
<1>7. /\ exists' = exists \ {op[o].v} /\ panel' = panel /\ earned' = earned
      /\ overlapped' = overlapped /\ begun' = begun /\ faults' = faults
  BY CommitBase
<1> QED BY <1>1, <1>2, <1>3, <1>4, <1>5, <1>6, <1>7 DEF TypeInv

\* Nothing refers to the account that is gone.
LEMMA CommitRefs ==
    ASSUME TypeInv, RefInv, HeirInv, NoSelfReferral, NEW o \in Ops, Shape(op[o]),
           RejectView(op[o]), Commit(o)
    PROVE  RefInv' /\ HeirInv' /\ NoSelfReferral'
<1> DEFINE s == op[o].u
           l == op[o].v
           b == op[o].best
<1>1. /\ s \in Accounts /\ l \in Accounts /\ s # l /\ s \in exists
      /\ exists' = exists \ {l} /\ s \in exists' /\ l \notin exists'
      /\ exists \subseteq Accounts /\ None \notin Accounts
  BY CommitBase, NoneIsNobody DEF TypeInv
<1>2. \A r \in 1..MaxRow : row'[r] # None =>
         row[r] # None /\ row'[r].user = IF row[r].user = l THEN s ELSE row[r].user
  BY CommitRows
<1>3. \A k \in 1..MaxRow : payout'[k] # None =>
         payout[k] # None /\ payout'[k].user = IF payout[k].user = l THEN s ELSE payout[k].user
  BY CommitPayouts
<1>4. \A p \in Payments : event'[p] # None =>
         /\ event[p] # None /\ {event[p].referrer, event[p].referred} # {s, l}
         /\ event'[p] = [referrer |-> IF event[p].referrer = l THEN s ELSE event[p].referrer,
                         referred |-> IF event[p].referred = l THEN s ELSE event[p].referred]
  BY CommitEvents
<1>5. /\ \A r \in 1..MaxRow : row[r] # None => row[r].user \in exists
      /\ \A k \in 1..MaxRow : payout[k] # None => payout[k].user \in exists
      /\ \A p \in Payments : event[p] # None =>
            event[p].referrer \in exists /\ event[p].referred \in exists
      /\ \A u \in Accounts : inviter[u] # None => u \in exists /\ inviter[u] \in exists
      /\ \A u \in Accounts : current[u] # None => u \in exists /\ row[current[u]] # None
  BY DEF RefInv
<1>6. /\ \A u \in Accounts : inviter[u] # u
      /\ \A p \in Payments : event[p] # None => event[p].referrer # event[p].referred
  BY DEF NoSelfReferral
<1>7. RefInv'
  <2>1. \A r \in 1..MaxRow : row'[r] # None => row'[r].user \in exists'
    BY <1>1, <1>2, <1>5
  <2>2. \A k \in 1..MaxRow : payout'[k] # None => payout'[k].user \in exists'
    BY <1>1, <1>3, <1>5
  <2>3. \A p \in Payments : event'[p] # None =>
           event'[p].referrer \in exists' /\ event'[p].referred \in exists'
    <3> SUFFICES ASSUME NEW p \in Payments, event'[p] # None
                 PROVE  event'[p].referrer \in exists' /\ event'[p].referred \in exists'
      OBVIOUS
    <3>1. /\ event[p] # None /\ {event[p].referrer, event[p].referred} # {s, l}
          /\ event'[p] = [referrer |-> IF event[p].referrer = l THEN s ELSE event[p].referrer,
                          referred |-> IF event[p].referred = l THEN s ELSE event[p].referred]
      BY <1>4
    <3>2. /\ event'[p].referrer = IF event[p].referrer = l THEN s ELSE event[p].referrer
          /\ event'[p].referred = IF event[p].referred = l THEN s ELSE event[p].referred
      BY <3>1
    <3> QED BY <1>1, <1>5, <3>1, <3>2
  <2>4. \A u \in Accounts : inviter'[u] # None => u \in exists' /\ inviter'[u] \in exists'
    <3>1. /\ inviter'[s] \in {None, inviter[s], inviter[l]}
          /\ inviter'[s] # None => inviter'[s] # l \/ inviter[l] = l
          /\ inviter'[l] = None
          /\ \A u \in Accounts \ {s, l} :
                IF inviter[u] # l THEN inviter'[u] = inviter[u] ELSE inviter'[u] \in {None, s}
      BY CommitLinks
    <3>2. inviter'[s] # None => inviter'[s] \in exists'
      BY <1>1, <1>5, <1>6, <3>1
    <3> QED BY <1>1, <1>5, <3>1, <3>2
  <2>5. \A u \in Accounts : current'[u] # None => u \in exists' /\ row'[current'[u]] # None
    <3>1. \A u \in Accounts :
            LET r == IF u = s /\ b # None THEN b ELSE current[u]
            IN current'[u] = IF u = l \/ r = None \/ row'[r] = None THEN None ELSE r
      BY CommitRows
    <3> QED BY <1>1, <1>5, <3>1
  <2> QED BY <2>1, <2>2, <2>3, <2>4, <2>5 DEF RefInv
<1>8. /\ \A c \in Accounts :
            /\ c = l /\ l \in exists => alias'[c] = s
            /\ ~(c = l /\ l \in exists) /\ alias[c] # l => alias'[c] = alias[c]
            /\ ~(c = l /\ l \in exists) /\ alias[c] = l =>
                  IF <<"alias", c>> \in op[o].moved THEN alias'[c] = s ELSE alias'[c] = None
      /\ \A u \in Accounts : heir'[u] = IF l \in exists /\ heir[u] = l THEN s ELSE heir[u]
      /\ lost' = lost \cup (Children(l) \ op[o].moved)
  BY CommitLinks
<1>9. /\ \A u \in Accounts : heir[u] \in exists
      /\ \A u \in exists : heir[u] = u /\ alias[u] = None
      /\ \A u \in Accounts : alias[u] # None => alias[u] \in exists
      /\ \A u \in Accounts \ exists : <<"alias", u>> \notin lost => alias[u] = heir[u]
  BY DEF HeirInv
<1>10. HeirInv'
  <2>1. \A u \in Accounts : heir'[u] \in exists'
    BY <1>1, <1>8, <1>9
  <2>2. \A u \in exists' : heir'[u] = u /\ alias'[u] = None
    BY <1>1, <1>8, <1>9
  <2>3. \A u \in Accounts : alias'[u] # None => alias'[u] \in exists'
    BY <1>1, <1>8, <1>9
  <2>4. ASSUME NEW u \in Accounts \ exists', <<"alias", u>> \notin lost'
        PROVE  alias'[u] = heir'[u]
    <3>1. CASE u = l /\ l \in exists
      BY <1>8, <1>9, <3>1
    <3>2. CASE ~(u = l /\ l \in exists)
      <4>1. u \notin exists /\ <<"alias", u>> \notin lost /\ alias[u] = heir[u]
        BY <1>1, <1>8, <1>9, <2>4, <3>2
      <4>2. CASE alias[u] # l
        BY <1>8, <3>2, <4>1, <4>2
      <4>3. CASE alias[u] = l
        <5>1. l \in exists
          BY <1>9, <4>1, <4>3
        <5>2. <<"alias", u>> \in Children(l)
          BY <4>3 DEF Children, Codes
        <5>3. <<"alias", u>> \in op[o].moved
          BY <1>8, <2>4, <5>2
        <5> QED BY <1>8, <3>2, <4>1, <4>3, <5>1, <5>3
      <4> QED BY <4>2, <4>3
    <3> QED BY <3>1, <3>2
  <2> QED BY <2>1, <2>2, <2>3, <2>4 DEF HeirInv
<1>11. NoSelfReferral'
  <2>1. \A u \in Accounts : inviter'[u] # u
    <3>1. /\ inviter'[s] = s => inviter[s] = s
          /\ inviter'[l] = None
          /\ \A u \in Accounts \ {s, l} :
                IF inviter[u] # l THEN inviter'[u] = inviter[u] ELSE inviter'[u] \in {None, s}
      BY CommitLinks
    <3> QED BY <1>1, <1>6, <3>1
  <2>2. \A p \in Payments : event'[p] # None => event'[p].referrer # event'[p].referred
    <3> SUFFICES ASSUME NEW p \in Payments, event'[p] # None
                 PROVE  event'[p].referrer # event'[p].referred
      OBVIOUS
    <3>1. /\ event[p] # None /\ {event[p].referrer, event[p].referred} # {s, l}
          /\ event'[p] = [referrer |-> IF event[p].referrer = l THEN s ELSE event[p].referrer,
                          referred |-> IF event[p].referred = l THEN s ELSE event[p].referred]
      BY <1>4
    <3>2. /\ event'[p].referrer = IF event[p].referrer = l THEN s ELSE event[p].referrer
          /\ event'[p].referred = IF event[p].referred = l THEN s ELSE event[p].referred
      BY <3>1
    <3> QED BY <1>1, <1>6, <3>1, <3>2
  <2> QED BY <2>1, <2>2 DEF NoSelfReferral
<1> QED BY <1>7, <1>10, <1>11

\* A commission follows both its accounts, and goes when they become one.
LEMMA CommitCommissions ==
    ASSUME TypeInv, RefInv, HeirInv, CommissionsFollow, NEW o \in Ops, Shape(op[o]), Commit(o)
    PROVE  CommissionsFollow'
<1> DEFINE s == op[o].u
           l == op[o].v
           e(p) == [referrer |-> heir[earned[p].referrer], referred |-> heir[earned[p].referred]]
<1>1. /\ s \in Accounts /\ l \in Accounts /\ s # l /\ s \in exists /\ earned' = earned
      /\ None \notin EventRows /\ earned \in [Payments -> EventRows \cup {None}]
  BY CommitBase, NoneIsNobody DEF TypeInv
<1>2. /\ \A u \in Accounts : heir'[u] = IF l \in exists /\ heir[u] = l THEN s ELSE heir[u]
      /\ lost' = lost \cup (Children(l) \ op[o].moved)
  BY CommitLinks
<1>3. /\ \A u \in Accounts : heir[u] \in exists
      /\ heir \in [Accounts -> Accounts] /\ exists \subseteq Accounts
  BY DEF HeirInv, TypeInv
<1> SUFFICES ASSUME NEW p \in Payments, earned[p] # None, <<"event", p>> \notin lost'
             PROVE  LET x == [referrer |-> heir'[earned[p].referrer],
                              referred |-> heir'[earned[p].referred]]
                    IN event'[p] = IF x.referrer = x.referred THEN None ELSE x
  BY <1>1 DEF CommissionsFollow
<1>4. earned[p] \in EventRows /\ earned[p].referrer \in Accounts /\ earned[p].referred \in Accounts
  BY <1>1 DEF EventRows
<1>5. event[p] = IF e(p).referrer = e(p).referred THEN None ELSE e(p)
  BY <1>2 DEF CommissionsFollow
<1>6. /\ event[p] = None => event'[p] = None
      /\ event[p] # None /\ {event[p].referrer, event[p].referred} = {s, l} => event'[p] = None
      /\ /\ event[p] # None /\ {event[p].referrer, event[p].referred} # {s, l}
         /\ \/ l \notin {event[p].referrer, event[p].referred}
            \/ <<"event", p>> \in op[o].moved
         => event'[p] = [referrer |-> IF event[p].referrer = l THEN s ELSE event[p].referrer,
                         referred |-> IF event[p].referred = l THEN s ELSE event[p].referred]
  BY CommitEvents
<1> DEFINE x == [referrer |-> heir'[earned[p].referrer], referred |-> heir'[earned[p].referred]]
<1>7. /\ x.referrer = IF e(p).referrer = l THEN s ELSE e(p).referrer
      /\ x.referred = IF e(p).referred = l THEN s ELSE e(p).referred
  BY <1>2, <1>3, <1>4
<1>8. CASE e(p).referrer = e(p).referred
  BY <1>5, <1>6, <1>7, <1>8
<1>9. CASE e(p).referrer # e(p).referred
  <2>1. event[p] = e(p) /\ event[p] # None
    <3>1. event[p] = e(p)
      BY <1>5, <1>9
    <3>2. e(p) \in EventRows
      BY <1>3, <1>4 DEF EventRows
    <3> QED BY <1>1, <3>1, <3>2
  <2>2. CASE {e(p).referrer, e(p).referred} = {s, l}
    <3>1. event'[p] = None
      BY <1>6, <2>1, <2>2
    <3>2. x.referrer = s /\ x.referred = s
      BY <1>7, <1>9, <2>2
    <3> QED BY <3>1, <3>2
  <2>3. CASE {e(p).referrer, e(p).referred} # {s, l}
    <3>1. l \in {e(p).referrer, e(p).referred} => <<"event", p>> \in op[o].moved
      <4>1. SUFFICES ASSUME l \in {event[p].referrer, event[p].referred}
                     PROVE  <<"event", p>> \in op[o].moved
        BY <2>1
      <4>2. <<"event", p>> \in Children(l)
        BY <2>1, <4>1 DEF Children, Events
      <4> QED BY <1>2, <4>2
    <3>2. event'[p] = [referrer |-> IF event[p].referrer = l THEN s ELSE event[p].referrer,
                       referred |-> IF event[p].referred = l THEN s ELSE event[p].referred]
      BY <1>6, <2>1, <2>3, <3>1
    <3>3. event'[p] = x
      BY <1>7, <2>1, <3>2
    <3>4. x.referrer # x.referred
      BY <1>7, <1>9, <2>3
    <3> QED BY <3>3, <3>4
  <2> QED BY <2>2, <2>3
<1> QED BY <1>8, <1>9

\* The names on the panel stay those of who stands for their accounts.
LEMMA CommitNames ==
    ASSUME TypeInv, RefInv, HeirInv, NameInv, NEW o \in Ops, Shape(op[o]), MergeView(op[o]),
           Commit(o)
    PROVE  NameInv'
<1> DEFINE s == op[o].u
           l == op[o].v
           q == op[o].seen
<1>1. /\ s \in Accounts /\ l \in Accounts /\ s # l /\ s \in exists
      /\ exists' = exists \ {l} /\ exists \subseteq Accounts /\ None \notin Nat
      /\ overlapped' = overlapped /\ Merging(op[o])
      /\ q.s.tg = None \/ q.l.tg = None
      /\ \A x \in exists \ {s, l} : Stamped(o).tg # None => id[x].tg # Stamped(o).tg
  BY CommitBase, NoneIsNobody DEF TypeInv
<1>2. /\ \A u \in Accounts \ {s, l} : id'[u] = id[u]
      /\ id'[s] = Stamped(o)
      /\ id'[s].tg = IF q.s.tg = None /\ q.l.tg # None THEN q.l.tg ELSE id[s].tg
  BY CommitIds
<1>3. \A u, w \in exists' : u # w /\ id'[u].tg # None => id'[u].tg # id'[w].tg
  BY <1>1, <1>2 DEF NameInv
<1>4. ASSUME Apart({"buy", "merge"})', NEW r \in 1..MaxRow, row'[r] # None
      PROVE  IF row'[r].remna \in Accounts THEN row'[r].user = heir'[row'[r].remna]
             ELSE id'[row'[r].user].tg = row'[r].remna
  <2>1. Apart({"buy", "merge"}) /\ Apart({"merge"})
    BY <1>1, <1>4 DEF Apart
  <2>2. l \in exists /\ q.s = id[s] /\ q.l = id[l]
    BY <1>1, <2>1 DEF MergeView
  <2>3. /\ row[r] # None /\ row'[r].remna = row[r].remna
        /\ row'[r].user = IF row[r].user = l THEN s ELSE row[r].user
    BY <1>4, CommitRows
  <2>4. row[r] \in Subscriptions /\ row[r].remna \in Nat /\ row[r].user \in exists
    BY <2>3 DEF TypeInv, RefInv, Subscriptions
  <2>5. IF row[r].remna \in Accounts THEN row[r].user = heir[row[r].remna]
        ELSE id[row[r].user].tg = row[r].remna
    BY <2>1, <2>3 DEF NameInv
  <2>6. \A u \in Accounts : heir'[u] = IF heir[u] = l THEN s ELSE heir[u]
    BY <2>2, CommitLinks
  <2>7. CASE row[r].remna \in Accounts
    BY <2>3, <2>5, <2>6, <2>7
  <2>8. CASE row[r].remna \notin Accounts
    <3>1. CASE row[r].user = l
      BY <1>1, <1>2, <2>2, <2>3, <2>4, <2>5, <2>8, <3>1
    <3>2. CASE row[r].user = s
      BY <1>1, <1>2, <2>2, <2>3, <2>4, <2>5, <2>8, <3>2
    <3>3. CASE row[r].user \notin {s, l}
      BY <1>1, <1>2, <2>3, <2>4, <2>5, <2>8, <3>3
    <3> QED BY <3>1, <3>2, <3>3
  <2> QED BY <2>7, <2>8
<1> QED BY <1>3, <1>4 DEF NameInv

\* The survivor has a current subscription of its own, and a trial only if neither had one.
LEMMA CommitOwners ==
    ASSUME TypeInv, RefInv, CurrentInv, UnspentInv, NEW o \in Ops, Shape(op[o]),
           MergeView(op[o]), TrialView(op[o]), Commit(o)
    PROVE  CurrentInv' /\ UnspentInv'
<1> DEFINE s == op[o].u
           l == op[o].v
           b == op[o].best
<1>1. /\ s \in Accounts /\ l \in Accounts /\ s # l /\ overlapped' = overlapped
      /\ Merging(op[o]) /\ Chosen(op[o])
  BY CommitBase
<1>2. \A r \in 1..MaxRow : row'[r] # None =>
         row[r] # None /\ row'[r].user = IF row[r].user = l THEN s ELSE row[r].user
  BY CommitRows
<1>3. ASSUME Apart({"merge"})', NEW u \in Accounts, current'[u] # None
      PROVE  row'[current'[u]].user = u
  <2>1. Apart({"merge"})
    BY <1>1, <1>3 DEF Apart
  <2>2. b # None => row[b] # None /\ row[b].user \in {s, l}
    BY <1>1, <2>1 DEF MergeView
  <2>3. LET r == IF u = s /\ b # None THEN b ELSE current[u]
        IN current'[u] = IF u = l \/ r = None \/ row'[r] = None THEN None ELSE r
    BY CommitRows
  <2>4. current'[u] \in 1..MaxRow /\ row'[current'[u]] # None /\ u # l
    <3>1. current' \in [Accounts -> (1..MaxRow) \cup {None}]
      BY CommitRows
    <3> QED BY <1>3, <2>3, <3>1
  <2>5. current[u] # None => row[current[u]].user = u
    BY <2>1 DEF CurrentInv
  <2>6. row'[current'[u]].user = IF row[current'[u]].user = l THEN s ELSE row[current'[u]].user
    BY <1>2, <2>4
  <2>7. CASE u = s /\ b # None
    BY <1>3, <2>2, <2>3, <2>6, <2>7
  <2>8. CASE ~(u = s /\ b # None)
    BY <1>3, <2>3, <2>4, <2>5, <2>6, <2>8
  <2> QED BY <2>7, <2>8
<1>4. ASSUME Apart({"trial", "buy", "merge"})', NEW r \in 1..MaxRow, row'[r] # None
      PROVE  ~unspent'[row'[r].user]
  <2>1. Apart({"trial", "buy", "merge"})
    BY <1>1, <1>4 DEF Apart
  <2>2. op[o].seen.spends <=> unspent[s] /\ ~unspent[l]
    BY <1>1, <2>1 DEF TrialView
  <2>3. /\ unspent'[s] <=> unspent[s] /\ ~op[o].seen.spends
        /\ \A u \in Accounts \ {s, l} : unspent'[u] = unspent[u]
    BY CommitIds
  <2>4. row[r] # None /\ row'[r].user = IF row[r].user = l THEN s ELSE row[r].user
    BY <1>2, <1>4
  <2>5. row[r].user \in Accounts /\ ~unspent[row[r].user]
    BY <2>1, <2>4 DEF UnspentInv, RefInv, TypeInv
  <2>6. CASE row[r].user \in {s, l}
    BY <2>2, <2>3, <2>4, <2>5, <2>6
  <2>7. CASE row[r].user \notin {s, l}
    BY <2>3, <2>4, <2>5, <2>7
  <2> QED BY <2>6, <2>7
<1> QED BY <1>3, <1>4 DEF CurrentInv, UnspentInv

\* One payout of the two accounts is left open.
LEMMA CommitOpen ==
    ASSUME TypeInv, RefInv, OneOpenPayout, NEW o \in Ops, Shape(op[o]), RejectView(op[o]),
           PayoutView(op[o]), Commit(o)
    PROVE  OneOpenPayout'
<1> DEFINE s == op[o].u
           l == op[o].v
<1>1. /\ s \in Accounts /\ l \in Accounts /\ s # l /\ overlapped' = overlapped /\ Moving(op[o])
  BY CommitBase
<1>2. \A k \in 1..MaxRow : payout'[k] # None =>
         /\ payout[k] # None
         /\ payout'[k].user = IF payout[k].user = l THEN s ELSE payout[k].user
         /\ payout'[k].status = IF <<"payout", k>> \in op[o].reject
                                THEN "rejected" ELSE payout[k].status
  BY CommitPayouts
<1>3. DOMAIN payout = 1..MaxRow /\ DOMAIN payout' = 1..MaxRow
  BY CommitPayouts DEF TypeInv
<1> SUFFICES ASSUME Apart({"request", "merge"})', NEW j \in 1..MaxRow, NEW k \in 1..MaxRow,
                    Open(j)', Open(k)', j # k
             PROVE  payout'[j].user # payout'[k].user
  BY <1>3 DEF OneOpenPayout
<1>4. Apart({"request", "merge"})
  BY <1>1 DEF Apart
<1>5. /\ Open(j) /\ Open(k) /\ <<"payout", j>> \notin op[o].reject
      /\ <<"payout", k>> \notin op[o].reject
      /\ payout'[j].user = IF payout[j].user = l THEN s ELSE payout[j].user
      /\ payout'[k].user = IF payout[k].user = l THEN s ELSE payout[k].user
  BY <1>2 DEF Open
<1>6. payout[j].user # payout[k].user
  BY <1>3, <1>4, <1>5 DEF OneOpenPayout
<1>7. ~(payout[j].user \in {s, l} /\ payout[k].user \in {s, l})
  BY <1>1, <1>4, <1>5 DEF PayoutView
<1> QED BY <1>5, <1>6, <1>7

\* What the panel has for either account is of the current subscription or cleaned up.
LEMMA CommitPanel ==
    ASSUME TypeInv, RefInv, CurrentInv, PanelInv, OverlapInv, NEW o \in Ops, Shape(op[o]),
           MergeView(op[o]), PanelView(op[o]), Commit(o)
    PROVE  PanelInv'
<1> DEFINE s == op[o].u
           l == op[o].v
           b == op[o].best
<1>1. /\ s \in Accounts /\ l \in Accounts /\ s # l /\ s \in exists
      /\ exists' = exists \ {l} /\ exists \subseteq Accounts /\ panel' = panel
      /\ overlapped' = overlapped /\ faults' = faults
      /\ Merging(op[o]) /\ Chosen(op[o]) /\ Moving(op[o])
  BY CommitBase DEF TypeInv
<1> SUFFICES ASSUME faults = 0, overlapped = {}, NEW x \in panel
             PROVE  \/ \E u \in exists' : current'[u] # None /\ row'[current'[u]].remna = x
                    \/ \E p \in Cleaning' : x \in op'[p].orphans
  BY <1>1 DEF PanelInv
<1>2. Apart({"merge"})
  BY DEF Apart
<1>3. PICK w \in exists : current[w] # None /\ row[current[w]].remna = x
  <2>1. ASSUME NEW p \in Cleaning PROVE FALSE
    <3>1. op[o].kind = "merge" /\ op[o].pc = "commit" /\ op[p].kind = "merge" /\ op[p].pc = "panel"
      BY <1>1 DEF Cleaning, Moving
    <3>2. p \in Ops /\ p # o
      BY <3>1 DEF Cleaning
    <3> QED BY <3>1, <3>2 DEF OverlapInv
  <2> QED BY <2>1 DEF PanelInv
<1> DEFINE c == current[w]
<1>4. /\ c \in 1..MaxRow /\ row[c] # None /\ row[c].user = w /\ w \in Accounts
  BY <1>1, <1>2, <1>3 DEF TypeInv, RefInv, CurrentInv
<1>5. /\ \A u \in Accounts :
            LET r == IF u = s /\ b # None THEN b ELSE current[u]
            IN current'[u] = IF u = l \/ r = None \/ row'[r] = None THEN None ELSE r
      /\ \A r \in 1..MaxRow :
            /\ row'[r] = None <=>
                  row[r] = None \/ (row[r].user = l /\ <<"row", r>> \notin op[o].moved)
            /\ row'[r] # None =>
                  /\ row'[r].remna = row[r].remna
                  /\ row'[r].user = IF row[r].user = l THEN s ELSE row[r].user
  BY CommitRows
<1>6. CASE w \notin {s, l}
  <2>1. row'[c] # None /\ row'[c].remna = x
    BY <1>3, <1>4, <1>5, <1>6
  <2>2. current'[w] = c /\ c # None
    BY <1>3, <1>4, <1>5, <1>6, <2>1
  <2> QED BY <1>1, <1>3, <1>6, <2>1, <2>2
<1>7. CASE w \in {s, l}
  <2>1. b # None /\ b \in 1..MaxRow /\ row[b] # None
        /\ (row[b].user = l => <<"row", b>> \in op[o].moved)
    <3>1. b # None
      BY <1>1, <1>3, <1>7 DEF PanelView
    <3> QED BY <3>1, CommitBase
  <2>2. row'[b] # None /\ row'[b].remna = row[b].remna /\ current'[s] = b
    BY <1>1, <1>5, <2>1
  <2>3. row'[c] # None /\ row'[c].remna = x /\ row'[c].user = s
    <3>1. row[c].user = l => <<"row", c>> \in op[o].moved
      BY <1>1, <1>4 DEF PanelView
    <3> QED BY <1>3, <1>4, <1>5, <1>7, <3>1
  <2>4. CASE row[b].remna = x
    <3>1. s \in exists' /\ current'[s] # None /\ row'[current'[s]].remna = x
      BY <1>1, <2>1, <2>2, <2>4
    <3> QED BY <3>1
  <2>5. CASE row[b].remna # x
    <3>1. /\ op'[o].kind = "merge" /\ op'[o].pc = "panel"
          /\ op'[o].orphans = {row'[r].remna : r \in {y \in 1..MaxRow :
                row'[y] # None /\ row'[y].user = s /\ b # None
                /\ row'[y].remna # row[b].remna}}
      BY CommitOp
    <3>2. x \in op'[o].orphans
      BY <1>4, <2>1, <2>3, <2>5, <3>1
    <3> QED BY <3>1, <3>2 DEF Cleaning
  <2> QED BY <2>4, <2>5
<1> QED BY <1>6, <1>7

\* What a merge and what overlaps it see of each other's tables is claimed of neither.
LEMMA Overlapped ==
    ASSUME NEW q, Shape(q), RejectView(q)',
           q.kind # "none" => q.kind \in overlapped'
    PROVE  Fits(q)'
<1>1. Shape(q)'
  BY DEF Shape, Merging
<1>2. q.kind # "merge" => ~Merging(q) /\ ~Chosen(q) /\ ~Moving(q)
  BY DEF Merging, Chosen, Moving
<1>3. ASSUME NEW K, q.kind \in K, q.kind # "none" PROVE ~Apart(K)'
  BY <1>3 DEF Apart
<1>4. CASE q.kind = "none"
  BY <1>1, <1>2, <1>4 DEF Fits, MergeView, TrialView, PaidView, BuyView, PayoutView, PanelView
<1>5. CASE q.kind # "none"
  <2>1. overlapped' # {}
    BY <1>5
  <2>2. /\ q.kind = "merge" => /\ ~Apart({"merge"})' /\ ~Apart({"trial", "buy", "merge"})'
                               /\ ~Apart({"buy", "merge"})' /\ ~Apart({"request", "merge"})'
        /\ q.kind = "buy" => ~Apart({"buy", "merge"})'
        /\ q.kind = "request" => ~Apart({"request", "merge"})'
    BY <1>3, <1>5
  <2> QED BY <1>1, <1>2, <2>1, <2>2
          DEF Fits, MergeView, TrialView, PaidView, BuyView, PayoutView, PanelView
<1> QED BY <1>4, <1>5

\* The other operations either do not see a merge or overlap it.
LEMMA CommitOthers ==
    ASSUME TypeInv, RefInv, OverlapInv, NEW o \in Ops, \A p \in Ops : Fits(op[p]), Commit(o)
    PROVE  OverlapInv' /\ \A p \in Ops \ {o} : \A q : q = op[p] => Fits(q)'
<1> DEFINE s == op[o].u
           l == op[o].v
<1>0. Shape(op[o]) /\ RejectView(op[o])
  BY DEF Fits
<1>1. /\ op[o].kind = "merge" /\ overlapped' = overlapped
      /\ \A p \in Ops \ {o} : Moving(op[p]) =>
            op[p].u # l /\ Children(l) \cap (op[p].moved \cup op[p].reject) = {}
  BY <1>0, CommitBase DEF Moving
<1>2. op'[o].kind = "merge" /\ \A p \in Ops \ {o} : op'[p] = op[p]
  BY <1>0, CommitOp
<1>3. OverlapInv'
  BY <1>1, <1>2 DEF OverlapInv
<1>4. ASSUME NEW p \in Ops \ {o}, NEW q, q = op[p] PROVE Fits(q)'
  <2>1. Shape(q) /\ RejectView(q)
    BY <1>4 DEF Fits
  <2>2. q.kind # "none" => q.kind \in overlapped'
    BY <1>1, <1>4 DEF OverlapInv
  <2>3. RejectView(q)'
    <3> SUFFICES ASSUME Moving(q), NEW k \in 1..MaxRow, <<"payout", k>> \in q.reject
                 PROVE  /\ payout'[k] # None
                        /\ payout'[k].user = q.v => <<"payout", k>> \in q.moved
      BY DEF RejectView, Moving
    <3>1. /\ payout[k] # None
          /\ payout[k].user = q.v => <<"payout", k>> \in q.moved
      BY <2>1 DEF RejectView
    <3>2. payout[k].user # l
      <4>1. SUFFICES ASSUME payout[k].user = l PROVE FALSE
        OBVIOUS
      <4>2. <<"payout", k>> \in Children(l)
        BY <3>1, <4>1 DEF Children, Payouts, TypeInv
      <4> QED BY <1>1, <1>4, <4>2
    <3>3. payout'[k] # None /\ payout'[k].user = payout[k].user
      BY <1>0, <3>1, <3>2, CommitPayouts
    <3> QED BY <3>1, <3>3
  <2> QED BY <2>1, <2>2, <2>3, Overlapped
<1> QED BY <1>3, <1>4

\* No subscription whose panel user is cleaned up is a current one.
LEMMA CommitFits ==
    ASSUME TypeInv, RefInv, HeirInv, NoSelfReferral, NameInv, NEW o \in Ops, Shape(op[o]),
           RejectView(op[o]), MergeView(op[o]), Commit(o), NEW q, q = op'[o]
    PROVE  Fits(q)'
<1> DEFINE s == op[o].u
           l == op[o].v
           b == op[o].best
<1>0. op[o].u \in Accounts
  BY CommitBase
<1>1. /\ q.kind = "merge" /\ q.pc = "panel"
      /\ q.orphans = {row'[r].remna : r \in {x \in 1..MaxRow :
            row'[x] # None /\ row'[x].user = s /\ b # None /\ row'[x].remna # row[b].remna}}
  BY CommitOp
<1>2. TypeInv' /\ RefInv' /\ HeirInv' /\ NameInv'
  BY CommitType, CommitRefs, CommitNames
<1>3. ASSUME Apart({"buy", "merge"})', NEW r \in 1..MaxRow, row'[r] # None,
             row'[r].remna \in q.orphans
      PROVE  current'[row'[r].user] # r
  <2>1. PICK x \in 1..MaxRow : /\ row'[x] # None /\ row'[x].user = s /\ b # None
                               /\ row'[x].remna = row'[r].remna /\ row'[x].remna # row[b].remna
    BY <1>1, <1>3
  <2>2. /\ row'[r].user \in exists' /\ s \in exists' /\ row'[r].remna \in Nat /\ None \notin Nat
    <3>1. row'[r] \in Subscriptions
      BY <1>2, <1>3 DEF TypeInv
    <3> QED BY <1>2, <1>3, <2>1, <3>1, NoneIsNobody DEF RefInv, Subscriptions
  <2>3. /\ IF row'[r].remna \in Accounts THEN row'[r].user = heir'[row'[r].remna]
           ELSE id'[row'[r].user].tg = row'[r].remna
        /\ IF row'[x].remna \in Accounts THEN row'[x].user = heir'[row'[x].remna]
           ELSE id'[row'[x].user].tg = row'[x].remna
        /\ \A u, w \in exists' : u # w /\ id'[u].tg # None => id'[u].tg # id'[w].tg
    BY <1>2, <1>3, <2>1 DEF NameInv
  <2>4. row'[r].user = s
    BY <2>1, <2>2, <2>3
  <2>5. current'[s] \in {None, b}
    <3>1. LET c == IF s = s /\ b # None THEN b ELSE current[s]
          IN current'[s] = IF s = l \/ c = None \/ row'[c] = None THEN None ELSE c
      BY <1>0, CommitRows
    <3> QED BY <2>1, <3>1
  <2>6. row'[r].remna = row[r].remna
    BY <1>3, CommitRows
  <2>7. r # b
    BY <2>1, <2>6
  <2>8. r # None
    BY NoneIsNobody
  <2> QED BY <2>4, <2>5, <2>7, <2>8
<1>4. ~Merging(q) /\ ~Chosen(q) /\ ~Moving(q)
  BY <1>1 DEF Merging, Chosen, Moving
<1>5. Shape(q)
  BY <1>1, <1>4 DEF Shape
<1>6. Shape(q)'
  BY <1>5 DEF Shape, Merging
<1>7. MergeView(q)' /\ TrialView(q)' /\ RejectView(q)' /\ BuyView(q)' /\ PayoutView(q)'
      /\ PanelView(q)'
  BY <1>1, <1>4 DEF MergeView, TrialView, RejectView, BuyView, PayoutView, PanelView, Merging,
     Chosen, Moving
<1>8. PaidView(q)'
  BY <1>1, <1>3, <1>4 DEF PaidView, Chosen
<1> QED BY <1>6, <1>7, <1>8 DEF Fits

LEMMA CommitInv ==
    ASSUME IInv, NEW o \in Ops, Commit(o)
    PROVE  IInv'
<1>1. /\ TypeInv /\ RefInv /\ HeirInv /\ NoSelfReferral /\ CommissionsFollow /\ NameInv
      /\ CurrentInv /\ UnspentInv /\ OneOpenPayout /\ PanelInv /\ OverlapInv
      /\ \A p \in Ops : Fits(op[p])
  BY DEF IInv, InFlight
<1>2. /\ Shape(op[o]) /\ MergeView(op[o]) /\ TrialView(op[o]) /\ RejectView(op[o])
      /\ PayoutView(op[o]) /\ PanelView(op[o])
  BY <1>1 DEF Fits
<1>3. TypeInv' /\ RefInv' /\ HeirInv' /\ NoSelfReferral' /\ CommissionsFollow'
  BY <1>1, <1>2, CommitType, CommitRefs, CommitCommissions
<1>4. NameInv' /\ CurrentInv' /\ UnspentInv' /\ OneOpenPayout' /\ PanelInv'
  BY <1>1, <1>2, CommitNames, CommitOwners, CommitOpen, CommitPanel
<1>5. OverlapInv' /\ \A p \in Ops \ {o} : \A q : q = op[p] => Fits(q)'
  BY <1>1, CommitOthers
<1>6. \A p \in Ops \ {o} : op'[p] = op[p]
  BY <1>1, <1>2, CommitOp
<1>7. \A q : q = op'[o] => Fits(q)'
  BY <1>1, <1>2, CommitFits
<1>8. \A q \in InFlight' : Fits(q)'
  BY <1>5, <1>6, <1>7 DEF InFlight
<1> QED BY <1>3, <1>4, <1>5, <1>8 DEF IInv

-----------------------------------------------------------------------------
(* The steps that write no table: an operation reads, begins or gives up.   *)

LEMMA ApartBefore ==
    ASSUME overlapped \subseteq overlapped', NEW K, Apart(K)' PROVE Apart(K)
  BY DEF Apart

LEMMA FitsStill ==
    ASSUME UNCHANGED <<exists, id, unspent, current, row, payout>>,
           overlapped \subseteq overlapped', NEW q, Fits(q),
           q.kind = "buy" /\ overlapped' = {} => panel \subseteq panel'
    PROVE  Fits(q)'
<1>1. /\ exists' = exists /\ id' = id /\ unspent' = unspent /\ current' = current
      /\ row' = row /\ payout' = payout
  OBVIOUS
<1>2. \A K : Apart(K)' => Apart(K)
  BY ApartBefore
<1>3. overlapped' = {} => overlapped = {}
  OBVIOUS
<1>4. Shape(q)' /\ RejectView(q)'
  BY <1>1 DEF Fits, Shape, RejectView, Merging, Moving
<1>5. MergeView(q)'
  BY <1>1, <1>2 DEF Fits, MergeView, Merging, Chosen
<1>6. TrialView(q)'
  BY <1>1, <1>2 DEF Fits, TrialView, Merging
<1>7. PaidView(q)'
  BY <1>1, <1>2 DEF Fits, PaidView, Chosen, ActivePaid
<1>8. BuyView(q)'
  BY <1>1, <1>2 DEF Fits, BuyView, Name
<1>9. PayoutView(q)'
  BY <1>1, <1>2 DEF Fits, PayoutView, Moving, Open
<1>10. PanelView(q)'
  BY <1>1, <1>3 DEF Fits, PanelView, Chosen, Moving
<1> QED BY <1>4, <1>5, <1>6, <1>7, <1>8, <1>9, <1>10 DEF Fits

\* The operations, and what overlaps what, when one moves on or gives up.
LEMMA OverlapStill ==
    ASSUME OverlapInv, TypeInv, NEW o \in Ops, NEW q, op' = [op EXCEPT ![o] = q],
           q.kind \in {"none", op[o].kind}, overlapped' = overlapped
    PROVE  OverlapInv'
<1>1. op'[o] = q /\ \A p \in Ops \ {o} : op'[p] = op[p]
  BY DEF TypeInv
<1> QED BY <1>1 DEF OverlapInv

LEMMA OpStep ==
    ASSUME IInv, UNCHANGED <<tables, panel, history>>,
           NEW o \in Ops, NEW q \in Operations, op' = [op EXCEPT ![o] = q], Fits(q),
           overlapped \subseteq overlapped', overlapped' \subseteq Kinds \cup {"trial"},
           begun' \in 0..MaxBegun, faults' \in 0..MaxFaults, faults' = 0 => faults = 0,
           op[o].kind = "merge" /\ op[o].pc = "panel" => faults' # 0,
           OverlapInv'
    PROVE  IInv'
<1>1. /\ exists' = exists /\ id' = id /\ unspent' = unspent /\ current' = current
      /\ row' = row /\ payout' = payout /\ inviter' = inviter /\ event' = event
      /\ alias' = alias /\ heir' = heir /\ earned' = earned /\ lost' = lost /\ panel' = panel
      /\ UNCHANGED tables
  BY DEF tables, history
<1>2. /\ TypeInv /\ RefInv /\ HeirInv /\ NoSelfReferral /\ CommissionsFollow /\ NameInv
      /\ CurrentInv /\ UnspentInv /\ OneOpenPayout /\ PanelInv
      /\ \A p \in Ops : Fits(op[p])
  BY DEF IInv, InFlight
<1>3. op' \in [Ops -> Operations] /\ op'[o] = q /\ \A p \in Ops \ {o} : op'[p] = op[p]
  BY <1>2 DEF TypeInv
<1>4. \A K : Apart(K)' => Apart(K)
  BY ApartBefore
<1>5. TypeInv'
  BY <1>1, <1>2, <1>3 DEF TypeInv
<1>6. RefInv' /\ HeirInv' /\ NoSelfReferral' /\ CommissionsFollow'
  BY <1>1, <1>2 DEF RefInv, HeirInv, NoSelfReferral, CommissionsFollow
<1>7. NameInv' /\ CurrentInv' /\ UnspentInv'
  BY <1>1, <1>2, <1>4 DEF NameInv, CurrentInv, UnspentInv
<1>8. OneOpenPayout'
  BY <1>1, <1>2, <1>4 DEF OneOpenPayout, Open
<1>9. PanelInv'
  <2> SUFFICES ASSUME faults' = 0, overlapped' = {}, NEW x \in panel
               PROVE  \/ \E u \in exists : current[u] # None /\ row[current[u]].remna = x
                      \/ \E p \in Cleaning' : x \in op'[p].orphans
    BY <1>1 DEF PanelInv
  <2>1. faults = 0 /\ overlapped = {}
    OBVIOUS
  <2>2. ASSUME NEW p \in Cleaning, x \in op[p].orphans
        PROVE  p \in Cleaning' /\ x \in op'[p].orphans
    BY <1>3, <2>2 DEF Cleaning
  <2> QED BY <1>2, <2>1, <2>2 DEF PanelInv
<1>10. ASSUME NEW p \in Ops, NEW r, r = op'[p] PROVE Fits(r)'
  <2>1. Fits(r)
    BY <1>2, <1>3, <1>10
  <2> QED BY <1>1, <2>1, FitsStill
<1> QED BY <1>5, <1>6, <1>7, <1>8, <1>9, <1>10 DEF IInv, InFlight

LEMMA DropInv ==
    ASSUME IInv, NEW o \in Ops, Drop(o), UNCHANGED <<tables, panel, history, overlapped, begun>>,
           faults' \in 0..MaxFaults, faults' = 0 => faults = 0,
           op[o].kind = "merge" /\ op[o].pc = "panel" => faults' # 0
    PROVE  IInv'
<1>1. TypeInv /\ OverlapInv
  BY DEF IInv
<1>2. op' = [op EXCEPT ![o] = Idle]
  BY DEF Drop
<1>3. OverlapInv'
  BY <1>1, <1>2, IdleFits, OverlapStill
<1>4. begun' \in 0..MaxBegun /\ overlapped' = overlapped /\ overlapped \subseteq Kinds \cup {"trial"}
  BY <1>1 DEF TypeInv
<1> QED BY <1>2, <1>3, <1>4, IdleFits, OpStep

LEMMA BeginInv ==
    ASSUME IInv, UNCHANGED <<tables, panel, history, faults>>,
           NEW o \in Ops, NEW q \in Operations, Begin(o, q), Fits(q)
    PROVE  IInv'
<1>1. TypeInv /\ OverlapInv /\ MaxBegun \in Nat
  BY MergeAssumption DEF IInv
<1>2. /\ q.kind = "merge" \/ \A p \in Ops : op[p].kind \in {"none", "merge"}
      /\ q.kind \in Kinds /\ op[o].kind = "none" /\ op' = [op EXCEPT ![o] = q]
      /\ begun < MaxBegun /\ begun' = begun + 1
      /\ overlapped' = overlapped
            \cup (IF Running("merge") # {} THEN {q.kind} ELSE {})
            \cup (IF q.kind = "merge" THEN {op[p].kind : p \in Ops} \ {"none"} ELSE {})
  BY DEF Begin, Counted
<1>3. begun' \in 0..MaxBegun /\ faults' = faults /\ faults \in 0..MaxFaults
  BY <1>1, <1>2 DEF TypeInv
<1>4. op \in [Ops -> Operations] /\ overlapped \subseteq Kinds \cup {"trial"}
  BY <1>1 DEF TypeInv
<1>5. op'[o] = q /\ \A p \in Ops \ {o} : op'[p] = op[p]
  BY <1>2, <1>4
<1>6. \A p \in Ops : op[p].kind \in Kinds \cup {"none"}
  BY <1>4 DEF Operations
<1>7. overlapped \subseteq overlapped' /\ overlapped' \subseteq Kinds \cup {"trial"}
  BY <1>2, <1>4, <1>6
<1>8. OverlapInv'
  <2> SUFFICES ASSUME NEW i \in Ops, NEW j \in Ops, i # j, op'[j].kind # "none"
               PROVE  /\ op'[i].kind # "none" => "merge" \in {op'[i].kind, op'[j].kind}
                      /\ op'[i].kind = "merge" => op'[j].kind \in overlapped'
    BY DEF OverlapInv
  <2>1. CASE i = o
    BY <1>2, <1>5, <2>1
  <2>2. CASE j = o
    <3>1. op'[i] = op[i] /\ op'[j] = q
      BY <1>5, <2>2
    <3>2. op[i].kind = "merge" => i \in Running("merge")
      BY DEF Running
    <3> QED BY <1>2, <3>1, <3>2
  <2>3. CASE i # o /\ j # o
    BY <1>1, <1>5, <1>7, <2>3 DEF OverlapInv
  <2> QED BY <2>1, <2>2, <2>3
<1> QED BY <1>2, <1>3, <1>7, <1>8, OpStep

LEMMA AskInv ==
    ASSUME IInv, NEW o \in Ops, Ask(o)
    PROVE  IInv'
<1>1. TypeInv /\ RefInv
  BY DEF IInv
<1>2. PICK s \in exists, l \in exists, how \in {"telegram", "email", "oauth"} :
         /\ s # l /\ Mergeable(how, s, l)
         /\ Begin(o, [Idle EXCEPT !.kind = "merge", !.pc = "subs", !.u = s, !.v = l, !.how = how,
               !.seen = [s |-> id[s], l |-> id[l],
                         spends |-> unspent[s] /\ ~unspent[l]]])
  BY DEF Ask
<1>3. UNCHANGED <<tables, panel, history, faults>>
  BY DEF Ask
<1>4. s \in Accounts /\ l \in Accounts /\ id[s] \in Ids /\ id[l] \in Ids
  BY <1>1 DEF TypeInv
<1> DEFINE spends == unspent[s] /\ ~unspent[l]
<1>5. PICK y \in BOOLEAN : y <=> spends
  OBVIOUS
<1>6. y = spends
  BY <1>5, Zenon
<1> HIDE DEF spends
<1> DEFINE seen == [s |-> id[s], l |-> id[l], spends |-> y]
           q == [Idle EXCEPT !.kind = "merge", !.pc = "subs", !.u = s, !.v = l, !.how = how,
                             !.seen = seen]
<1>7. Begin(o, q)
  BY <1>2, <1>6 DEF spends
<1>8. seen \in Seen /\ seen.s = id[s] /\ seen.l = id[l] /\ (seen.spends <=> spends)
  BY <1>4, <1>5 DEF Seen
<1> HIDE DEF seen
<1>9. "merge" \in Kinds
  <2>1. q.kind = "merge"
    BY IdleFits DEF Operations
  <2> HIDE DEF q
  <2> QED BY <1>7, <2>1 DEF Begin
<1>10. /\ q \in Operations /\ q.kind = "merge" /\ q.pc = "subs" /\ q.u = s /\ q.v = l
       /\ q.seen = seen
  BY <1>4, <1>8, <1>9, IdleFits DEF Operations
<1> HIDE DEF q
<1>11. Merging(q) /\ ~Chosen(q) /\ ~Moving(q)
  BY <1>10 DEF Merging, Chosen, Moving
<1>12. id[s].tg = None \/ id[l].tg = None
  BY <1>2 DEF Mergeable
<1>13. Shape(q)
  BY <1>2, <1>4, <1>8, <1>10, <1>12 DEF Shape
<1>14. MergeView(q) /\ TrialView(q)
  BY <1>8, <1>10, <1>11 DEF MergeView, TrialView, spends
<1>15. RejectView(q) /\ PaidView(q) /\ BuyView(q) /\ PayoutView(q) /\ PanelView(q)
  BY <1>10, <1>11 DEF RejectView, PaidView, BuyView, PayoutView, PanelView
<1>16. Fits(q)
  BY <1>13, <1>14, <1>15 DEF Fits
<1> QED BY <1>3, <1>7, <1>10, <1>16, BeginInv

\* A paid subscription that runs ranks above any other.
LEMMA BestIsPaid ==
    ASSUME TypeInv, NEW c \in SUBSET (1..MaxRow), \A x \in c : row[x] # None,
           NEW b \in Best(c), NEW a \in c, ActivePaid(a)
    PROVE  ActivePaid(b)
<1>1. b \in c /\ Rank(b) >= Rank(a)
  BY DEF Best
<1>2. row[a] \in Subscriptions /\ row[b] \in Subscriptions /\ a # None /\ b # None
  BY <1>1, NoneIsNobody DEF TypeInv
<1>3. row[a].ahead /\ row[a].paid
  BY DEF ActivePaid
<1>4. row[b].ahead /\ row[b].paid
  BY <1>1, <1>3 DEF Rank
<1> QED BY <1>2, <1>4 DEF ActivePaid

LEMMA ReadSubsInv ==
    ASSUME IInv, NEW o \in Ops, ReadSubs(o)
    PROVE  IInv'
<1> DEFINE s == op[o].u
           l == op[o].v
           c == {current[s], current[l]} \ {None}
<1>1. TypeInv /\ RefInv /\ CurrentInv /\ OverlapInv /\ Fits(op[o]) /\ op[o] \in Operations
  BY DEF IInv, InFlight, TypeInv
<1>2. /\ op[o].kind = "merge" /\ op[o].pc = "subs"
      /\ UNCHANGED <<tables, panel, history, overlapped, begun, faults>>
  BY DEF ReadSubs, At
<1>3. /\ faults' \in 0..MaxFaults /\ faults' = faults /\ begun' \in 0..MaxBegun
      /\ overlapped' = overlapped /\ overlapped \subseteq Kinds \cup {"trial"}
  BY <1>1, <1>2 DEF TypeInv
<1>4. /\ Merging(op[o]) /\ s \in Accounts /\ l \in Accounts /\ s # l /\ op[o].seen \in Seen
      /\ op[o].seen.s.tg = None \/ op[o].seen.l.tg = None
  BY <1>1, <1>2 DEF Fits, Shape, Merging
<1>5. CASE ActivePaid(current[s]) /\ ActivePaid(current[l])
  <2>1. Drop(o)
    BY <1>5 DEF ReadSubs
  <2> QED BY <1>2, <1>3, <2>1, DropInv
<1>6. CASE ~(ActivePaid(current[s]) /\ ActivePaid(current[l]))
  <2>1. PICK b \in (IF c = {} THEN {None} ELSE Best(c)) :
           op' = [op EXCEPT ![o].pc = "repoint", ![o].best = b]
    BY <1>6 DEF ReadSubs
  <2>2. c \subseteq 1..MaxRow /\ \A x \in c : row[x] # None
    BY <1>1, <1>4 DEF TypeInv, RefInv
  <2>3. (b = None /\ c = {}) \/ (b \in c /\ b \in Best(c))
    BY <2>1 DEF Best
  <2> DEFINE q == [op[o] EXCEPT !.pc = "repoint", !.best = b]
  <2>4. op' = [op EXCEPT ![o] = q]
    BY <1>1, <2>1 DEF TypeInv
  <2>5. /\ q \in Operations /\ q.kind = "merge" /\ q.pc = "repoint" /\ q.best = b
        /\ q.u = s /\ q.v = l /\ q.seen = op[o].seen
    BY <1>1, <1>2, <2>2, <2>3 DEF Operations
  <2> HIDE DEF q
  <2>6. Merging(q) /\ Chosen(q) /\ ~Moving(q)
    BY <2>5 DEF Merging, Chosen, Moving
  <2>7. Shape(q)
    BY <1>4, <2>5 DEF Shape
  <2>8. MergeView(q)
    <3> SUFFICES ASSUME Apart({"merge"}) PROVE MergeView(q)
      BY DEF MergeView
    <3>1. /\ s \in exists /\ l \in exists
          /\ op[o].seen.s = id[s] /\ op[o].seen.l = id[l]
      BY <1>1, <1>4 DEF Fits, MergeView
    <3>2. b # None => row[b] # None /\ row[b].user \in {s, l}
      BY <1>1, <1>4, <2>2, <2>3 DEF CurrentInv
    <3> QED BY <2>5, <3>1, <3>2 DEF MergeView
  <2>9. TrialView(q)
    BY <1>1, <1>4, <2>5 DEF Fits, TrialView
  <2>10. PaidView(q)
    <3>1. ASSUME NEW a \in {current[s], current[l]}, ActivePaid(a) PROVE b = a
      <4>1. a \in c
        BY <3>1 DEF ActivePaid
      <4>2. b \in Best(c) /\ b \in c
        BY <2>3, <4>1
      <4> HIDE DEF c
      <4>3. ActivePaid(b)
        BY <1>1, <2>2, <3>1, <4>1, <4>2, BestIsPaid
      <4> QED BY <1>6, <3>1, <4>2, <4>3 DEF c
    <3> QED BY <2>5, <3>1 DEF PaidView
  <2>11. BuyView(q) /\ PayoutView(q) /\ RejectView(q)
    BY <2>5, <2>6 DEF BuyView, PayoutView, RejectView
  <2>12. PanelView(q)
    BY <2>3, <2>5, <2>6 DEF PanelView
  <2>13. Fits(q)
    BY <2>7, <2>8, <2>9, <2>10, <2>11, <2>12 DEF Fits
  <2>14. OverlapInv'
    BY <1>1, <1>2, <1>3, <2>4, <2>5, OverlapStill
  <2> QED BY <1>2, <1>3, <2>4, <2>5, <2>13, <2>14, OpStep
<1> QED BY <1>5, <1>6

\* Of two open payouts of the same accounts one is superseded.
LEMMA OneIsSuperseded ==
    ASSUME TypeInv, NEW open \in SUBSET {k \in 1..MaxRow : Open(k)},
           NEW j \in open, NEW k \in open, j # k
    PROVE  j \in Superseded(open) \/ k \in Superseded(open)
<1>1. /\ payout[j].status \in {"requested", "processing"}
      /\ payout[k].status \in {"requested", "processing"}
      /\ j \in Nat /\ k \in Nat
  BY NoneIsNobody DEF Open
<1>2. j < k \/ k < j
  BY <1>1
<1> QED BY <1>1, <1>2 DEF Superseded

LEMMA RepointInv ==
    ASSUME IInv, NEW o \in Ops, Repoint(o)
    PROVE  IInv'
<1> DEFINE s == op[o].u
           l == op[o].v
           open == {k \in DOMAIN payout : Open(k) /\ payout[k].user \in {s, l}}
           out == {<<"payout", k>> : k \in Superseded(open)}
           q == [op[o] EXCEPT !.pc = "commit", !.moved = Children(l), !.reject = out]
<1>1. TypeInv /\ RefInv /\ OverlapInv /\ Fits(op[o]) /\ op[o] \in Operations
  BY DEF IInv, InFlight, TypeInv
<1>2. /\ op[o].kind = "merge" /\ op[o].pc = "repoint"
      /\ UNCHANGED <<tables, panel, history, overlapped, begun, faults>>
      /\ op' = [op EXCEPT ![o].pc = "commit", ![o].moved = Children(l), ![o].reject = out]
  BY DEF Repoint, At
<1>3. /\ faults' \in 0..MaxFaults /\ faults' = faults /\ begun' \in 0..MaxBegun
      /\ overlapped' = overlapped /\ overlapped \subseteq Kinds \cup {"trial"}
  BY <1>1, <1>2 DEF TypeInv
<1>4. /\ Merging(op[o]) /\ Chosen(op[o]) /\ s \in Accounts /\ l \in Accounts /\ s # l
      /\ op[o].seen \in Seen /\ (op[o].seen.s.tg = None \/ op[o].seen.l.tg = None)
  BY <1>1, <1>2 DEF Fits, Shape, Merging, Chosen
<1>5. Superseded(open) \subseteq open /\ open \subseteq {k \in 1..MaxRow : Open(k)}
  BY <1>1 DEF Superseded, TypeInv
<1>6. Children(l) \in SUBSET Things /\ out \in SUBSET Things
  <2>1. DOMAIN row \subseteq Nat /\ DOMAIN payout \subseteq Nat /\ Accounts \subseteq Nat
    BY <1>1, NoneIsNobody DEF TypeInv
  <2>2. Children(l) \subseteq Things
    <3>1. Rows(l) \subseteq Things /\ Payouts(l) \subseteq Things
      BY <2>1 DEF Rows, Payouts, Things
    <3>2. Events(l) \subseteq Things
      BY DEF Events, Things
    <3>3. Edges(l) \subseteq Things /\ Codes(l) \subseteq Things
      BY <2>1 DEF Edges, Codes, Things
    <3> QED BY <3>1, <3>2, <3>3 DEF Children
  <2>3. out \subseteq Things
    <3>1. \A k \in Superseded(open) : k \in Nat
      BY <1>5, NoneIsNobody
    <3> HIDE DEF open
    <3> QED BY <3>1 DEF Things
  <2> QED BY <2>2, <2>3
<1> HIDE DEF out
<1>7. op' = [op EXCEPT ![o] = q]
  BY <1>1, <1>2 DEF TypeInv
<1>8. /\ q \in Operations /\ q.kind = "merge" /\ q.pc = "commit" /\ q.best = op[o].best
      /\ q.u = s /\ q.v = l /\ q.seen = op[o].seen /\ q.moved = Children(l) /\ q.reject = out
  BY <1>1, <1>2, <1>6 DEF Operations
<1> HIDE DEF q
<1>9. Merging(q) /\ Chosen(q) /\ Moving(q)
  BY <1>8 DEF Merging, Chosen, Moving
<1>10. Shape(q)
  BY <1>4, <1>8 DEF Shape
<1>11. MergeView(q) /\ TrialView(q)
  BY <1>1, <1>4, <1>8 DEF Fits, MergeView, TrialView
<1>12. PaidView(q)
  BY <1>1, <1>4, <1>8 DEF Fits, PaidView
<1>13. \A k \in 1..MaxRow : payout[k] # None /\ payout[k].user = l => <<"payout", k>> \in q.moved
  BY <1>1, <1>8 DEF Children, Payouts, TypeInv
<1>14. \A r \in 1..MaxRow : row[r] # None /\ row[r].user = l => <<"row", r>> \in q.moved
  BY <1>1, <1>8 DEF Children, Rows, TypeInv
<1>15. \A k : <<"payout", k>> \in q.reject <=> k \in Superseded(open)
  BY <1>8 DEF out
<1>16. RejectView(q)
  BY <1>5, <1>8, <1>13, <1>15 DEF RejectView, Open
<1>17. PayoutView(q)
  <2>1. ASSUME NEW j \in 1..MaxRow, NEW k \in 1..MaxRow, j # k, Open(j), Open(k),
               payout[j].user \in {s, l}, payout[k].user \in {s, l}
        PROVE  <<"payout", j>> \in q.reject \/ <<"payout", k>> \in q.reject
    <3>1. j \in open /\ k \in open
      BY <1>1, <2>1 DEF TypeInv
    <3> HIDE DEF open
    <3> QED BY <1>1, <1>5, <1>15, <2>1, <3>1, OneIsSuperseded
  <2> QED BY <1>8, <1>13, <2>1 DEF PayoutView
<1>18. BuyView(q)
  BY <1>8 DEF BuyView
<1>19. PanelView(q)
  BY <1>1, <1>4, <1>8, <1>14 DEF Fits, PanelView
<1>20. Fits(q)
  BY <1>10, <1>11, <1>12, <1>16, <1>17, <1>18, <1>19 DEF Fits
<1>21. OverlapInv'
  <2>1. q.kind \in {"none", op[o].kind}
    BY <1>2, <1>8
  <2> QED BY <1>1, <1>3, <1>7, <2>1, OverlapStill
<1> QED BY <1>2, <1>3, <1>7, <1>8, <1>20, <1>21, OpStep

LEMMA GiveUpInv ==
    ASSUME IInv, NEW o \in Ops, MergeFails(o) \/ Crash(o)
    PROVE  IInv'
<1>1. TypeInv /\ MaxFaults \in Nat
  BY MergeAssumption DEF IInv
<1>2. CASE MergeFails(o)
  <2>1. /\ op[o].pc # "panel" /\ Drop(o)
        /\ UNCHANGED <<tables, panel, history, overlapped, begun, faults>>
    BY <1>2 DEF MergeFails, At
  <2>2. faults' \in 0..MaxFaults
    BY <1>1, <2>1 DEF TypeInv
  <2> QED BY <2>1, <2>2, DropInv
<1>3. CASE Crash(o)
  <2>1. Drop(o) /\ UNCHANGED <<tables, panel, history, overlapped, begun>>
    BY <1>3 DEF Crash
  <2>2. faults' \in 0..MaxFaults /\ faults' # 0
    BY <1>1, <1>3 DEF Crash, Fault, TypeInv
  <2> QED BY <2>1, <2>2, DropInv
<1> QED BY <1>2, <1>3

LEMMA ReadCurrentInv ==
    ASSUME IInv, NEW o \in Ops, ReadCurrent(o)
    PROVE  IInv'
<1>1. TypeInv /\ RefInv /\ CurrentInv
  BY DEF IInv
<1>2. PICK u \in exists, wish \in {"renew", "change"} :
         Begin(o, [Idle EXCEPT !.kind = "buy", !.pc = "write", !.u = u,
               !.seen = IF current[u] = None THEN Name(u) ELSE current[u],
               !.how = IF current[u] = None THEN "new"
                       ELSE IF ~row[current[u]].paid THEN "change" ELSE wish])
  BY DEF ReadCurrent
<1>3. UNCHANGED <<tables, panel, history, faults>>
  BY DEF ReadCurrent
<1> DEFINE seen == IF current[u] = None THEN Name(u) ELSE current[u]
           how == IF current[u] = None THEN "new"
                  ELSE IF ~row[current[u]].paid THEN "change" ELSE wish
           q == [Idle EXCEPT !.kind = "buy", !.pc = "write", !.u = u, !.seen = seen, !.how = how]
<1>4. /\ u \in Accounts /\ id[u] \in Ids /\ Name(u) \in Nat
      /\ current[u] # None => current[u] \in 1..MaxRow /\ current[u] \in Nat
  <2>1. u \in Accounts /\ u \in Nat /\ id[u] \in Ids
    BY <1>1, NoneIsNobody DEF TypeInv
  <2>2. Name(u) \in Nat
    BY <2>1 DEF Name, Ids
  <2>3. current[u] # None => current[u] \in 1..MaxRow /\ current[u] \in Nat
    BY <1>1, <2>1, NoneIsNobody DEF TypeInv
  <2> QED BY <2>1, <2>2, <2>3
<1>5. /\ seen \in Nat /\ how \in {"new", "renew", "change"}
      /\ how # "new" <=> current[u] # None
      /\ current[u] = None => seen = Name(u)
      /\ current[u] # None => seen = current[u] /\ seen \in 1..MaxRow
  BY <1>4
<1> HIDE DEF seen, how
<1>6. Begin(o, q)
  BY <1>2 DEF seen, how
<1>7. "buy" \in Kinds
  <2>1. q.kind = "buy"
    BY IdleFits DEF Operations
  <2> HIDE DEF q
  <2> QED BY <1>6, <2>1 DEF Begin
<1>8. /\ q \in Operations /\ q.kind = "buy" /\ q.pc = "write" /\ q.u = u /\ q.seen = seen
      /\ q.how = how
  BY <1>4, <1>5, <1>7, IdleFits DEF Operations
<1> HIDE DEF q
<1>9. ~Merging(q) /\ ~Chosen(q) /\ ~Moving(q)
  BY <1>8 DEF Merging, Chosen, Moving
<1>10. Shape(q)
  BY <1>4, <1>5, <1>8, <1>9 DEF Shape
<1>11. BuyView(q)
  <2> SUFFICES ASSUME Apart({"buy", "merge"}) PROVE BuyView(q)
    BY DEF BuyView
  <2>1. Apart({"merge"})
    BY DEF Apart
  <2>2. current[u] # None => row[current[u]] # None /\ row[current[u]].user = u
    BY <1>1, <1>4, <2>1 DEF RefInv, CurrentInv
  <2> QED BY <1>5, <1>8, <2>2 DEF BuyView
<1>12. PanelView(q)
  BY <1>5, <1>8, <1>9 DEF PanelView
<1>13. MergeView(q) /\ TrialView(q) /\ RejectView(q) /\ PaidView(q) /\ PayoutView(q)
  BY <1>8, <1>9 DEF MergeView, TrialView, RejectView, PaidView, PayoutView
<1>14. Fits(q)
  BY <1>10, <1>11, <1>12, <1>13 DEF Fits
<1> QED BY <1>3, <1>6, <1>8, <1>14, BeginInv

LEMMA AskPayoutInv ==
    ASSUME IInv, NEW o \in Ops, AskPayout(o)
    PROVE  IInv'
<1>1. TypeInv
  BY DEF IInv
<1>2. PICK u \in exists :
         /\ \A k \in DOMAIN payout : Open(k) => payout[k].user # u
         /\ Begin(o, [Idle EXCEPT !.kind = "request", !.pc = "write", !.u = u])
  BY DEF AskPayout
<1>3. UNCHANGED <<tables, panel, history, faults>>
  BY DEF AskPayout
<1> DEFINE q == [Idle EXCEPT !.kind = "request", !.pc = "write", !.u = u]
<1>4. u \in Accounts
  BY <1>1 DEF TypeInv
<1>5. "request" \in Kinds
  <2>1. q.kind = "request"
    BY IdleFits DEF Operations
  <2> QED BY <1>2, <2>1 DEF Begin
<1>6. q \in Operations /\ q.kind = "request" /\ q.pc = "write" /\ q.u = u
  BY <1>4, <1>5, IdleFits DEF Operations
<1>7. Begin(o, q)
  BY <1>2
<1> HIDE DEF q
<1>8. ~Merging(q) /\ ~Chosen(q) /\ ~Moving(q)
  BY <1>6 DEF Merging, Chosen, Moving
<1>9. Shape(q)
  BY <1>4, <1>6, <1>8 DEF Shape
<1>10. PayoutView(q)
  BY <1>1, <1>2, <1>6, <1>8 DEF PayoutView, TypeInv
<1>11. /\ MergeView(q) /\ TrialView(q) /\ RejectView(q) /\ PaidView(q) /\ BuyView(q)
       /\ PanelView(q)
  BY <1>6, <1>8 DEF MergeView, TrialView, RejectView, PaidView, BuyView, PanelView
<1>12. Fits(q)
  BY <1>9, <1>10, <1>11 DEF Fits
<1> QED BY <1>3, <1>6, <1>7, <1>12, BeginInv

\* What has read two accounts claims no more of the tables.
LEMMA TwoFit ==
    ASSUME NEW q, q.kind \in {"commission", "attach"}, q.pc = "write",
           q.u \in Accounts, q.v \in Accounts, q.u # q.v,
           q.kind = "commission" => q.seen \in Payments
    PROVE  Fits(q)
<1>1. ~Merging(q) /\ ~Chosen(q) /\ ~Moving(q)
  BY DEF Merging, Chosen, Moving
<1>2. Shape(q)
  BY <1>1 DEF Shape
<1> QED BY <1>1, <1>2 DEF Fits, MergeView, TrialView, RejectView, PaidView, BuyView,
           PayoutView, PanelView

LEMMA ReadInviterInv ==
    ASSUME IInv, NEW o \in Ops, ReadInviter(o)
    PROVE  IInv'
<1>1. TypeInv /\ RefInv /\ NoSelfReferral
  BY DEF IInv
<1>2. PICK u \in exists, p \in Payments :
         /\ inviter[u] # None
         /\ Begin(o, [Idle EXCEPT !.kind = "commission", !.pc = "write", !.u = u,
                                  !.v = inviter[u], !.seen = p])
  BY DEF ReadInviter
<1>3. UNCHANGED <<tables, panel, history, faults>>
  BY DEF ReadInviter
<1> DEFINE v == inviter[u]
           q == [Idle EXCEPT !.kind = "commission", !.pc = "write", !.u = u, !.v = v, !.seen = p]
<1>4. u \in Accounts /\ v \in Accounts /\ u # v
  BY <1>1, <1>2 DEF TypeInv, NoSelfReferral
<1>5. Begin(o, q)
  BY <1>2
<1> HIDE DEF v
<1>6. "commission" \in Kinds
  <2>1. q.kind = "commission"
    BY IdleFits DEF Operations
  <2> HIDE DEF q
  <2> QED BY <1>5, <2>1 DEF Begin
<1>7. /\ q \in Operations /\ q.kind = "commission" /\ q.pc = "write" /\ q.u = u /\ q.v = v
      /\ q.seen = p
  BY <1>4, <1>6, IdleFits DEF Operations
<1> HIDE DEF q
<1>8. Fits(q)
  BY <1>4, <1>7, TwoFit
<1> QED BY <1>3, <1>5, <1>7, <1>8, BeginInv

LEMMA ReadCodeInv ==
    ASSUME IInv, NEW o \in Ops, ReadCode(o)
    PROVE  IInv'
<1>1. TypeInv /\ RefInv /\ HeirInv
  BY DEF IInv
<1>2. PICK u \in exists, c \in Accounts :
         /\ MayAttach(u, OwnerOf(c))
         /\ Begin(o, [Idle EXCEPT !.kind = "attach", !.pc = "write", !.u = u, !.v = OwnerOf(c)])
  BY DEF ReadCode
<1>3. UNCHANGED <<tables, panel, history, faults>>
  BY DEF ReadCode
<1> DEFINE v == OwnerOf(c)
           q == [Idle EXCEPT !.kind = "attach", !.pc = "write", !.u = u, !.v = v]
<1>4. u \in Accounts /\ v \in Accounts /\ u # v
  BY <1>1, <1>2 DEF TypeInv, MayAttach, OwnerOf
<1>5. Begin(o, q)
  BY <1>2
<1> HIDE DEF v
<1>6. "attach" \in Kinds
  <2>1. q.kind = "attach"
    BY IdleFits DEF Operations
  <2> HIDE DEF q
  <2> QED BY <1>5, <2>1 DEF Begin
<1>7. q \in Operations /\ q.kind = "attach" /\ q.pc = "write" /\ q.u = u /\ q.v = v
  BY <1>4, <1>6, IdleFits DEF Operations
<1> HIDE DEF q
<1>8. Fits(q)
  BY <1>4, <1>7, TwoFit
<1> QED BY <1>3, <1>5, <1>7, <1>8, BeginInv

-----------------------------------------------------------------------------
(* The steps that write subscriptions beside a merge.                       *)

LEMMA NextIdIsFree ==
    ASSUME NEW tbl, NEW tag, Room(tbl, tag)
    PROVE  NextId(tbl, tag) \in DOMAIN tbl /\ tbl[NextId(tbl, tag)] = None
<1>1. NextId(tbl, tag) \in NextIds(tbl, tag)
  BY DEF Room, NextId
<1> QED BY <1>1 DEF NextIds

LEMMA NameIsOwn ==
    ASSUME TypeInv, HeirInv, NEW u \in exists
    PROVE  /\ Name(u) \in Nat
           /\ IF Name(u) \in Accounts THEN u = heir[Name(u)] ELSE id[u].tg = Name(u)
<1>1. u \in Accounts /\ u \in Nat /\ id[u] \in Ids /\ heir[u] = u
  BY NoneIsNobody DEF TypeInv, HeirInv
<1>2. id[u].tg # None => id[u].tg \in Nat \ Accounts
  BY <1>1 DEF Ids
<1> QED BY <1>1, <1>2 DEF Name

\* The operations beside one that is no merge are idle or are merges it overlaps.
LEMMA Beside ==
    ASSUME TypeInv, OverlapInv, NEW o \in Ops, op[o].kind \notin {"none", "merge"}, Drop(o),
           overlapped' = overlapped
    PROVE  /\ OverlapInv' /\ op' \in [Ops -> Operations] /\ op'[o] = Idle
           /\ \A p \in Ops \ {o} :
                 /\ op'[p] = op[p] /\ op[p].kind \in {"none", "merge"}
                 /\ op[p].kind = "merge" => op[o].kind \in overlapped
           /\ \A p \in Cleaning : p \in Cleaning' /\ op'[p].orphans = op[p].orphans
<1>1. op' = [op EXCEPT ![o] = Idle]
  BY DEF Drop
<1>2. OverlapInv'
  BY <1>1, IdleFits, OverlapStill
<1>3. op' \in [Ops -> Operations] /\ op'[o] = Idle /\ \A p \in Ops \ {o} : op'[p] = op[p]
  BY <1>1, IdleFits DEF TypeInv
<1>4. ASSUME NEW p \in Ops \ {o}
      PROVE  /\ op[p].kind \in {"none", "merge"}
             /\ op[p].kind = "merge" => op[o].kind \in overlapped
  BY DEF OverlapInv
<1>5. \A p \in Cleaning : p \in Cleaning' /\ op'[p].orphans = op[p].orphans
  BY <1>3 DEF Cleaning
<1> QED BY <1>2, <1>3, <1>4, <1>5

\* A purchase disturbs no merge but those it overlaps.
LEMMA BoughtBeside ==
    ASSUME UNCHANGED <<exists, id, payout, overlapped>>,
           \A r \in 1..MaxRow : row[r] # None => row'[r] # None /\ row'[r].user = row[r].user,
           NEW q, Fits(q), q.kind \in {"none", "merge"}, q.kind = "merge" => "buy" \in overlapped,
           q.kind = "merge" => q.best \in (1..MaxRow) \cup {None}
    PROVE  Fits(q)'
<1>1. CASE q.kind = "none"
  <2>1. Shape(q) /\ ~Moving(q)
    BY <1>1 DEF Fits, Moving
  <2>2. RejectView(q)'
    BY <2>1 DEF RejectView, Moving
  <2> QED BY <1>1, <2>1, <2>2, Overlapped
<1>2. CASE q.kind = "merge"
  <2>1. "buy" \in overlapped'
    BY <1>2
  <2>2. /\ ~Apart({"trial", "buy", "merge"})' /\ ~Apart({"buy", "merge"})'
        /\ overlapped' # {}
    BY <2>1 DEF Apart
  <2>3. Shape(q)' /\ RejectView(q)'
    BY DEF Fits, Shape, RejectView, Merging, Moving
  <2>4. MergeView(q)'
    BY <1>2 DEF Fits, MergeView, Merging, Chosen, Apart
  <2>5. PayoutView(q)'
    BY DEF Fits, PayoutView, Moving, Open, Apart
  <2> QED BY <1>2, <2>2, <2>3, <2>4, <2>5 DEF Fits, TrialView, PaidView, BuyView, PanelView
<1> QED BY <1>1, <1>2

\* A new subscription that becomes the current one of its owner.
LEMMA Inserted ==
    ASSUME TypeInv, RefInv, NameInv, CurrentInv, UnspentInv, PanelInv,
           UNCHANGED <<exists, id, heir, inviter, event, payout, faults>>,
           overlapped \subseteq overlapped',
           NEW u \in exists, NEW n \in 1..MaxRow, NEW name \in Nat, NEW paid \in BOOLEAN,
           row[n] = None, row'[n] = NewRow(u, name, paid),
           \A r \in (1..MaxRow) \ {n} :
               /\ row[r] = None <=> row'[r] = None
               /\ row[r] # None => row'[r].user = row[r].user /\ row'[r].remna = row[r].remna,
           current' = [current EXCEPT ![u] = n],
           \A x \in Accounts \ {u} : unspent'[x] = unspent[x],
           Apart({"trial", "buy", "merge"})' => ~unspent'[u],
           Apart({"buy", "merge"})' =>
               IF name \in Accounts THEN u = heir[name] ELSE id[u].tg = name,
           overlapped' = {} => /\ panel' \subseteq panel \cup {name}
                               /\ current[u] # None => row[current[u]].remna = name,
           \A p \in Cleaning : p \in Cleaning' /\ op'[p].orphans = op[p].orphans
    PROVE  RefInv' /\ NameInv' /\ CurrentInv' /\ UnspentInv' /\ PanelInv'
<1>1. /\ u \in Accounts /\ n # None /\ exists \subseteq Accounts
      /\ current \in [Accounts -> (1..MaxRow) \cup {None}]
  BY NoneIsNobody DEF TypeInv
<1>2. row'[n] # None /\ row'[n].user = u /\ row'[n].remna = name
  <2>1. NewRow(u, name, paid) \in Subscriptions
    BY <1>1 DEF NewRow, Subscriptions
  <2>2. NewRow(u, name, paid).user = u /\ NewRow(u, name, paid).remna = name
    BY DEF NewRow
  <2> QED BY <2>1, <2>2, NoneIsNobody
<1>3. current'[u] = n /\ \A x \in Accounts \ {u} : current'[x] = current[x]
  BY <1>1
<1>4. \A x \in Accounts : current[x] # None =>
         current[x] \in (1..MaxRow) \ {n} /\ row[current[x]] # None
  BY <1>1 DEF RefInv
<1>5. RefInv'
  <2>1. \A r \in 1..MaxRow : row'[r] # None => row'[r].user \in exists
    BY <1>2 DEF RefInv
  <2>2. \A x \in Accounts : current'[x] # None => x \in exists /\ row'[current'[x]] # None
    BY <1>2, <1>3, <1>4 DEF RefInv
  <2> QED BY <2>1, <2>2 DEF RefInv
<1>6. NameInv'
  <2>1. ASSUME Apart({"buy", "merge"})', NEW r \in 1..MaxRow, row'[r] # None
        PROVE  IF row'[r].remna \in Accounts THEN row'[r].user = heir[row'[r].remna]
               ELSE id[row'[r].user].tg = row'[r].remna
    <3>1. Apart({"buy", "merge"})
      BY <2>1, ApartBefore
    <3>2. CASE r = n
      BY <1>2, <2>1, <3>2
    <3>3. CASE r # n
      BY <2>1, <3>1, <3>3 DEF NameInv
    <3> QED BY <3>2, <3>3
  <2>2. \A x, w \in exists : x # w /\ id[x].tg # None => id[x].tg # id[w].tg
    BY DEF NameInv
  <2> QED BY <2>1, <2>2 DEF NameInv
<1>7. CurrentInv'
  <2> SUFFICES ASSUME Apart({"merge"})', NEW x \in Accounts, current'[x] # None
               PROVE  row'[current'[x]].user = x
    BY DEF CurrentInv
  <2>1. Apart({"merge"})
    BY ApartBefore
  <2>2. CASE x = u
    BY <1>2, <1>3, <2>2
  <2>3. CASE x # u
    BY <1>3, <1>4, <2>1, <2>3 DEF CurrentInv
  <2> QED BY <2>2, <2>3
<1>8. UnspentInv'
  <2> SUFFICES ASSUME Apart({"trial", "buy", "merge"})', NEW r \in 1..MaxRow, row'[r] # None
               PROVE  ~unspent'[row'[r].user]
    BY DEF UnspentInv
  <2>1. Apart({"trial", "buy", "merge"})
    BY ApartBefore
  <2>2. CASE r = n
    BY <1>2, <2>2
  <2>3. CASE r # n
    <3>1. /\ row'[r].user = row[r].user /\ ~unspent[row[r].user] /\ row[r].user \in Accounts
      BY <1>1, <2>1, <2>3 DEF UnspentInv, RefInv
    <3> QED BY <3>1
  <2> QED BY <2>2, <2>3
<1>9. PanelInv'
  <2> SUFFICES ASSUME faults = 0, overlapped' = {}, NEW x \in panel'
               PROVE  \/ \E w \in exists : current'[w] # None /\ row'[current'[w]].remna = x
                      \/ \E p \in Cleaning' : x \in op'[p].orphans
    BY DEF PanelInv
  <2>1. CASE x = name
    BY <1>1, <1>2, <1>3, <2>1
  <2>2. CASE x # name
    <3>1. x \in panel /\ overlapped = {}
      BY <2>2
    <3>2. CASE \E p \in Cleaning : x \in op[p].orphans
      BY <3>2
    <3>3. CASE \E w \in exists : current[w] # None /\ row[current[w]].remna = x
      <4>1. PICK w \in exists : current[w] # None /\ row[current[w]].remna = x
        BY <3>3
      <4>2. w # u /\ w \in Accounts
        BY <1>1, <2>2, <4>1
      <4>3. current'[w] # None /\ row'[current'[w]].remna = x
        BY <1>3, <1>4, <4>1, <4>2
      <4> QED BY <4>3
    <3> QED BY <3>1, <3>2, <3>3 DEF PanelInv
  <2> QED BY <2>1, <2>2
<1> QED BY <1>5, <1>6, <1>7, <1>8, <1>9

\* Whose a subscription is, and for whom on the panel, stays as it is.
LEMMA RowsAlike ==
    ASSUME TypeInv, RefInv, NameInv, CurrentInv, UnspentInv, PanelInv,
           UNCHANGED <<exists, id, unspent, current, heir, inviter, event, payout, faults,
                       overlapped>>,
           overlapped = {} => panel' \subseteq panel,
           \A r \in 1..MaxRow :
               /\ row[r] = None <=> row'[r] = None
               /\ row[r] # None => row'[r].user = row[r].user /\ row'[r].remna = row[r].remna,
           \A p \in Cleaning : p \in Cleaning' /\ op'[p].orphans = op[p].orphans
    PROVE  RefInv' /\ NameInv' /\ CurrentInv' /\ UnspentInv' /\ PanelInv'
<1>1. \A K : Apart(K)' <=> Apart(K)
  BY DEF Apart
<1>2. \A x \in Accounts : current[x] # None => current[x] \in 1..MaxRow /\ row[current[x]] # None
  BY DEF TypeInv, RefInv
<1>3. RefInv'
  BY <1>2 DEF RefInv
<1>4. NameInv' /\ UnspentInv'
  BY <1>1 DEF NameInv, UnspentInv
<1>5. CurrentInv'
  BY <1>1, <1>2 DEF CurrentInv
<1>6. PanelInv'
  <2> SUFFICES ASSUME faults = 0, overlapped = {}, NEW x \in panel
               PROVE  \/ \E w \in exists : current[w] # None /\ row'[current[w]].remna = x
                      \/ \E p \in Cleaning' : x \in op'[p].orphans
    BY DEF PanelInv
  <2>1. exists \subseteq Accounts
    BY DEF TypeInv
  <2>2. CASE \E p \in Cleaning : x \in op[p].orphans
    BY <2>2
  <2>3. CASE \E w \in exists : current[w] # None /\ row[current[w]].remna = x
    BY <1>2, <2>1, <2>3
  <2> QED BY <2>2, <2>3 DEF PanelInv
<1> QED BY <1>3, <1>4, <1>5, <1>6

\* What reads no other table is as it was.
LEMMA LinksStill ==
    ASSUME HeirInv, NoSelfReferral, CommissionsFollow,
           UNCHANGED <<exists, inviter, event, alias, heir, earned, lost>>
    PROVE  HeirInv' /\ NoSelfReferral' /\ CommissionsFollow'
  BY DEF HeirInv, NoSelfReferral, CommissionsFollow

LEMMA OpenStill ==
    ASSUME OneOpenPayout, payout' = payout, overlapped \subseteq overlapped'
    PROVE  OneOpenPayout'
<1>1. \A K : Apart(K)' => Apart(K)
  BY ApartBefore
<1> QED BY <1>1 DEF OneOpenPayout, Open

LEMMA BuyNewInv ==
    ASSUME IInv, NEW o \in Ops, BuyNew(o)
    PROVE  IInv'
<1> DEFINE u == op[o].u
           name == op[o].seen
           n == NextId(row, "row")
           rec == NewRow(u, name, TRUE)
<1>1. /\ TypeInv /\ RefInv /\ HeirInv /\ NoSelfReferral /\ CommissionsFollow /\ NameInv
      /\ CurrentInv /\ UnspentInv /\ OneOpenPayout /\ PanelInv /\ OverlapInv
      /\ \A p \in Ops : Fits(op[p])
  BY DEF IInv, InFlight
<1>2. /\ op[o].kind = "buy" /\ op[o].how = "new" /\ Room(row, "row") /\ Drop(o)
      /\ panel' = panel \cup {name}
      /\ UNCHANGED <<exists, id, inviter, event, payout, alias, heir, earned, lost, overlapped,
                     begun, faults>>
  BY DEF BuyNew, At, history
<1>3. /\ IF u \in exists /\ name \notin panel
         THEN /\ row' = [row EXCEPT ![n] = rec]
              /\ current' = [current EXCEPT ![u] = n]
              /\ unspent' = [unspent EXCEPT ![u] = FALSE]
         ELSE UNCHANGED <<row, current, unspent>>
  BY DEF BuyNew
<1>4. /\ OverlapInv' /\ op' \in [Ops -> Operations] /\ op'[o] = Idle
      /\ \A p \in Ops \ {o} :
            /\ op'[p] = op[p] /\ op[p].kind \in {"none", "merge"}
            /\ op[p].kind = "merge" => "buy" \in overlapped
      /\ \A p \in Cleaning : p \in Cleaning' /\ op'[p].orphans = op[p].orphans
  BY <1>1, <1>2, Beside
<1>5. u \in Accounts /\ name \in Nat /\ BuyView(op[o]) /\ PanelView(op[o])
  BY <1>1, <1>2 DEF Fits, Shape
<1>6. n \in 1..MaxRow /\ row[n] = None
  BY <1>1, <1>2, NextIdIsFree DEF TypeInv
<1> HIDE DEF u, name, n
<1>7. rec \in Subscriptions
  BY <1>5 DEF NewRow, Subscriptions
<1>8. /\ TypeInv'
      /\ \A r \in 1..MaxRow : row[r] # None => row'[r] # None /\ row'[r].user = row[r].user
  <2>1. CASE u \in exists /\ name \notin panel
    <3>1. /\ row' = [row EXCEPT ![n] = rec] /\ current' = [current EXCEPT ![u] = n]
          /\ unspent' = [unspent EXCEPT ![u] = FALSE]
      BY <1>3, <2>1
    <3>2. \A r \in 1..MaxRow : row[r] # None => row'[r] = row[r]
      BY <1>1, <1>6, <3>1 DEF TypeInv
    <3>3. /\ row' \in [1..MaxRow -> Subscriptions \cup {None}]
          /\ current' \in [Accounts -> (1..MaxRow) \cup {None}]
          /\ unspent' \in [Accounts -> BOOLEAN] /\ panel' \subseteq Nat
      BY <1>1, <1>2, <1>5, <1>6, <1>7, <3>1 DEF TypeInv
    <3> QED BY <1>1, <1>2, <1>4, <3>2, <3>3 DEF TypeInv
  <2>2. CASE ~(u \in exists /\ name \notin panel)
    <3>1. UNCHANGED <<row, current, unspent>> /\ panel' \subseteq Nat
      BY <1>1, <1>2, <1>3, <1>5, <2>2 DEF TypeInv
    <3> QED BY <1>1, <1>2, <1>4, <3>1 DEF TypeInv
  <2> QED BY <2>1, <2>2
<1>9. RefInv' /\ NameInv' /\ CurrentInv' /\ UnspentInv' /\ PanelInv'
  <2>1. CASE u \in exists /\ name \notin panel
    <3>1. /\ row' = [row EXCEPT ![n] = rec] /\ current' = [current EXCEPT ![u] = n]
          /\ unspent' = [unspent EXCEPT ![u] = FALSE]
      BY <1>3, <2>1
    <3>2. row'[n] = rec /\ \A r \in (1..MaxRow) \ {n} : row'[r] = row[r]
      BY <1>1, <1>6, <3>1 DEF TypeInv
    <3>3. ~unspent'[u] /\ \A x \in Accounts \ {u} : unspent'[x] = unspent[x]
      BY <1>1, <1>5, <3>1 DEF TypeInv
    <3>4. Apart({"buy", "merge"})' =>
             IF name \in Accounts THEN u = heir[name] ELSE id[u].tg = name
      <4>1. Apart({"buy", "merge"})' => name = Name(u)
        BY <1>2, <1>5 DEF BuyView, Apart, u, name
      <4> QED BY <1>1, <2>1, <4>1, NameIsOwn
    <3>5. overlapped = {} => current[u] = None
      BY <1>2, <1>5, <2>1 DEF PanelView, u, name
    <3>6. panel' \subseteq panel \cup {name} /\ overlapped \subseteq overlapped'
      BY <1>2
    <3>7. UNCHANGED <<exists, id, heir, inviter, event, payout, faults>> /\ overlapped' = overlapped
      BY <1>2
    <3>8. /\ row'[n] = NewRow(u, name, TRUE)
          /\ \A r \in (1..MaxRow) \ {n} :
                /\ row[r] = None <=> row'[r] = None
                /\ row[r] # None => row'[r].user = row[r].user /\ row'[r].remna = row[r].remna
      BY <3>2
    <3>9. overlapped' = {} => /\ panel' \subseteq panel \cup {name}
                              /\ current[u] # None => row[current[u]].remna = name
      BY <3>5, <3>6, <3>7
    <3> HIDE DEF rec
    <3> QED BY <1>1, <1>4, <1>5, <1>6, <2>1, <3>1, <3>3, <3>4, <3>6, <3>7, <3>8, <3>9, Inserted
  <2>2. CASE ~(u \in exists /\ name \notin panel)
    <3>1. UNCHANGED <<row, current, unspent>>
      BY <1>3, <2>2
    <3>2. overlapped = {} => panel' \subseteq panel
      <4>1. overlapped = {} => u \in exists
        BY <1>2, <1>5 DEF BuyView, Apart, u
      <4> QED BY <1>2, <2>2, <4>1
    <3> QED BY <1>1, <1>2, <1>4, <3>1, <3>2, RowsAlike
  <2> QED BY <2>1, <2>2
<1>10. HeirInv' /\ NoSelfReferral' /\ CommissionsFollow' /\ OneOpenPayout'
  BY <1>1, <1>2, LinksStill, OpenStill
<1>11. ASSUME NEW p \in Ops, NEW q, q = op'[p] PROVE Fits(q)'
  <2>1. Fits(q) /\ q.kind \in {"none", "merge"} /\ (q.kind = "merge" => "buy" \in overlapped)
    BY <1>1, <1>4, <1>11, IdleFits
  <2>2. q.best \in (1..MaxRow) \cup {None}
    BY <1>4, <1>11 DEF Operations
  <2> QED BY <1>2, <1>8, <2>1, <2>2, BoughtBeside
<1> QED BY <1>4, <1>8, <1>9, <1>10, <1>11 DEF IInv, InFlight

LEMMA RenewInv ==
    ASSUME IInv, NEW o \in Ops, Renew(o)
    PROVE  IInv'
<1> DEFINE r == op[o].seen
<1>1. /\ TypeInv /\ RefInv /\ HeirInv /\ NoSelfReferral /\ CommissionsFollow /\ NameInv
      /\ CurrentInv /\ UnspentInv /\ OneOpenPayout /\ PanelInv /\ OverlapInv
      /\ \A p \in Ops : Fits(op[p])
  BY DEF IInv, InFlight
<1>2. /\ op[o].kind = "buy" /\ op[o].how = "renew" /\ Drop(o)
      /\ row' = IF row[r] # None /\ row[r].remna \in panel
                THEN [row EXCEPT ![r].ahead = TRUE] ELSE row
      /\ UNCHANGED <<exists, id, unspent, current, panel, inviter, event, payout, alias, heir,
                     earned, lost, overlapped, begun, faults>>
  BY DEF Renew, At, history
<1>3. /\ OverlapInv' /\ op' \in [Ops -> Operations] /\ op'[o] = Idle
      /\ \A p \in Ops \ {o} :
            /\ op'[p] = op[p] /\ op[p].kind \in {"none", "merge"}
            /\ op[p].kind = "merge" => "buy" \in overlapped
      /\ \A p \in Cleaning : p \in Cleaning' /\ op'[p].orphans = op[p].orphans
  BY <1>1, <1>2, Beside
<1>4. r \in 1..MaxRow
  BY <1>1, <1>2 DEF Fits, Shape
<1> HIDE DEF r
<1>5. /\ row' \in [1..MaxRow -> Subscriptions \cup {None}]
      /\ \A i \in 1..MaxRow :
            /\ row[i] = None <=> row'[i] = None
            /\ row[i] # None => row'[i].user = row[i].user /\ row'[i].remna = row[i].remna
  <2>1. CASE row' = row
    BY <1>1, <2>1 DEF TypeInv
  <2>2. CASE row[r] # None /\ row' = [row EXCEPT ![r].ahead = TRUE]
    <3> DEFINE d == [row[r] EXCEPT !.ahead = TRUE]
    <3>1. row[r] \in Subscriptions /\ row' = [row EXCEPT ![r] = d]
      BY <1>1, <1>4, <2>2 DEF TypeInv
    <3>2. d \in Subscriptions /\ d.user = row[r].user /\ d.remna = row[r].remna
      BY <3>1 DEF Subscriptions
    <3> HIDE DEF d
    <3>3. d # None
      BY <3>2, NoneIsNobody
    <3> QED BY <1>1, <1>4, <2>2, <3>1, <3>2, <3>3 DEF TypeInv
  <2> QED BY <1>2, <2>1, <2>2
<1>6. TypeInv'
  BY <1>1, <1>2, <1>3, <1>5 DEF TypeInv
<1>7. RefInv' /\ NameInv' /\ CurrentInv' /\ UnspentInv' /\ PanelInv'
  BY <1>1, <1>2, <1>3, <1>5, RowsAlike
<1>8. HeirInv' /\ NoSelfReferral' /\ CommissionsFollow' /\ OneOpenPayout'
  BY <1>1, <1>2, LinksStill, OpenStill
<1>9. ASSUME NEW p \in Ops, NEW q, q = op'[p] PROVE Fits(q)'
  <2>1. Fits(q) /\ q.kind \in {"none", "merge"} /\ (q.kind = "merge" => "buy" \in overlapped)
    BY <1>1, <1>3, <1>9, IdleFits
  <2>2. q.best \in (1..MaxRow) \cup {None}
    BY <1>3, <1>9 DEF Operations
  <2>3. \A i \in 1..MaxRow : row[i] # None => row'[i] # None /\ row'[i].user = row[i].user
    BY <1>5
  <2> QED BY <1>2, <2>1, <2>2, <2>3, BoughtBeside
<1> QED BY <1>3, <1>6, <1>7, <1>8, <1>9 DEF IInv, InFlight

LEMMA ChangeInv ==
    ASSUME IInv, NEW o \in Ops, Change(o)
    PROVE  IInv'
<1> DEFINE u == op[o].u
           r == op[o].seen
           n == NextId(row, "row")
           name == row[r].remna
           rec == NewRow(u, name, TRUE)
           d == [row[r] EXCEPT !.live = FALSE]
<1>1. /\ TypeInv /\ RefInv /\ HeirInv /\ NoSelfReferral /\ CommissionsFollow /\ NameInv
      /\ CurrentInv /\ UnspentInv /\ OneOpenPayout /\ PanelInv /\ OverlapInv
      /\ \A p \in Ops : Fits(op[p])
  BY DEF IInv, InFlight
<1>2. /\ op[o].kind = "buy" /\ op[o].how = "change" /\ Room(row, "row") /\ Drop(o)
      /\ UNCHANGED <<exists, id, unspent, panel, inviter, event, payout, alias, heir, earned,
                     lost, overlapped, begun, faults>>
  BY DEF Change, At, history
<1>3. /\ IF u \in exists /\ row[r] # None /\ name \in panel
         THEN /\ row' = [row EXCEPT ![r].live = FALSE, ![n] = rec]
              /\ current' = [current EXCEPT ![u] = n]
         ELSE UNCHANGED <<row, current>>
  BY DEF Change
<1>4. /\ OverlapInv' /\ op' \in [Ops -> Operations] /\ op'[o] = Idle
      /\ \A p \in Ops \ {o} :
            /\ op'[p] = op[p] /\ op[p].kind \in {"none", "merge"}
            /\ op[p].kind = "merge" => "buy" \in overlapped
      /\ \A p \in Cleaning : p \in Cleaning' /\ op'[p].orphans = op[p].orphans
  BY <1>1, <1>2, Beside
<1>5. u \in Accounts /\ r \in 1..MaxRow /\ BuyView(op[o]) /\ PanelView(op[o])
  BY <1>1, <1>2 DEF Fits, Shape
<1>6. n \in 1..MaxRow /\ row[n] = None
  BY <1>1, <1>2, NextIdIsFree DEF TypeInv
<1> HIDE DEF u, r, n
<1>7. ASSUME u \in exists, row[r] # None, name \in panel
      PROVE  /\ TypeInv' /\ RefInv' /\ NameInv' /\ CurrentInv' /\ UnspentInv' /\ PanelInv'
             /\ \A i \in 1..MaxRow : row[i] # None => row'[i] # None /\ row'[i].user = row[i].user
  <2>1. row' = [row EXCEPT ![r] = d, ![n] = rec] /\ current' = [current EXCEPT ![u] = n]
    BY <1>1, <1>3, <1>5, <1>7 DEF TypeInv
  <2>2. row[r] \in Subscriptions /\ r # n /\ name \in Nat
    BY <1>1, <1>5, <1>6, <1>7 DEF TypeInv, Subscriptions
  <2>3. d \in Subscriptions /\ d.user = row[r].user /\ d.remna = row[r].remna /\ d # None
    <3>1. d \in Subscriptions /\ d.user = row[r].user /\ d.remna = row[r].remna
      BY <2>2 DEF Subscriptions
    <3> HIDE DEF d
    <3> QED BY <3>1, NoneIsNobody
  <2>4. rec \in Subscriptions
    BY <1>5, <2>2 DEF NewRow, Subscriptions
  <2> HIDE DEF d
  <2>5. /\ row'[n] = rec /\ row'[r] = d
        /\ \A i \in (1..MaxRow) \ {n, r} : row'[i] = row[i]
        /\ row' \in [1..MaxRow -> Subscriptions \cup {None}]
        /\ current' \in [Accounts -> (1..MaxRow) \cup {None}]
    <3> HIDE DEF rec
    <3> QED BY <1>1, <1>5, <1>6, <2>1, <2>2, <2>3, <2>4 DEF TypeInv
  <2>6. /\ row'[n] = NewRow(u, name, TRUE)
        /\ \A i \in (1..MaxRow) \ {n} :
              /\ row[i] = None <=> row'[i] = None
              /\ row[i] # None => row'[i].user = row[i].user /\ row'[i].remna = row[i].remna
    <3>1. \A i \in (1..MaxRow) \ {n} : i = r \/ i \in (1..MaxRow) \ {n, r}
      OBVIOUS
    <3> QED BY <1>7, <2>3, <2>5, <3>1
  <2>7. TypeInv'
    BY <1>1, <1>2, <1>4, <2>5 DEF TypeInv
  <2>8. Apart({"buy", "merge"})' => row[r].user = u
    BY <1>2, <1>5 DEF BuyView, Apart, u, r
  <2>9. Apart({"buy", "merge"})' =>
           IF name \in Accounts THEN u = heir[name] ELSE id[u].tg = name
    BY <1>1, <1>2, <1>5, <1>7, <2>8 DEF NameInv, Apart
  <2>10. Apart({"trial", "buy", "merge"})' => ~unspent'[u]
    <3>1. Apart({"trial", "buy", "merge"})' => Apart({"buy", "merge"})'
      BY DEF Apart
    <3>2. Apart({"trial", "buy", "merge"})' => Apart({"trial", "buy", "merge"})
      BY <1>2 DEF Apart
    <3> QED BY <1>1, <1>2, <1>5, <1>7, <2>8, <3>1, <3>2 DEF UnspentInv
  <2>11. overlapped' = {} => /\ panel' \subseteq panel \cup {name}
                             /\ current[u] # None => row[current[u]].remna = name
    BY <1>2, <1>5 DEF PanelView, u, r
  <2>12. /\ UNCHANGED <<exists, id, heir, inviter, event, payout, faults>>
         /\ overlapped \subseteq overlapped' /\ unspent' = unspent
    BY <1>2
  <2>13. RefInv' /\ NameInv' /\ CurrentInv' /\ UnspentInv' /\ PanelInv'
    <3> HIDE DEF rec, name
    <3> QED BY <1>1, <1>4, <1>6, <1>7, <2>1, <2>2, <2>6, <2>9, <2>10, <2>11, <2>12, Inserted
  <2>14. \A i \in 1..MaxRow : row[i] # None => row'[i] # None /\ row'[i].user = row[i].user
    BY <1>6, <2>6
  <2> QED BY <2>7, <2>13, <2>14
<1>8. ASSUME ~(u \in exists /\ row[r] # None /\ name \in panel)
      PROVE  /\ TypeInv' /\ RefInv' /\ NameInv' /\ CurrentInv' /\ UnspentInv' /\ PanelInv'
             /\ \A i \in 1..MaxRow : row[i] # None => row'[i] # None /\ row'[i].user = row[i].user
  <2>1. UNCHANGED <<row, current>>
    BY <1>3, <1>8
  <2>2. TypeInv'
    BY <1>1, <1>2, <1>4, <2>1 DEF TypeInv
  <2>3. RefInv' /\ NameInv' /\ CurrentInv' /\ UnspentInv' /\ PanelInv'
    BY <1>1, <1>2, <1>4, <2>1, RowsAlike
  <2>4. \A i \in 1..MaxRow : row[i] # None => row'[i] # None /\ row'[i].user = row[i].user
    BY <2>1
  <2> QED BY <2>2, <2>3, <2>4
<1>9. HeirInv' /\ NoSelfReferral' /\ CommissionsFollow' /\ OneOpenPayout'
  BY <1>1, <1>2, LinksStill, OpenStill
<1>10. ASSUME \A i \in 1..MaxRow : row[i] # None => row'[i] # None /\ row'[i].user = row[i].user,
              NEW p \in Ops, NEW q, q = op'[p]
       PROVE  Fits(q)'
  <2>1. Fits(q) /\ q.kind \in {"none", "merge"} /\ (q.kind = "merge" => "buy" \in overlapped)
    BY <1>1, <1>4, <1>10, IdleFits
  <2>2. q.best \in (1..MaxRow) \cup {None}
    BY <1>4, <1>10 DEF Operations
  <2> QED BY <1>2, <1>10, <2>1, <2>2, BoughtBeside
<1> QED BY <1>4, <1>7, <1>8, <1>9, <1>10 DEF IInv, InFlight

LEMMA StartTrialInv ==
    ASSUME IInv, NEW u \in Accounts, StartTrial(u)
    PROVE  IInv'
<1> DEFINE n == NextId(row, "row")
           name == Name(u)
           rec == NewRow(u, name, FALSE)
<1>1. /\ TypeInv /\ RefInv /\ HeirInv /\ NoSelfReferral /\ CommissionsFollow /\ NameInv
      /\ CurrentInv /\ UnspentInv /\ OneOpenPayout /\ PanelInv /\ OverlapInv
      /\ \A p \in Ops : Fits(op[p])
  BY DEF IInv, InFlight
<1>2. /\ u \in exists /\ unspent[u] /\ name \notin panel /\ Counted /\ Room(row, "row")
      /\ row' = [row EXCEPT ![n] = rec] /\ panel' = panel \cup {name}
      /\ current' = [current EXCEPT ![u] = n] /\ unspent' = [unspent EXCEPT ![u] = FALSE]
      /\ overlapped' = overlapped \cup (IF Running("merge") # {} THEN {"trial"} ELSE {})
      /\ UNCHANGED <<exists, id, inviter, event, payout, alias, op, heir, earned, lost, faults>>
  BY DEF StartTrial, history
<1>3. n \in 1..MaxRow /\ row[n] = None
  BY <1>1, <1>2, NextIdIsFree DEF TypeInv
<1>4. name \in Nat /\ IF name \in Accounts THEN u = heir[name] ELSE id[u].tg = name
  BY <1>1, <1>2, NameIsOwn
<1> HIDE DEF n, name
<1>5. rec \in Subscriptions /\ rec.paid = FALSE
  BY <1>4 DEF NewRow, Subscriptions
<1>6. begun' \in 0..MaxBegun
  <2>1. MaxBegun \in Nat
    BY MergeAssumption
  <2> QED BY <1>1, <1>2, <2>1 DEF Counted, TypeInv
<1> HIDE DEF rec
<1>7. /\ row' \in [1..MaxRow -> Subscriptions \cup {None}] /\ row'[n] = rec
      /\ \A r \in (1..MaxRow) \ {n} : row'[r] = row[r]
      /\ current' \in [Accounts -> (1..MaxRow) \cup {None}]
      /\ current'[u] = n /\ \A x \in Accounts \ {u} : current'[x] = current[x]
      /\ unspent' \in [Accounts -> BOOLEAN] /\ ~unspent'[u]
      /\ \A x \in Accounts \ {u} : unspent'[x] = unspent[x]
  BY <1>1, <1>2, <1>3, <1>5 DEF TypeInv
<1>8. TypeInv'
  BY <1>1, <1>2, <1>4, <1>6, <1>7 DEF TypeInv
<1>9. overlapped \subseteq overlapped'
  BY <1>2
<1>10. Apart({"trial", "buy", "merge"}) => \A r \in 1..MaxRow : row[r] # None => row[r].user # u
  BY <1>1, <1>2 DEF UnspentInv
<1>11. overlapped = {} => current[u] = None
  <2>1. overlapped = {} => Apart({"trial", "buy", "merge"}) /\ Apart({"merge"})
    BY DEF Apart
  <2>2. current[u] # None => current[u] \in 1..MaxRow /\ row[current[u]] # None
    BY <1>1 DEF TypeInv, RefInv
  <2> QED BY <1>1, <1>10, <2>1, <2>2 DEF CurrentInv
<1>12. RefInv' /\ NameInv' /\ CurrentInv' /\ UnspentInv' /\ PanelInv'
  <2>1. UNCHANGED <<exists, id, heir, inviter, event, payout, faults>>
    BY <1>2
  <2>2. /\ row'[n] = NewRow(u, name, FALSE)
        /\ \A r \in (1..MaxRow) \ {n} :
              /\ row[r] = None <=> row'[r] = None
              /\ row[r] # None => row'[r].user = row[r].user /\ row'[r].remna = row[r].remna
    BY <1>7 DEF rec
  <2>3. overlapped' = {} => /\ panel' \subseteq panel \cup {name}
                            /\ current[u] # None => row[current[u]].remna = name
    BY <1>2, <1>9, <1>11
  <2>4. \A p \in Cleaning : p \in Cleaning' /\ op'[p].orphans = op[p].orphans
    BY <1>2 DEF Cleaning
  <2>5. current' = [current EXCEPT ![u] = n] /\ u \in exists
    BY <1>2
  <2>6. Apart({"trial", "buy", "merge"})' => ~unspent'[u]
    BY <1>7
  <2> QED BY <1>1, <1>3, <1>4, <1>7, <1>9, <2>1, <2>2, <2>3, <2>4, <2>5, <2>6, Inserted
<1>13. HeirInv' /\ NoSelfReferral' /\ CommissionsFollow' /\ OneOpenPayout'
  BY <1>1, <1>2, <1>9, LinksStill, OpenStill
<1>14. OverlapInv'
  BY <1>1, <1>2, <1>9 DEF OverlapInv
<1>15. ASSUME NEW o \in Ops, NEW q, q = op'[o] PROVE Fits(q)'
  <2>1. Fits(q) /\ q = op[o] /\ q \in Operations
    BY <1>1, <1>2, <1>15 DEF TypeInv
  <2>2. q.kind = "merge" => ~Apart({"trial", "buy", "merge"})' /\ overlapped' # {}
    <3>1. q.kind = "merge" => "trial" \in overlapped'
      BY <1>2, <2>1 DEF Running
    <3> QED BY <3>1 DEF Apart
  <2>3. \A K : Apart(K)' => Apart(K)
    BY <1>9, ApartBefore
  <2>4. \A r \in 1..MaxRow : row[r] # None => row'[r] = row[r]
    BY <1>3, <1>7
  <2>5. q.kind # "merge" => ~Merging(q) /\ ~Chosen(q) /\ ~Moving(q)
    BY DEF Merging, Chosen, Moving
  <2>6. Shape(q)' /\ RejectView(q)'
    BY <1>2, <2>1 DEF Fits, Shape, RejectView, Merging, Moving
  <2>7. MergeView(q)'
    <3>1. q.best \in (1..MaxRow) \cup {None}
      BY <2>1 DEF Operations
    <3> QED BY <1>2, <2>1, <2>3, <2>4, <3>1 DEF Fits, MergeView, Merging, Chosen
  <2>8. TrialView(q)'
    BY <2>2, <2>5 DEF TrialView, Merging
  <2>9. \A a \in Accounts : ActivePaid(current[a])' =>
           ActivePaid(current[a]) /\ current'[a] = current[a]
    <3> SUFFICES ASSUME NEW a \in Accounts, ActivePaid(current[a])'
                 PROVE  ActivePaid(current[a]) /\ current'[a] = current[a]
      OBVIOUS
    <3>1. current'[a] # None /\ row'[current'[a]].ahead /\ row'[current'[a]].paid
      BY DEF ActivePaid
    <3>2. a # u
      BY <1>5, <1>7, <3>1
    <3>3. current'[a] = current[a] /\ row[current[a]] # None /\ current[a] \in 1..MaxRow
      BY <1>1, <1>7, <3>1, <3>2 DEF TypeInv, RefInv
    <3> QED BY <2>4, <3>1, <3>3 DEF ActivePaid
  <2>10. PaidView(q)'
    <3> SUFFICES ASSUME Apart({"buy", "merge"})' PROVE PaidView(q)'
      BY DEF PaidView
    <3>1. Apart({"buy", "merge"}) /\ PaidView(q)
      BY <2>1, <2>3 DEF Fits
    <3>2. Chosen(q) => q.u \in Accounts /\ q.v \in Accounts
      BY <2>1 DEF Fits, Shape, Merging, Chosen
    <3>3. Chosen(q) => /\ ActivePaid(current[q.u])' => q.best = current'[q.u]
                       /\ ActivePaid(current[q.v])' => q.best = current'[q.v]
      BY <2>9, <3>1, <3>2 DEF PaidView
    <3>4. ASSUME q.kind = "merge", q.pc = "panel", NEW r \in 1..MaxRow, row'[r] # None,
                 row'[r].paid, row'[r].remna \in q.orphans
          PROVE  current'[row'[r].user] # r
      <4>1. r # n
        BY <1>5, <1>7, <3>4
      <4>2. row'[r] = row[r] /\ row[r] # None /\ row[r].user \in Accounts
        BY <1>1, <1>7, <3>4, <4>1 DEF RefInv, TypeInv
      <4>3. current[row[r].user] # r
        BY <3>1, <3>4, <4>2 DEF PaidView
      <4> QED BY <1>7, <4>1, <4>2, <4>3
    <3>5. Chosen(q)' <=> Chosen(q)
      BY DEF Chosen
    <3> QED BY <3>3, <3>4, <3>5 DEF PaidView
  <2>11. BuyView(q)'
    <3> SUFFICES ASSUME Apart({"buy", "merge"})', q.kind = "buy" PROVE BuyView(q)'
      BY DEF BuyView
    <3>1. Apart({"buy", "merge"}) /\ BuyView(q) /\ q.u \in Accounts
          /\ (q.how # "new" => q.seen \in 1..MaxRow)
      BY <2>1, <2>3 DEF Fits, Shape
    <3>2. /\ q.u \in exists' /\ (q.how = "new" => q.seen = Name(q.u)')
      BY <1>2, <3>1 DEF BuyView, Name
    <3>3. q.how # "new" => row'[q.seen] # None /\ row'[q.seen].user = q.u
      BY <2>4, <3>1 DEF BuyView
    <3>4. ASSUME current'[q.u] # None, row'[current'[q.u]].paid
          PROVE  q.how # "new" /\ current'[q.u] = q.seen
      <4>1. q.u # u
        BY <1>5, <1>7, <3>4
      <4>2. current'[q.u] = current[q.u] /\ row[current[q.u]] # None /\ current[q.u] \in 1..MaxRow
        BY <1>1, <1>7, <3>1, <3>4, <4>1 DEF TypeInv, RefInv
      <4> QED BY <2>4, <3>1, <3>4, <4>2 DEF BuyView
    <3> QED BY <3>2, <3>3, <3>4 DEF BuyView
  <2>12. PayoutView(q)'
    BY <1>2, <2>1, <2>3 DEF Fits, PayoutView, Moving, Open
  <2>13. PanelView(q)'
    <3> SUFFICES ASSUME overlapped' = {}, q.kind # "merge" PROVE PanelView(q)'
      BY <2>2 DEF PanelView
    <3>1. overlapped = {} /\ Apart({"buy", "merge"}) /\ Apart({"trial", "buy", "merge"})
      BY <1>9 DEF Apart
    <3>2. q.kind = "buy" =>
             /\ q.how = "new" => current'[q.u] = None \/ q.seen \in panel'
             /\ q.how = "change" => current'[q.u] = q.seen
      <4> SUFFICES ASSUME q.kind = "buy"
                   PROVE  /\ q.how = "new" => current'[q.u] = None \/ q.seen \in panel'
                          /\ q.how = "change" => current'[q.u] = q.seen
        OBVIOUS
      <4>1. /\ q.u \in Accounts /\ BuyView(q) /\ PanelView(q)
            /\ q.how # "new" => q.seen \in 1..MaxRow
        BY <2>1 DEF Fits, Shape
      <4>2. CASE q.u # u
        BY <1>2, <1>7, <3>1, <4>1, <4>2 DEF PanelView
      <4>3. CASE q.u = u
        <5>1. q.how = "new" => q.seen \in panel'
          BY <1>2, <3>1, <4>1, <4>3 DEF BuyView, name
        <5>2. q.how = "new"
          BY <1>10, <3>1, <4>1, <4>3 DEF BuyView
        <5> QED BY <5>1, <5>2
      <4> QED BY <4>2, <4>3
    <3> QED BY <2>5, <3>2 DEF PanelView, Chosen, Moving
  <2> QED BY <2>6, <2>7, <2>8, <2>10, <2>11, <2>12, <2>13 DEF Fits
<1> QED BY <1>8, <1>12, <1>13, <1>14, <1>15 DEF IInv, InFlight

LEMMA ExpireInv ==
    ASSUME IInv, NEW r \in DOMAIN row, Expire(r)
    PROVE  IInv'
<1> DEFINE d == [row[r] EXCEPT !.ahead = FALSE]
<1>1. /\ TypeInv /\ RefInv /\ HeirInv /\ NoSelfReferral /\ CommissionsFollow /\ NameInv
      /\ CurrentInv /\ UnspentInv /\ OneOpenPayout /\ PanelInv /\ OverlapInv
      /\ \A p \in Ops : Fits(op[p])
  BY DEF IInv, InFlight
<1>2. /\ row[r] # None /\ Counted /\ row' = [row EXCEPT ![r].ahead = FALSE]
      /\ UNCHANGED <<exists, id, unspent, current, panel, inviter, event, payout, alias, op,
                     heir, earned, lost, overlapped, faults>>
  BY DEF Expire, history
<1>3. begun' \in 0..MaxBegun
  <2>1. MaxBegun \in Nat
    BY MergeAssumption
  <2> QED BY <1>1, <1>2, <2>1 DEF Counted, TypeInv
<1>4. r \in 1..MaxRow /\ row[r] \in Subscriptions /\ row' = [row EXCEPT ![r] = d]
  BY <1>1, <1>2 DEF TypeInv
<1>5. /\ d \in Subscriptions /\ d.user = row[r].user /\ d.remna = row[r].remna
      /\ d.paid = row[r].paid /\ ~d.ahead
  BY <1>4 DEF Subscriptions
<1> HIDE DEF d
<1>6. /\ row' \in [1..MaxRow -> Subscriptions \cup {None}]
      /\ \A i \in 1..MaxRow :
            /\ row[i] = None <=> row'[i] = None
            /\ row[i] # None =>
                  /\ row'[i].user = row[i].user /\ row'[i].remna = row[i].remna
                  /\ row'[i].paid = row[i].paid /\ (row'[i].ahead => row[i].ahead)
  <2>1. d # None /\ row[r] # None
    BY <1>2, <1>5, NoneIsNobody
  <2>2. /\ row' \in [1..MaxRow -> Subscriptions \cup {None}] /\ row'[r] = d
        /\ \A i \in (1..MaxRow) \ {r} : row'[i] = row[i]
    BY <1>1, <1>4, <1>5 DEF TypeInv
  <2>3. \A i \in 1..MaxRow : i = r \/ i \in (1..MaxRow) \ {r}
    OBVIOUS
  <2> QED BY <1>5, <2>1, <2>2, <2>3
<1>7. TypeInv'
  BY <1>1, <1>2, <1>3, <1>6 DEF TypeInv
<1>8. RefInv' /\ NameInv' /\ CurrentInv' /\ UnspentInv' /\ PanelInv'
  <2>1. \A p \in Cleaning : p \in Cleaning' /\ op'[p].orphans = op[p].orphans
    BY <1>2 DEF Cleaning
  <2> QED BY <1>1, <1>2, <1>6, <2>1, RowsAlike
<1>9. HeirInv' /\ NoSelfReferral' /\ CommissionsFollow' /\ OneOpenPayout'
  BY <1>1, <1>2, LinksStill, OpenStill
<1>10. OverlapInv'
  BY <1>1, <1>2 DEF OverlapInv
<1>11. ASSUME NEW o \in Ops, NEW q, q = op'[o] PROVE Fits(q)'
  <2>1. Fits(q) /\ q \in Operations
    BY <1>1, <1>2, <1>11 DEF TypeInv
  <2>2. \A K : Apart(K)' <=> Apart(K)
    BY <1>2 DEF Apart
  <2>3. \A x \in Accounts : current[x] # None => current[x] \in 1..MaxRow /\ row[current[x]] # None
    BY <1>1 DEF TypeInv, RefInv
  <2>4. \A x \in Accounts : ActivePaid(current[x])' => ActivePaid(current[x])
    BY <1>2, <1>6, <2>3 DEF ActivePaid
  <2>5. /\ Chosen(q) \/ Merging(q) \/ q.kind = "buy" => q.u \in Accounts
        /\ Chosen(q) \/ Merging(q) => q.v \in Accounts
        /\ q.kind = "buy" /\ q.how # "new" => q.seen \in 1..MaxRow
        /\ q.best \in (1..MaxRow) \cup {None}
    BY <2>1 DEF Fits, Shape, Merging, Chosen, Operations
  <2>6. Shape(q)' /\ RejectView(q)' /\ TrialView(q)' /\ PayoutView(q)'
    BY <1>2, <2>1, <2>2 DEF Fits, Shape, RejectView, TrialView, PayoutView, Merging, Moving, Open
  <2>7. MergeView(q)'
    BY <1>2, <1>6, <2>1, <2>2, <2>5 DEF Fits, MergeView, Merging, Chosen
  <2>8. PaidView(q)'
    <3> SUFFICES ASSUME Apart({"buy", "merge"})' PROVE PaidView(q)'
      BY DEF PaidView
    <3>1. PaidView(q) /\ Apart({"buy", "merge"})
      BY <2>1, <2>2 DEF Fits
    <3>2. Chosen(q) => /\ ActivePaid(current[q.u])' => q.best = current'[q.u]
                       /\ ActivePaid(current[q.v])' => q.best = current'[q.v]
      BY <1>2, <2>4, <2>5, <3>1 DEF PaidView
    <3>3. q.kind = "merge" /\ q.pc = "panel" =>
             \A i \in 1..MaxRow : row'[i] # None /\ row'[i].paid /\ row'[i].remna \in q.orphans =>
                 current'[row'[i].user] # i
      BY <1>2, <1>6, <3>1 DEF PaidView
    <3>4. Chosen(q)' <=> Chosen(q)
      BY DEF Chosen
    <3> QED BY <3>2, <3>3, <3>4 DEF PaidView
  <2>9. BuyView(q)'
    <3> SUFFICES ASSUME Apart({"buy", "merge"})', q.kind = "buy" PROVE BuyView(q)'
      BY DEF BuyView
    <3>1. BuyView(q) /\ Apart({"buy", "merge"}) /\ q.u \in Accounts
      BY <2>1, <2>2, <2>5 DEF Fits
    <3>2. Name(q.u)' = Name(q.u)
      BY <1>2 DEF Name
    <3> QED BY <1>2, <1>6, <2>3, <2>5, <3>1, <3>2 DEF BuyView
  <2>10. PanelView(q)'
    <3>1. \A i \in 1..MaxRow : row'[i] # None => row[i] # None /\ row'[i].user = row[i].user
      BY <1>6
    <3> QED BY <1>2, <2>1, <3>1 DEF Fits, PanelView, Chosen, Moving
  <2> QED BY <2>6, <2>7, <2>8, <2>9, <2>10 DEF Fits
<1> QED BY <1>7, <1>8, <1>9, <1>10, <1>11 DEF IInv, InFlight

-----------------------------------------------------------------------------
(* The steps that write payouts, commissions and invitations.               *)

LEMMA RowsStill ==
    ASSUME TypeInv, RefInv, NameInv, CurrentInv, UnspentInv, PanelInv,
           UNCHANGED <<exists, id, unspent, current, row, heir, panel, faults, overlapped>>,
           \A p \in Cleaning : p \in Cleaning' /\ op'[p].orphans = op[p].orphans
    PROVE  NameInv' /\ CurrentInv' /\ UnspentInv' /\ PanelInv'
<1>1. \A K : Apart(K)' <=> Apart(K)
  BY DEF Apart
<1>2. NameInv' /\ CurrentInv' /\ UnspentInv'
  BY <1>1 DEF NameInv, CurrentInv, UnspentInv
<1>3. PanelInv'
  BY DEF PanelInv
<1> QED BY <1>2, <1>3

\* A payout that comes or moves on disturbs no merge but those a request overlaps.
LEMMA PaidOutBeside ==
    ASSUME UNCHANGED <<exists, id, unspent, current, row, panel, overlapped>>,
           \A k \in 1..MaxRow :
               payout[k] # None => payout'[k] # None /\ payout'[k].user = payout[k].user,
           NEW q, Fits(q),
           q.kind # "none" /\ Apart({"request", "merge"}) =>
               \A k \in 1..MaxRow : /\ Open(k)' => Open(k)
                                    /\ payout'[k] # None => payout[k] # None
    PROVE  Fits(q)'
<1>1. \A K : Apart(K)' <=> Apart(K)
  BY DEF Apart
<1>2. Shape(q)' /\ RejectView(q)'
  BY DEF Fits, Shape, RejectView, Merging, Moving
<1>3. MergeView(q)' /\ TrialView(q)'
  BY <1>1 DEF Fits, MergeView, TrialView, Merging, Chosen
<1>4. PaidView(q)' /\ BuyView(q)'
  BY <1>1 DEF Fits, PaidView, BuyView, Chosen, ActivePaid, Name
<1>5. PanelView(q)'
  BY DEF Fits, PanelView, Chosen, Moving
<1>6. PayoutView(q)'
  <2> SUFFICES ASSUME Apart({"request", "merge"})', q.kind # "none" PROVE PayoutView(q)'
    BY DEF PayoutView, Moving
  <2>1. PayoutView(q) /\ Apart({"request", "merge"})
    BY <1>1 DEF Fits
  <2>2. \A k \in 1..MaxRow : /\ Open(k)' => Open(k)
                             /\ payout'[k] # None => payout[k] # None
                             /\ payout[k] # None => payout'[k].user = payout[k].user
    BY <2>1
  <2>3. \A k \in 1..MaxRow : Open(k) => payout[k] # None
    BY DEF Open
  <2>4. Moving(q)' <=> Moving(q)
    BY DEF Moving
  <2>5. q.kind = "request" => \A k \in 1..MaxRow : Open(k)' => payout'[k].user # q.u
    BY <2>1, <2>2, <2>3 DEF PayoutView
  <2>6. Moving(q) => \A k \in 1..MaxRow : payout'[k] # None /\ payout'[k].user = q.v =>
           <<"payout", k>> \in q.moved
    BY <2>1, <2>2 DEF PayoutView
  <2>7. Moving(q) => \A j, k \in 1..MaxRow :
           /\ j # k /\ Open(j)' /\ Open(k)'
           /\ payout'[j].user \in {q.u, q.v} /\ payout'[k].user \in {q.u, q.v}
           => <<"payout", j>> \in q.reject \/ <<"payout", k>> \in q.reject
    BY <2>1, <2>2, <2>3 DEF PayoutView
  <2> QED BY <2>4, <2>5, <2>6, <2>7 DEF PayoutView
<1> QED BY <1>2, <1>3, <1>4, <1>5, <1>6 DEF Fits

LEMMA CreatePayoutInv ==
    ASSUME IInv, NEW o \in Ops, CreatePayout(o)
    PROVE  IInv'
<1> DEFINE u == op[o].u
           n == NextId(payout, "payout")
           rec == [user |-> u, status |-> "requested"]
<1>1. /\ TypeInv /\ RefInv /\ HeirInv /\ NoSelfReferral /\ CommissionsFollow /\ NameInv
      /\ CurrentInv /\ UnspentInv /\ OneOpenPayout /\ PanelInv /\ OverlapInv
      /\ \A p \in Ops : Fits(op[p])
  BY DEF IInv, InFlight
<1>2. /\ op[o].kind = "request" /\ Room(payout, "payout") /\ Drop(o)
      /\ IF u \in exists THEN payout' = [payout EXCEPT ![n] = rec] ELSE UNCHANGED payout
      /\ UNCHANGED <<exists, id, unspent, current, row, panel, inviter, event, alias, heir,
                     earned, lost, overlapped, begun, faults>>
  BY DEF CreatePayout, At, history
<1>3. /\ OverlapInv' /\ op' \in [Ops -> Operations] /\ op'[o] = Idle
      /\ \A p \in Ops \ {o} :
            /\ op'[p] = op[p] /\ op[p].kind \in {"none", "merge"}
            /\ op[p].kind = "merge" => "request" \in overlapped
      /\ \A p \in Cleaning : p \in Cleaning' /\ op'[p].orphans = op[p].orphans
  BY <1>1, <1>2, Beside
<1>4. u \in Accounts /\ PayoutView(op[o])
  BY <1>1, <1>2 DEF Fits, Shape
<1>5. n \in 1..MaxRow /\ payout[n] = None
  BY <1>1, <1>2, NextIdIsFree DEF TypeInv
<1>6. \A k \in 1..MaxRow : Open(k) /\ Apart({"request", "merge"}) => payout[k].user # u
  BY <1>2, <1>4 DEF PayoutView
<1> HIDE DEF u, n
<1>7. rec \in PayoutRows /\ rec.user = u
  BY <1>4 DEF PayoutRows
<1> HIDE DEF rec
<1>8. /\ payout' \in [1..MaxRow -> PayoutRows \cup {None}]
      /\ \A k \in 1..MaxRow : payout'[k] # payout[k] => k = n /\ payout'[k] = rec /\ u \in exists
  BY <1>1, <1>2, <1>5, <1>7 DEF TypeInv
<1>9. TypeInv'
  BY <1>1, <1>2, <1>3, <1>8 DEF TypeInv
<1>10. RefInv'
  <2>1. \A k \in 1..MaxRow : payout'[k] # None => payout'[k].user \in exists
    BY <1>1, <1>7, <1>8 DEF RefInv
  <2> QED BY <1>1, <1>2, <2>1 DEF RefInv
<1>11. NameInv' /\ CurrentInv' /\ UnspentInv' /\ PanelInv'
  BY <1>1, <1>2, <1>3, RowsStill
<1>12. HeirInv' /\ NoSelfReferral' /\ CommissionsFollow'
  BY <1>1, <1>2, LinksStill
<1>13. OneOpenPayout'
  <2> SUFFICES ASSUME Apart({"request", "merge"})', NEW j \in 1..MaxRow, NEW k \in 1..MaxRow,
                      Open(j)', Open(k)', j # k
               PROVE  payout'[j].user # payout'[k].user
    BY <1>9 DEF OneOpenPayout, TypeInv
  <2>1. Apart({"request", "merge"})
    BY <1>2 DEF Apart
  <2>2. \A i \in 1..MaxRow : Open(i)' /\ payout'[i] = payout[i] => Open(i)
    BY DEF Open
  <2>3. \A i \in 1..MaxRow : Open(i)' => (Open(i) /\ payout'[i] = payout[i]) \/ (i = n /\ payout'[i] = rec)
    BY <1>8, <2>2
  <2>4. Open(j) /\ Open(k) => payout[j].user # payout[k].user
    BY <1>1, <2>1 DEF OneOpenPayout, TypeInv
  <2> QED BY <1>6, <1>7, <2>1, <2>3, <2>4
<1>14. ASSUME NEW p \in Ops, NEW q, q = op'[p] PROVE Fits(q)'
  <2>1. Fits(q) /\ (q.kind # "none" => ~Apart({"request", "merge"}))
    BY <1>1, <1>3, <1>14, IdleFits DEF Apart
  <2>2. \A k \in 1..MaxRow :
           payout[k] # None => payout'[k] # None /\ payout'[k].user = payout[k].user
    BY <1>5, <1>8
  <2> QED BY <1>2, <2>1, <2>2, PaidOutBeside
<1> QED BY <1>3, <1>9, <1>10, <1>11, <1>12, <1>13, <1>14 DEF IInv, InFlight

LEMMA StartPayoutInv ==
    ASSUME IInv, NEW k \in DOMAIN payout, StartPayout(k)
    PROVE  IInv'
<1> DEFINE d == [payout[k] EXCEPT !.status = "processing"]
<1>1. /\ TypeInv /\ RefInv /\ HeirInv /\ NoSelfReferral /\ CommissionsFollow /\ NameInv
      /\ CurrentInv /\ UnspentInv /\ OneOpenPayout /\ PanelInv /\ OverlapInv
      /\ \A p \in Ops : Fits(op[p])
  BY DEF IInv, InFlight
<1>2. /\ payout[k] # None /\ payout[k].status = "requested" /\ Counted
      /\ payout' = [payout EXCEPT ![k].status = "processing"]
      /\ UNCHANGED <<exists, id, unspent, current, row, panel, inviter, event, alias, op, heir,
                     earned, lost, overlapped, faults>>
  BY DEF StartPayout, history
<1>3. begun' \in 0..MaxBegun
  <2>1. MaxBegun \in Nat
    BY MergeAssumption
  <2> QED BY <1>1, <1>2, <2>1 DEF Counted, TypeInv
<1>4. k \in 1..MaxRow /\ payout[k] \in PayoutRows /\ payout' = [payout EXCEPT ![k] = d]
  BY <1>1, <1>2 DEF TypeInv
<1>5. d \in PayoutRows /\ d.user = payout[k].user /\ d # None
  <2>1. d \in PayoutRows /\ d.user = payout[k].user
    BY <1>4 DEF PayoutRows
  <2> HIDE DEF d
  <2> QED BY <2>1, NoneIsNobody
<1> HIDE DEF d
<1>6. /\ payout' \in [1..MaxRow -> PayoutRows \cup {None}]
      /\ \A i \in 1..MaxRow : /\ payout'[i] = None <=> payout[i] = None
                              /\ payout[i] # None => payout'[i].user = payout[i].user
                              /\ Open(i)' => Open(i)
  <2>1. payout'[k] = d /\ \A i \in (1..MaxRow) \ {k} : payout'[i] = payout[i]
    BY <1>1, <1>4 DEF TypeInv
  <2>2. Open(k) /\ \A i \in (1..MaxRow) \ {k} : Open(i)' => Open(i)
    BY <1>2, <2>1 DEF Open
  <2> QED BY <1>1, <1>2, <1>4, <1>5, <2>1, <2>2 DEF TypeInv
<1>7. TypeInv'
  BY <1>1, <1>2, <1>3, <1>6 DEF TypeInv
<1>8. RefInv'
  BY <1>1, <1>2, <1>6 DEF RefInv
<1>9. NameInv' /\ CurrentInv' /\ UnspentInv' /\ PanelInv'
  <2>1. \A p \in Cleaning : p \in Cleaning' /\ op'[p].orphans = op[p].orphans
    BY <1>2 DEF Cleaning
  <2> QED BY <1>1, <1>2, <2>1, RowsStill
<1>10. HeirInv' /\ NoSelfReferral' /\ CommissionsFollow'
  BY <1>1, <1>2, LinksStill
<1>11. OneOpenPayout'
  <2>1. Apart({"request", "merge"})' => Apart({"request", "merge"})
    BY <1>2 DEF Apart
  <2>2. DOMAIN payout = 1..MaxRow /\ DOMAIN payout' = 1..MaxRow
    BY <1>1, <1>7 DEF TypeInv
  <2>3. \A i \in 1..MaxRow : Open(i) => payout[i] # None
    BY DEF Open
  <2> QED BY <1>1, <1>6, <2>1, <2>2, <2>3 DEF OneOpenPayout
<1>12. OverlapInv'
  BY <1>1, <1>2 DEF OverlapInv
<1>13. ASSUME NEW p \in Ops, NEW q, q = op'[p] PROVE Fits(q)'
  <2>1. Fits(q)
    BY <1>1, <1>2, <1>13
  <2>2. \A i \in 1..MaxRow :
           payout[i] # None => payout'[i] # None /\ payout'[i].user = payout[i].user
    BY <1>6
  <2> QED BY <1>2, <1>6, <2>1, <2>2, PaidOutBeside
<1> QED BY <1>7, <1>8, <1>9, <1>10, <1>11, <1>12, <1>13 DEF IInv, InFlight

LEMMA AddCommissionInv ==
    ASSUME IInv, NEW o \in Ops, AddCommission(o)
    PROVE  IInv'
<1> DEFINE p == op[o].seen
           e == [referrer |-> op[o].v, referred |-> op[o].u]
<1>1. /\ TypeInv /\ RefInv /\ HeirInv /\ NoSelfReferral /\ CommissionsFollow /\ NameInv
      /\ CurrentInv /\ UnspentInv /\ OneOpenPayout /\ PanelInv /\ OverlapInv
      /\ \A q \in Ops : Fits(op[q])
  BY DEF IInv, InFlight
<1>2. /\ op[o].kind = "commission" /\ Drop(o)
      /\ IF {op[o].u, op[o].v} \subseteq exists /\ earned[p] = None
         THEN event' = [event EXCEPT ![p] = e] /\ earned' = [earned EXCEPT ![p] = e]
         ELSE UNCHANGED <<event, earned>>
      /\ UNCHANGED <<exists, id, unspent, current, row, panel, inviter, payout, alias, heir,
                     lost, overlapped, begun, faults>>
  BY DEF AddCommission, At
<1>3. /\ OverlapInv' /\ op' \in [Ops -> Operations] /\ op'[o] = Idle
      /\ \A q \in Ops \ {o} : op'[q] = op[q]
      /\ \A q \in Cleaning : q \in Cleaning' /\ op'[q].orphans = op[q].orphans
  BY <1>1, <1>2, Beside
<1>4. op[o].u \in Accounts /\ op[o].v \in Accounts /\ op[o].u # op[o].v /\ p \in Payments
  BY <1>1, <1>2 DEF Fits, Shape
<1> HIDE DEF p
<1>5. e \in EventRows /\ e.referrer = op[o].v /\ e.referred = op[o].u
  BY <1>4 DEF EventRows
<1> HIDE DEF e
<1>6. \/ /\ {op[o].u, op[o].v} \subseteq exists
         /\ event'[p] = e /\ earned'[p] = e
         /\ \A x \in Payments \ {p} : event'[x] = event[x] /\ earned'[x] = earned[x]
      \/ UNCHANGED <<event, earned>>
  BY <1>1, <1>2, <1>4 DEF TypeInv
<1>7. TypeInv'
  <2>1. /\ event' \in [Payments -> EventRows \cup {None}]
        /\ earned' \in [Payments -> EventRows \cup {None}]
    BY <1>1, <1>2, <1>4, <1>5 DEF TypeInv
  <2> QED BY <1>1, <1>2, <1>3, <2>1 DEF TypeInv
<1>8. RefInv'
  <2>1. \A x \in Payments : event'[x] # None =>
           event'[x].referrer \in exists /\ event'[x].referred \in exists
    BY <1>1, <1>5, <1>6 DEF RefInv
  <2> QED BY <1>1, <1>2, <2>1 DEF RefInv
<1>9. NameInv' /\ CurrentInv' /\ UnspentInv' /\ PanelInv'
  BY <1>1, <1>2, <1>3, RowsStill
<1>10. HeirInv' /\ OneOpenPayout'
  BY <1>1, <1>2, OpenStill DEF HeirInv
<1>11. NoSelfReferral'
  BY <1>1, <1>2, <1>4, <1>5, <1>6 DEF NoSelfReferral
<1>12. CommissionsFollow'
  <2> SUFFICES ASSUME NEW x \in Payments, earned'[x] # None, <<"event", x>> \notin lost
               PROVE  LET y == [referrer |-> heir[earned'[x].referrer],
                                referred |-> heir[earned'[x].referred]]
                      IN event'[x] = IF y.referrer = y.referred THEN None ELSE y
    BY <1>2 DEF CommissionsFollow
  <2>1. CASE earned'[x] = earned[x] /\ event'[x] = event[x]
    BY <1>1, <2>1 DEF CommissionsFollow
  <2>2. CASE ~(earned'[x] = earned[x] /\ event'[x] = event[x])
    <3>1. /\ op[o].u \in exists /\ op[o].v \in exists /\ event'[x] = e /\ earned'[x] = e
      BY <1>6, <2>2
    <3>2. heir[op[o].u] = op[o].u /\ heir[op[o].v] = op[o].v
      BY <1>1, <3>1 DEF HeirInv
    <3>3. e = [referrer |-> op[o].v, referred |-> op[o].u]
      BY DEF e
    <3> QED BY <1>4, <1>5, <3>1, <3>2, <3>3
  <2> QED BY <2>1, <2>2
<1>13. ASSUME NEW i \in Ops, NEW q, q = op'[i] PROVE Fits(q)'
  <2>1. Fits(q)
    BY <1>1, <1>3, <1>13, IdleFits
  <2> QED BY <1>2, <2>1, FitsStill
<1> QED BY <1>3, <1>7, <1>8, <1>9, <1>10, <1>11, <1>12, <1>13 DEF IInv, InFlight

LEMMA CreateReferralInv ==
    ASSUME IInv, NEW o \in Ops, CreateReferral(o)
    PROVE  IInv'
<1> DEFINE u == op[o].u
           v == op[o].v
<1>1. /\ TypeInv /\ RefInv /\ HeirInv /\ NoSelfReferral /\ CommissionsFollow /\ NameInv
      /\ CurrentInv /\ UnspentInv /\ OneOpenPayout /\ PanelInv /\ OverlapInv
      /\ \A q \in Ops : Fits(op[q])
  BY DEF IInv, InFlight
<1>2. /\ op[o].kind = "attach" /\ Drop(o)
      /\ inviter' = IF {u, v} \subseteq exists /\ inviter[u] = None
                    THEN [inviter EXCEPT ![u] = v] ELSE inviter
      /\ UNCHANGED <<exists, id, unspent, current, row, panel, event, payout, alias, heir,
                     earned, lost, overlapped, begun, faults>>
  BY DEF CreateReferral, At, history
<1>3. /\ OverlapInv' /\ op' \in [Ops -> Operations] /\ op'[o] = Idle
      /\ \A q \in Ops \ {o} : op'[q] = op[q]
      /\ \A q \in Cleaning : q \in Cleaning' /\ op'[q].orphans = op[q].orphans
  BY <1>1, <1>2, Beside
<1>4. u \in Accounts /\ v \in Accounts /\ u # v
  BY <1>1, <1>2 DEF Fits, Shape
<1>5. /\ inviter' \in [Accounts -> Accounts \cup {None}]
      /\ \A x \in Accounts : inviter'[x] # inviter[x] =>
            x = u /\ inviter'[x] = v /\ u \in exists /\ v \in exists
  BY <1>1, <1>2, <1>4 DEF TypeInv
<1>6. TypeInv'
  BY <1>1, <1>2, <1>3, <1>5 DEF TypeInv
<1>7. RefInv'
  <2>1. \A x \in Accounts : inviter'[x] # None => x \in exists /\ inviter'[x] \in exists
    BY <1>1, <1>5 DEF RefInv
  <2> QED BY <1>1, <1>2, <2>1 DEF RefInv
<1>8. NameInv' /\ CurrentInv' /\ UnspentInv' /\ PanelInv'
  BY <1>1, <1>2, <1>3, RowsStill
<1>9. HeirInv' /\ OneOpenPayout' /\ CommissionsFollow'
  BY <1>1, <1>2, OpenStill DEF HeirInv, CommissionsFollow
<1>10. NoSelfReferral'
  BY <1>1, <1>2, <1>4, <1>5 DEF NoSelfReferral
<1>11. ASSUME NEW i \in Ops, NEW q, q = op'[i] PROVE Fits(q)'
  <2>1. Fits(q)
    BY <1>1, <1>3, <1>11, IdleFits
  <2> QED BY <1>2, <2>1, FitsStill
<1> QED BY <1>3, <1>6, <1>7, <1>8, <1>9, <1>10, <1>11 DEF IInv, InFlight

LEMMA CleanUpInv ==
    ASSUME IInv, NEW o \in Ops, CleanUp(o)
    PROVE  IInv'
<1>1. /\ TypeInv /\ RefInv /\ HeirInv /\ NoSelfReferral /\ CommissionsFollow /\ NameInv
      /\ CurrentInv /\ UnspentInv /\ OneOpenPayout /\ PanelInv /\ OverlapInv
      /\ \A p \in Ops : Fits(op[p])
  BY DEF IInv, InFlight
<1>2. /\ op[o].kind = "merge" /\ op[o].pc = "panel" /\ op[o] \in Operations
      /\ UNCHANGED <<exists, id, unspent, current, row, inviter, event, payout, alias, heir,
                     earned, lost, overlapped, begun>>
  BY <1>1 DEF CleanUp, At, tables, history, TypeInv
<1>3. MaxFaults \in Nat
  BY MergeAssumption
<1>4. PICK q \in Operations, x \in Nat :
        /\ op' = [op EXCEPT ![o] = q]
        /\ q.kind \in {"none", "merge"} /\ Fits(q)
        /\ panel' \subseteq panel /\ faults' \in 0..MaxFaults /\ (faults' = 0 => faults = 0)
        /\ q.kind = "merge" => q.pc = "panel" /\ q.orphans = op[o].orphans \ {x}
        /\ q.kind = "none" => op[o].orphans = {}
        /\ x \in panel' => faults' # 0 \/ x \notin op[o].orphans
  <2>1. CASE op[o].orphans = {}
    <3>1. op' = [op EXCEPT ![o] = Idle] /\ panel' = panel /\ faults' = faults
      BY <2>1 DEF CleanUp, Drop
    <3>2. faults' \in 0..MaxFaults
      BY <1>1, <3>1 DEF TypeInv
    <3>3. 0 \in Nat /\ Idle \in Operations /\ Idle.kind = "none" /\ Fits(Idle)
      BY IdleFits
    <3> QED BY <2>1, <3>1, <3>2, <3>3
  <2>2. CASE op[o].orphans # {}
    <3>1. PICK x \in op[o].orphans :
             /\ op' = [op EXCEPT ![o].orphans = @ \ {x}]
             /\ \/ panel' = panel \ {x} /\ UNCHANGED faults
                \/ Fault("refused") /\ UNCHANGED panel
      BY <2>2 DEF CleanUp
    <3> DEFINE d == [op[o] EXCEPT !.orphans = @ \ {x}]
    <3>2. op' = [op EXCEPT ![o] = d]
      BY <1>1, <3>1 DEF TypeInv
    <3>3. /\ d \in Operations /\ d.kind = "merge" /\ d.pc = "panel"
          /\ d.orphans = op[o].orphans \ {x}
      BY <1>2 DEF Operations
    <3> HIDE DEF d
    <3>4. ~Merging(d) /\ ~Chosen(d) /\ ~Moving(d)
      BY <3>3 DEF Merging, Chosen, Moving
    <3>5. Shape(d) /\ PaidView(d)
      BY <1>1, <1>2, <3>3, <3>4 DEF Fits, Shape, PaidView
    <3>6. Fits(d)
      BY <3>3, <3>4, <3>5 DEF Fits, MergeView, TrialView, RejectView, BuyView, PayoutView, PanelView
    <3>7. /\ panel' \subseteq panel /\ faults' \in 0..MaxFaults /\ (faults' = 0 => faults = 0)
          /\ x \in panel' => faults' # 0
      BY <1>1, <1>3, <3>1 DEF Fault, TypeInv
    <3>8. x \in Nat
      BY <1>2 DEF Operations
    <3> QED BY <3>2, <3>3, <3>6, <3>7, <3>8
  <2> QED BY <2>1, <2>2
<1>5. op' \in [Ops -> Operations] /\ op'[o] = q /\ \A p \in Ops \ {o} : op'[p] = op[p]
  BY <1>1, <1>4 DEF TypeInv
<1>6. OverlapInv'
  BY <1>1, <1>2, <1>4, OverlapStill
<1>7. TypeInv'
  BY <1>1, <1>2, <1>4, <1>5 DEF TypeInv
<1>8. RefInv' /\ HeirInv' /\ NoSelfReferral' /\ CommissionsFollow' /\ OneOpenPayout'
  BY <1>1, <1>2, LinksStill, OpenStill DEF RefInv
<1>9. NameInv' /\ CurrentInv' /\ UnspentInv'
  <2>1. \A K : Apart(K)' <=> Apart(K)
    BY <1>2 DEF Apart
  <2> QED BY <1>1, <1>2, <2>1 DEF NameInv, CurrentInv, UnspentInv
<1>10. PanelInv'
  <2> SUFFICES ASSUME faults' = 0, overlapped = {}, NEW y \in panel'
               PROVE  \/ \E u \in exists : current[u] # None /\ row[current[u]].remna = y
                      \/ \E p \in Cleaning' : y \in op'[p].orphans
    BY <1>2 DEF PanelInv
  <2>1. faults = 0 /\ y \in panel
    BY <1>4
  <2>2. ASSUME NEW p \in Cleaning, y \in op[p].orphans
        PROVE  p \in Cleaning' /\ y \in op'[p].orphans
    <3>1. CASE p # o
      BY <1>5, <2>2, <3>1 DEF Cleaning
    <3>2. CASE p = o
      <4>1. q.kind = "merge"
        BY <1>4, <2>2, <3>2
      <4>2. y # x
        BY <1>4, <2>2, <3>2
      <4> QED BY <1>4, <1>5, <2>2, <3>2, <4>1, <4>2 DEF Cleaning
    <3> QED BY <3>1, <3>2
  <2> QED BY <1>1, <2>1, <2>2 DEF PanelInv
<1>11. ASSUME NEW p \in Ops, NEW r, r = op'[p] PROVE Fits(r)'
  <2>1. Fits(r)
    BY <1>1, <1>4, <1>5, <1>11
  <2>2. r.kind = "buy" => overlapped' # {}
    <3>1. r.kind = "buy" => p # o /\ r = op[p]
      BY <1>4, <1>5, <1>11
    <3> QED BY <1>1, <1>2, <3>1 DEF OverlapInv
  <2> QED BY <1>2, <2>1, <2>2, FitsStill
<1> QED BY <1>6, <1>7, <1>8, <1>9, <1>10, <1>11 DEF IInv, InFlight

-----------------------------------------------------------------------------
(* The inductive invariant.                                                 *)

LEMMA InitInv == Init => IInv
<1> SUFFICES ASSUME Init PROVE IInv
  OBVIOUS
<1>1. PICK s \in Starts :
         /\ id = s.id /\ inviter = s.inviter
         /\ row = s.row /\ payout = s.payout /\ event = s.event /\ earned = s.event
         /\ current = [u \in Accounts |-> IF row[u] = None THEN None ELSE u]
         /\ unspent = [u \in Accounts |-> row[u] = None]
         /\ panel = {row[r].remna : r \in {x \in DOMAIN row : row[x] # None}}
  BY DEF Init
<1>2. /\ exists = Accounts /\ alias = [u \in Accounts |-> None]
      /\ op = [o \in Ops |-> Idle] /\ heir = [u \in Accounts |-> u] /\ lost = {}
      /\ overlapped = {} /\ begun = 0 /\ faults = 0
  BY DEF Init
<1>3. Legal(s) /\ MaxBegun \in Nat /\ MaxFaults \in Nat
  BY MergeAssumption
<1>4. /\ id \in [Accounts -> Ids]
      /\ row \in [1..MaxRow -> Subscriptions \cup {None}]
      /\ payout \in [1..MaxRow -> PayoutRows \cup {None}]
      /\ event \in [Payments -> EventRows \cup {None}]
      /\ inviter \in [Accounts -> Accounts \cup {None}]
      /\ \A u, v \in Accounts : u # v /\ id[u].tg # None => id[u].tg # id[v].tg
      /\ \A r \in 1..MaxRow : row[r] # None =>
            r \in Accounts /\ row[r].user = r
            /\ row[r].remna = IF id[r].tg # None THEN id[r].tg ELSE r
      /\ \A j, k \in 1..MaxRow :
            /\ j # k /\ payout[j] # None /\ payout[k] # None
            /\ payout[j].status # "rejected" /\ payout[k].status # "rejected"
            => payout[j].user # payout[k].user
      /\ \A p \in Payments : event[p] # None => event[p].referrer # event[p].referred
      /\ \A u \in Accounts : inviter[u] # u
  BY <1>1, <1>3 DEF Legal
<1>5. /\ \A r \in 1..MaxRow : row[r] # None => row[r] \in Subscriptions
      /\ \A x \in panel : \E r \in 1..MaxRow : row[r] # None /\ x = row[r].remna
  <2>1. DOMAIN row = 1..MaxRow
    BY <1>4
  <2>2. panel = {row[r].remna : r \in {x \in DOMAIN row : row[x] # None}}
    BY <1>1
  <2>3. \A x \in panel : \E r \in 1..MaxRow : row[r] # None /\ x = row[r].remna
    BY <2>1, <2>2
  <2> QED BY <1>4, <2>3
<1>6. TypeInv
  <2>1. unspent \in [Accounts -> BOOLEAN]
    BY <1>1, Zenon
  <2>2. current \in [Accounts -> (1..MaxRow) \cup {None}]
    BY <1>1, NoneIsNobody
  <2>3. panel \subseteq Nat
    BY <1>5 DEF Subscriptions
  <2>4. /\ alias \in [Accounts -> Accounts \cup {None}] /\ heir \in [Accounts -> Accounts]
        /\ op \in [Ops -> Operations] /\ earned = event
    BY <1>1, <1>2, IdleFits
  <2>5. begun \in 0..MaxBegun /\ faults \in 0..MaxFaults
    BY <1>2, <1>3
  <2> QED BY <1>2, <1>4, <2>1, <2>2, <2>3, <2>4, <2>5 DEF TypeInv
<1>7. RefInv
  <2>1. \A k \in 1..MaxRow : payout[k] # None => payout[k].user \in exists
    BY <1>2, <1>4 DEF PayoutRows
  <2>2. \A p \in Payments : event[p] # None =>
           event[p].referrer \in exists /\ event[p].referred \in exists
    BY <1>2, <1>4 DEF EventRows
  <2>3. \A u \in Accounts : current[u] # None => u \in exists /\ row[current[u]] # None
    BY <1>1, <1>2
  <2> QED BY <1>2, <1>4, <2>1, <2>2, <2>3 DEF RefInv
<1>8. HeirInv
  BY <1>2, NoneIsNobody DEF HeirInv
<1>9. NoSelfReferral
  BY <1>4 DEF NoSelfReferral
<1>10. CommissionsFollow
  <2> SUFFICES ASSUME NEW p \in Payments, earned[p] # None
               PROVE  LET e == [referrer |-> heir[earned[p].referrer],
                                referred |-> heir[earned[p].referred]]
                      IN event[p] = IF e.referrer = e.referred THEN None ELSE e
    BY DEF CommissionsFollow
  <2>1. /\ event[p] \in EventRows /\ earned[p] = event[p]
        /\ event[p].referrer # event[p].referred
    BY <1>1, <1>4
  <2>2. /\ event[p].referrer \in Accounts /\ event[p].referred \in Accounts
        /\ event[p] = [referrer |-> event[p].referrer, referred |-> event[p].referred]
    BY <2>1 DEF EventRows
  <2>3. heir[event[p].referrer] = event[p].referrer /\ heir[event[p].referred] = event[p].referred
    BY <1>2, <2>2
  <2> QED BY <2>1, <2>2, <2>3
<1>11. NameInv
  <2>1. ASSUME NEW r \in 1..MaxRow, row[r] # None
        PROVE  IF row[r].remna \in Accounts THEN row[r].user = heir[row[r].remna]
               ELSE id[row[r].user].tg = row[r].remna
    <3>1. /\ r \in Accounts /\ row[r].user = r /\ id[r] \in Ids
          /\ row[r].remna = IF id[r].tg # None THEN id[r].tg ELSE r
      BY <1>4, <2>1
    <3>2. id[r].tg # None => id[r].tg \notin Accounts
      BY <3>1 DEF Ids
    <3>3. heir[r] = r
      BY <1>2, <3>1
    <3> QED BY <3>1, <3>2, <3>3
  <2> QED BY <1>2, <1>4, <2>1 DEF NameInv
<1>12. CurrentInv
  BY <1>1, <1>4, NoneIsNobody DEF CurrentInv
<1>13. UnspentInv
  <2>1. \A u \in Accounts : unspent[u] <=> row[u] = None
    BY <1>1
  <2>2. \A r \in 1..MaxRow : row[r] # None => r \in Accounts /\ row[r].user = r
    BY <1>4
  <2> QED BY <2>1, <2>2 DEF UnspentInv
<1>14. OneOpenPayout
  BY <1>4 DEF OneOpenPayout, Open
<1>15. PanelInv
  <2> SUFFICES ASSUME NEW x \in panel
               PROVE  \E u \in exists : current[u] # None /\ row[current[u]].remna = x
    BY DEF PanelInv
  <2>1. PICK r \in 1..MaxRow : row[r] # None /\ x = row[r].remna
    BY <1>5
  <2>2. r \in exists /\ current[r] = r /\ r # None
    BY <1>1, <1>2, <1>4, <2>1, NoneIsNobody
  <2> QED BY <2>1, <2>2
<1>16. OverlapInv
  BY <1>2, IdleFits DEF OverlapInv
<1>17. \A q \in InFlight : Fits(q)
  BY <1>2, IdleFits DEF InFlight
<1> QED BY <1>6, <1>7, <1>8, <1>9, <1>10, <1>11, <1>12, <1>13, <1>14, <1>15, <1>16, <1>17
        DEF IInv

LEMMA StutterInv ==
    ASSUME IInv, UNCHANGED vars
    PROVE  IInv'
<1>1. /\ UNCHANGED <<tables, panel, history, op, overlapped, begun, faults>>
      /\ UNCHANGED <<exists, id, unspent, current, row, payout, inviter, event, alias, heir,
                     earned, lost>>
  BY DEF vars, tables, history
<1>2. /\ TypeInv /\ RefInv /\ HeirInv /\ NoSelfReferral /\ CommissionsFollow /\ NameInv
      /\ CurrentInv /\ UnspentInv /\ OneOpenPayout /\ PanelInv /\ OverlapInv
      /\ \A q \in InFlight : Fits(q)
  BY DEF IInv
<1>3. TypeInv' /\ RefInv' /\ HeirInv' /\ NoSelfReferral' /\ CommissionsFollow'
  BY <1>1, <1>2, LinksStill DEF TypeInv, RefInv
<1>4. NameInv' /\ CurrentInv' /\ UnspentInv' /\ PanelInv'
  BY <1>1, <1>2, RowsStill DEF Cleaning
<1>5. OneOpenPayout' /\ OverlapInv'
  BY <1>1, <1>2, OpenStill DEF OverlapInv
<1>6. \A q \in InFlight' : Fits(q)'
  BY <1>1, <1>2, FitsStill DEF InFlight
<1> QED BY <1>3, <1>4, <1>5, <1>6 DEF IInv

LEMMA NextInv == IInv /\ [Next]_vars => IInv'
<1> SUFFICES ASSUME IInv, [Next]_vars PROVE IInv'
  OBVIOUS
<1>1. CASE UNCHANGED vars
  BY <1>1, StutterInv
<1>2. ASSUME NEW o \in Ops, Ask(o) \/ ReadSubs(o) \/ Repoint(o) \/ Commit(o) PROVE IInv'
  BY <1>2, AskInv, ReadSubsInv, RepointInv, CommitInv
<1>3. ASSUME NEW o \in Ops, MergeFails(o) \/ CleanUp(o) \/ Crash(o) PROVE IInv'
  BY <1>3, GiveUpInv, CleanUpInv
<1>4. ASSUME NEW o \in Ops, ReadCurrent(o) \/ BuyNew(o) \/ Renew(o) \/ Change(o) PROVE IInv'
  BY <1>4, ReadCurrentInv, BuyNewInv, RenewInv, ChangeInv
<1>5. ASSUME NEW o \in Ops,
             AskPayout(o) \/ CreatePayout(o) \/ ReadInviter(o) \/ AddCommission(o)
             \/ ReadCode(o) \/ CreateReferral(o)
      PROVE  IInv'
  BY <1>5, AskPayoutInv, CreatePayoutInv, ReadInviterInv, AddCommissionInv, ReadCodeInv,
     CreateReferralInv
<1>6. ASSUME NEW u \in Accounts, StartTrial(u) PROVE IInv'
  BY <1>6, StartTrialInv
<1>7. ASSUME NEW r \in DOMAIN row, Expire(r) PROVE IInv'
  BY <1>7, ExpireInv
<1>8. ASSUME NEW k \in DOMAIN payout, StartPayout(k) PROVE IInv'
  BY <1>8, StartPayoutInv
<1> QED BY <1>1, <1>2, <1>3, <1>4, <1>5, <1>6, <1>7, <1>8 DEF Next

\* Every reachable state: what the tables are among themselves, and that each operation in
\* flight still knows them, so far as nothing overlapped a merge.
THEOREM Invariant == Spec => []IInv
<1>1. Init => IInv
  BY InitInv
<1>2. IInv /\ [Next]_vars => IInv'
  BY NextInv
<1> QED BY <1>1, <1>2, PTL DEF Spec

\* However merges cross, also opposite ones and chains of them, every account, referral code
\* and invitation leads to an account that is there, no row of a deleted account is left,
\* and nobody has invited themselves.
THEOREM Stands == Spec => []AccountsStand
<1>1. IInv => AccountsStand
  <2> SUFFICES ASSUME IInv PROVE AccountsStand
    OBVIOUS
  <2>1. TypeInv /\ RefInv /\ HeirInv /\ NoSelfReferral
    BY DEF IInv
  <2>2. TypeOK
    <3>1. \A k \in 1..MaxRow : payout[k] # None =>
             payout[k].status \in {"requested", "processing", "rejected"}
      BY <2>1 DEF TypeInv, PayoutRows
    <3>2. DOMAIN row = 1..MaxRow /\ DOMAIN payout = 1..MaxRow
      BY <2>1 DEF TypeInv
    <3>3. \A u \in Accounts : alias[u] # None => alias[u] \in exists \ {u}
      BY <2>1 DEF HeirInv
    <3>4. \A u \in Accounts : /\ inviter[u] # None => {u, inviter[u]} \subseteq exists
                              /\ current[u] # None => u \in exists /\ row[current[u]] # None
      BY <2>1 DEF RefInv
    <3>5. \A p \in Payments : event[p] # None => {event[p].referrer, event[p].referred} \subseteq exists
      BY <2>1 DEF RefInv
    <3>6. /\ exists \subseteq Accounts /\ overlapped \subseteq Kinds \cup {"trial"}
          /\ panel \subseteq Nat /\ begun \in 0..MaxBegun /\ faults \in 0..MaxFaults
      BY <2>1 DEF TypeInv
    <3>7. /\ \A r \in 1..MaxRow : row[r] # None => row[r].user \in exists
          /\ \A k \in 1..MaxRow : payout[k] # None => payout[k].user \in exists
      BY <2>1 DEF RefInv
    <3> QED BY <3>1, <3>2, <3>3, <3>4, <3>5, <3>6, <3>7 DEF TypeOK
  <2>3. NobodyVanishes /\ CodesResolve
    BY <2>1 DEF HeirInv, NobodyVanishes, CodesResolve, OwnerOf
  <2> QED BY <2>1, <2>2, <2>3 DEF AccountsStand
<1> QED BY <1>1, Invariant, PTL

\* Commissions and payouts go with their owner through any number of merges; a merge leaves
\* no second trial, no second open payout, and no user of the panel behind.
THEOREM Follows == Spec => []RowsFollow
<1>1. IInv => RowsFollow
  <2> SUFFICES ASSUME IInv PROVE RowsFollow
    OBVIOUS
  <2>1. /\ TypeInv /\ RefInv /\ CommissionsFollow /\ UnspentInv /\ OneOpenPayout /\ PanelInv
    BY DEF IInv
  <2>2. TrialStaysSpent
    <3>1. DOMAIN row = 1..MaxRow
      BY <2>1 DEF TypeInv
    <3> QED BY <2>1, <3>1 DEF TrialStaysSpent, UnspentInv
  <2>3. OrphansGo
    <3> SUFFICES ASSUME Quiet, faults = 0, overlapped = {}, NEW x \in panel
                 PROVE  x \in {row[current[u]].remna : u \in {y \in exists : current[y] # None}}
      BY DEF OrphansGo
    <3>1. \A o \in Cleaning : FALSE
      BY DEF Cleaning, Quiet
    <3>2. PICK u \in exists : current[u] # None /\ row[current[u]].remna = x
      BY <2>1, <3>1 DEF PanelInv
    <3> QED BY <3>2
  <2> QED BY <2>1, <2>2, <2>3 DEF RowsFollow
<1> QED BY <1>1, Invariant, PTL

\* Who is bound to a Telegram account stays bound to it.
LEMMA BoundStays ==
    ASSUME IInv, Next
    PROVE  TelegramStaysBound
<1>1. TypeInv /\ HeirInv /\ \A o \in Ops : Fits(op[o])
  BY DEF IInv, InFlight
<1>2. ASSUME id' = id, heir' = heir PROVE TelegramStaysBound
  BY <1>1, <1>2 DEF TelegramStaysBound, HeirInv
<1>3. ASSUME NEW o \in Ops, Commit(o) PROVE TelegramStaysBound
  <2> DEFINE s == op[o].u
             l == op[o].v
             q == op[o].seen
  <2> SUFFICES ASSUME Apart({"merge"})', NEW u \in exists, id[u].tg # None
               PROVE  id'[heir'[u]].tg = id[u].tg
    BY DEF TelegramStaysBound
  <2>1. Shape(op[o]) /\ MergeView(op[o])
    BY <1>1 DEF Fits
  <2>2. /\ s \in Accounts /\ l \in Accounts /\ s # l /\ s \in exists /\ Merging(op[o])
        /\ overlapped' = overlapped /\ (q.s.tg = None \/ q.l.tg = None)
    BY <1>1, <1>3, <2>1, CommitBase
  <2>3. Apart({"merge"})
    BY <2>2 DEF Apart
  <2>4. l \in exists /\ q.s = id[s] /\ q.l = id[l]
    BY <2>1, <2>2, <2>3 DEF MergeView
  <2>5. /\ \A x \in Accounts \ {s, l} : id'[x] = id[x]
        /\ id'[s].tg = IF q.s.tg = None /\ q.l.tg # None THEN q.l.tg ELSE id[s].tg
    BY <1>1, <1>3, <2>1, CommitIds
  <2>6. \A x \in Accounts : heir'[x] = IF l \in exists /\ heir[x] = l THEN s ELSE heir[x]
    BY <1>1, <1>3, <2>1, CommitLinks
  <2>7. heir[u] = u /\ u \in Accounts
    BY <1>1 DEF HeirInv, TypeInv
  <2>8. CASE u = l
    BY <2>2, <2>4, <2>5, <2>6, <2>7, <2>8
  <2>9. CASE u = s
    BY <2>2, <2>4, <2>5, <2>6, <2>7, <2>9
  <2>10. CASE u \notin {s, l}
    BY <2>5, <2>6, <2>7, <2>10
  <2> QED BY <2>8, <2>9, <2>10
<1>4. ASSUME NEW o \in Ops,
             \/ Ask(o) \/ ReadSubs(o) \/ Repoint(o) \/ MergeFails(o) \/ CleanUp(o) \/ Crash(o)
             \/ ReadCurrent(o) \/ BuyNew(o) \/ Renew(o) \/ Change(o)
             \/ AskPayout(o) \/ CreatePayout(o)
             \/ ReadInviter(o) \/ AddCommission(o) \/ ReadCode(o) \/ CreateReferral(o)
      PROVE  id' = id /\ heir' = heir
  BY <1>4 DEF Ask, ReadSubs, Repoint, MergeFails, CleanUp, Crash, ReadCurrent, BuyNew, Renew,
     Change, AskPayout, CreatePayout, ReadInviter, AddCommission, ReadCode, CreateReferral,
     tables, history
<1>5. ASSUME NEW u \in Accounts, StartTrial(u) PROVE id' = id /\ heir' = heir
  BY <1>5 DEF StartTrial, history
<1>6. ASSUME NEW r \in DOMAIN row, Expire(r) PROVE id' = id /\ heir' = heir
  BY <1>6 DEF Expire, history
<1>7. ASSUME NEW k \in DOMAIN payout, StartPayout(k) PROVE id' = id /\ heir' = heir
  BY <1>7 DEF StartPayout, history
<1> QED BY <1>2, <1>3, <1>4, <1>5, <1>6, <1>7 DEF Next

\* The survivor's current subscription is the paid one that runs, and is not retired.
LEMMA CommitKeeps ==
    ASSUME IInv, NEW o \in Ops, Commit(o), Apart({"buy", "merge"})', NEW r \in DOMAIN row, Served(r)
    PROVE  Served(r)'
<1> DEFINE s == op[o].u
           l == op[o].v
           b == op[o].best
           u == row[r].user
<1>1. TypeInv /\ RefInv /\ Fits(op[o])
  BY DEF IInv, InFlight
<1>2. Shape(op[o]) /\ PaidView(op[o])
  BY <1>1 DEF Fits
<1>3. /\ s \in Accounts /\ l \in Accounts /\ s # l /\ Chosen(op[o]) /\ panel' = panel
      /\ overlapped' = overlapped
      /\ b # None => (row[b].user = l => <<"row", b>> \in op[o].moved)
  BY <1>1, <1>2, CommitBase
<1>4. Apart({"buy", "merge"})
  BY <1>3 DEF Apart
<1>5. /\ row[r] # None /\ row[r].paid /\ row[r].live /\ row[r].ahead
      /\ current[u] = r /\ row[r].remna \in panel
  BY DEF Served
<1>6. r \in 1..MaxRow /\ r # None /\ u \in Accounts
  BY <1>1, <1>5, NoneIsNobody DEF TypeInv, RefInv
<1>7. /\ \A x \in Accounts :
            LET c == IF x = s /\ b # None THEN b ELSE current[x]
            IN current'[x] = IF x = l \/ c = None \/ row'[c] = None THEN None ELSE c
      /\ row'[r] = None <=>
            row[r] = None \/ (row[r].user = l /\ <<"row", r>> \notin op[o].moved)
      /\ row'[r] # None =>
            /\ row'[r].remna = row[r].remna /\ row'[r].paid = row[r].paid
            /\ row'[r].ahead = row[r].ahead
            /\ row'[r].user = IF row[r].user = l THEN s ELSE row[r].user
            /\ \/ row'[r].live = row[r].live
               \/ /\ row'[r].user = s /\ b # None
                  /\ row[r].remna # row[b].remna
  BY <1>1, <1>2, <1>6, CommitRows
<1>8. CASE u \in {s, l}
  <2>1. ActivePaid(current[u])
    BY <1>5, <1>6 DEF ActivePaid
  <2>2. b = r
    BY <1>2, <1>3, <1>4, <1>5, <1>8, <2>1 DEF PaidView
  <2>3. row'[r] # None /\ row'[r].user = s /\ row'[r].live
    BY <1>3, <1>5, <1>6, <1>7, <1>8, <2>2
  <2>4. current'[s] = r
    BY <1>3, <1>6, <1>7, <2>2, <2>3
  <2> QED BY <1>3, <1>5, <1>7, <2>3, <2>4 DEF Served
<1>9. CASE u \notin {s, l}
  <2>1. row'[r] # None /\ row'[r].user = u /\ row'[r].live
    BY <1>5, <1>7, <1>9
  <2>2. current'[u] = r
    BY <1>5, <1>6, <1>7, <1>9, <2>1
  <2> QED BY <1>3, <1>5, <1>7, <2>1, <2>2 DEF Served
<1> QED BY <1>8, <1>9

\* A purchase adds a subscription for who has no paid one, or for the same panel user.
LEMMA BuyingKeeps ==
    ASSUME IInv, NEW o \in Ops, BuyNew(o) \/ Renew(o) \/ Change(o), Apart({"buy", "merge"})',
           NEW r \in DOMAIN row, Served(r)
    PROVE  Served(r)' \/ \E q \in DOMAIN row : Served(q)' /\ row'[q].remna = row[r].remna
<1>1. TypeInv /\ RefInv /\ Fits(op[o])
  BY DEF IInv, InFlight
<1>2. overlapped' = overlapped /\ op[o].kind = "buy"
  BY DEF BuyNew, Renew, Change, At
<1>3. Apart({"buy", "merge"})
  BY <1>2 DEF Apart
<1> DEFINE u == row[r].user
           w == op[o].u
<1>4. /\ row[r] # None /\ row[r].paid /\ row[r].live /\ row[r].ahead
      /\ current[u] = r /\ row[r].remna \in panel
  BY DEF Served
<1>5. /\ r \in 1..MaxRow /\ u \in Accounts /\ w \in Accounts /\ r # None
      /\ row[r] \in Subscriptions
  BY <1>1, <1>2, <1>4, NoneIsNobody DEF TypeInv, RefInv, Fits, Shape
<1>6. current[w] # None /\ row[current[w]].paid => op[o].how # "new" /\ current[w] = op[o].seen
  BY <1>1, <1>2, <1>3 DEF Fits, BuyView
<1> PICK n : n = NextId(row, "row")
  OBVIOUS
<1>7. CASE BuyNew(o)
  <2> DEFINE rec == NewRow(w, op[o].seen, TRUE)
  <2>1. /\ op[o].how = "new" /\ Room(row, "row") /\ panel \subseteq panel'
        /\ \/ /\ row' = [row EXCEPT ![n] = rec]
              /\ current' = [current EXCEPT ![w] = n]
           \/ UNCHANGED <<row, current>>
    BY <1>7 DEF BuyNew
  <2>2. u # w
    BY <1>4, <1>5, <1>6, <2>1
  <2>3. n \in DOMAIN row /\ row[n] = None
    BY <2>1, NextIdIsFree
  <2> HIDE DEF rec, w
  <2>4. row'[r] = row[r] /\ current'[u] = current[u]
    <3>1. r # n /\ row \in [1..MaxRow -> Subscriptions \cup {None}]
          /\ current \in [Accounts -> (1..MaxRow) \cup {None}]
      BY <1>1, <1>4, <2>3 DEF TypeInv
    <3>2. CASE UNCHANGED <<row, current>>
      BY <3>2
    <3>3. CASE row' = [row EXCEPT ![n] = rec] /\ current' = [current EXCEPT ![w] = n]
      BY <1>5, <2>2, <2>3, <3>1, <3>3
    <3> QED BY <2>1, <3>2, <3>3
  <2> QED BY <1>4, <2>1, <2>4 DEF Served
<1>8. CASE Renew(o)
  <2>1. /\ current' = current /\ panel' = panel
        /\ row' = row \/ row' = [row EXCEPT ![op[o].seen].ahead = TRUE]
    BY <1>8 DEF Renew
  <2> DEFINE d == [row[r] EXCEPT !.ahead = TRUE]
  <2>2. row'[r] \in {row[r], d}
    BY <1>1, <1>5, <2>1 DEF TypeInv
  <2>3. d \in Subscriptions /\ d.user = u /\ d.remna = row[r].remna /\ d.paid = row[r].paid
        /\ d.live = row[r].live /\ d.ahead
    BY <1>5 DEF Subscriptions
  <2> HIDE DEF d
  <2>4. d # None
    BY <2>3, NoneIsNobody
  <2> QED BY <1>4, <2>1, <2>2, <2>3, <2>4 DEF Served
<1>9. CASE Change(o)
  <2> DEFINE x == op[o].seen
             rec == NewRow(w, row[x].remna, TRUE)
  <2>1. /\ op[o].how = "change" /\ Room(row, "row") /\ panel' = panel
        /\ \/ /\ row' = [row EXCEPT ![x].live = FALSE, ![n] = rec]
              /\ current' = [current EXCEPT ![w] = n]
           \/ UNCHANGED <<row, current>>
    BY <1>9 DEF Change
  <2>2. n \in DOMAIN row /\ row[n] = None
    BY <2>1, NextIdIsFree
  <2>3. row[x] # None /\ row[x].user = w /\ x \in 1..MaxRow
    BY <1>1, <1>2, <1>3, <2>1 DEF Fits, BuyView, Shape
  <2> HIDE DEF x
  <2>4. CASE UNCHANGED <<row, current>>
    BY <1>4, <2>1, <2>4 DEF Served
  <2>5. CASE /\ row' = [row EXCEPT ![x].live = FALSE, ![n] = rec]
             /\ current' = [current EXCEPT ![w] = n]
    <3>1. CASE u = w
      <4>1. x = r
        BY <1>4, <1>5, <1>6, <3>1 DEF x
      <4>2. row'[n] = rec /\ current'[w] = n
        BY <1>1, <1>5, <2>2, <2>5 DEF TypeInv
      <4>3. /\ rec \in Subscriptions /\ rec.user = w /\ rec.remna = row[r].remna
            /\ rec.paid /\ rec.live /\ rec.ahead
        BY <1>5, <4>1 DEF NewRow, Subscriptions
      <4> HIDE DEF rec
      <4>4. row'[n] # None
        BY <4>2, <4>3, NoneIsNobody
      <4>5. Served(n)' /\ row'[n].remna = row[r].remna
        <5>1. /\ row'[n] # None /\ row'[n].paid /\ row'[n].live /\ row'[n].ahead
              /\ current'[row'[n].user] = n /\ row'[n].remna \in panel'
          BY <1>4, <2>1, <4>2, <4>3, <4>4
        <5> QED BY <4>2, <4>3, <5>1 DEF Served
      <4> QED BY <2>2, <4>5
    <3>2. CASE u # w
      <4>1. r # x /\ r # n
        BY <1>4, <2>2, <2>3, <3>2
      <4>2. row'[r] = row[r] /\ current'[u] = current[u]
        BY <1>1, <1>5, <2>2, <2>3, <2>5, <3>2, <4>1 DEF TypeInv
      <4> QED BY <1>4, <2>1, <4>2 DEF Served
    <3> QED BY <3>1, <3>2
  <2> QED BY <2>1, <2>4, <2>5
<1> QED BY <1>7, <1>8, <1>9

LEMMA PaidStays ==
    ASSUME IInv, Next
    PROVE  PaidIsKept
<1>1. TypeInv /\ RefInv /\ UnspentInv /\ \A o \in Ops : Fits(op[o])
  BY DEF IInv, InFlight
<1> SUFFICES ASSUME Apart({"buy", "merge"})', NEW r \in DOMAIN row, Served(r)
             PROVE  \/ Served(r)'
                    \/ row'[r] # None /\ ~row'[r].ahead
                    \/ \E q \in DOMAIN row : Served(q)' /\ row'[q].remna = row[r].remna
                    \/ TrialAgain(row[r].user)
  BY DEF PaidIsKept
<1>2. /\ row[r] # None /\ row[r].paid /\ row[r].live /\ row[r].ahead
      /\ current[row[r].user] = r /\ row[r].remna \in panel
  BY DEF Served
<1>3. r \in 1..MaxRow /\ row[r] \in Subscriptions /\ row[r].user \in exists /\ row[r].user \in Accounts
  BY <1>1, <1>2 DEF TypeInv, RefInv
<1>4. ASSUME row' = row, current' = current, panel' = panel PROVE Served(r)'
  BY <1>2, <1>4 DEF Served
<1>5. ASSUME NEW o \in Ops, Commit(o) PROVE Served(r)'
  BY <1>5, CommitKeeps
<1>6. ASSUME NEW o \in Ops, BuyNew(o) \/ Renew(o) \/ Change(o)
      PROVE  Served(r)' \/ \E q \in DOMAIN row : Served(q)' /\ row'[q].remna = row[r].remna
  BY <1>6, BuyingKeeps
<1>7. ASSUME NEW o \in Ops, CleanUp(o) PROVE Served(r)'
  <2>1. /\ op[o].kind = "merge" /\ op[o].pc = "panel" /\ UNCHANGED <<row, current, overlapped>>
        /\ \A x \in panel \ panel' : x \in op[o].orphans
    BY <1>7 DEF CleanUp, At, tables
  <2>2. Apart({"buy", "merge"})
    BY <2>1 DEF Apart
  <2>3. row[r].remna \notin op[o].orphans
    BY <1>1, <1>2, <1>3, <2>1, <2>2 DEF Fits, PaidView
  <2> QED BY <1>2, <2>1, <2>3 DEF Served
<1>8. ASSUME NEW u \in Accounts, StartTrial(u)
      PROVE  Served(r)' \/ TrialAgain(row[r].user)
  <2> PICK n : n = NextId(row, "row")
    OBVIOUS
  <2> DEFINE rec == NewRow(u, Name(u), FALSE)
  <2>1. /\ u \in exists /\ unspent[u] /\ Room(row, "row") /\ panel \subseteq panel'
        /\ row' = [row EXCEPT ![n] = rec] /\ current' = [current EXCEPT ![u] = n]
        /\ unspent' = [unspent EXCEPT ![u] = FALSE] /\ heir' = heir /\ overlapped \subseteq overlapped'
    BY <1>8 DEF StartTrial, history
  <2>2. n \in DOMAIN row /\ row[n] = None
    BY <2>1, NextIdIsFree
  <2> HIDE DEF rec
  <2>3. CASE row[r].user = u
    <3>1. ~unspent'[u]
      BY <1>1, <2>1 DEF TypeInv
    <3>2. "trial" \in overlapped
      <4>1. SUFFICES ASSUME "trial" \notin overlapped PROVE FALSE
        OBVIOUS
      <4>2. Apart({"trial", "buy", "merge"})
        BY <2>1, <4>1 DEF Apart
      <4> QED BY <1>1, <1>2, <1>3, <2>1, <2>3, <4>2 DEF UnspentInv
    <3> QED BY <2>1, <2>3, <3>1, <3>2 DEF TrialAgain
  <2>4. CASE row[r].user # u
    <3>1. row'[r] = row[r] /\ current'[row[r].user] = current[row[r].user]
      BY <1>1, <1>2, <1>3, <2>1, <2>2, <2>4 DEF TypeInv
    <3> QED BY <1>2, <2>1, <3>1 DEF Served
  <2> QED BY <2>3, <2>4
<1>9. ASSUME NEW x \in DOMAIN row, Expire(x)
      PROVE  Served(r)' \/ (row'[r] # None /\ ~row'[r].ahead)
  <2>1. /\ row' = [row EXCEPT ![x].ahead = FALSE] /\ current' = current /\ panel' = panel
    BY <1>9 DEF Expire
  <2>2. CASE x = r
    <3> DEFINE d == [row[r] EXCEPT !.ahead = FALSE]
    <3>1. row'[r] = d
      BY <2>1, <2>2
    <3>2. d \in Subscriptions /\ ~d.ahead
      BY <1>3 DEF Subscriptions
    <3> HIDE DEF d
    <3> QED BY <3>1, <3>2, NoneIsNobody
  <2>3. CASE x # r
    <3>1. row'[r] = row[r]
      BY <2>1, <2>3
    <3> QED BY <1>2, <2>1, <3>1 DEF Served
  <2> QED BY <2>2, <2>3
<1>10. ASSUME NEW o \in Ops,
              \/ Ask(o) \/ ReadSubs(o) \/ Repoint(o) \/ MergeFails(o) \/ Crash(o)
              \/ ReadCurrent(o) \/ AskPayout(o) \/ CreatePayout(o)
              \/ ReadInviter(o) \/ AddCommission(o) \/ ReadCode(o) \/ CreateReferral(o)
       PROVE  row' = row /\ current' = current /\ panel' = panel
  BY <1>10 DEF Ask, ReadSubs, Repoint, MergeFails, Crash, ReadCurrent, AskPayout, CreatePayout,
     ReadInviter, AddCommission, ReadCode, CreateReferral, tables
<1>11. ASSUME NEW k \in DOMAIN payout, StartPayout(k)
       PROVE  row' = row /\ current' = current /\ panel' = panel
  BY <1>11 DEF StartPayout
<1> QED BY <1>4, <1>5, <1>6, <1>7, <1>8, <1>9, <1>10, <1>11 DEF Next

\* No step of a merge, nor what runs beside it, takes a paid subscription or a Telegram
\* account from its person, so far as PaidIsKept and TelegramStaysBound promise it.
THEOREM Kept == Spec => KeptThroughMerge
<1>1. IInv /\ Next => PaidIsKept /\ TelegramStaysBound
  BY PaidStays, BoundStays
<1>2. IInv /\ [Next]_vars => [PaidIsKept /\ TelegramStaysBound]_vars
  BY <1>1
<1>3. Spec => [][PaidIsKept /\ TelegramStaysBound]_vars
  BY <1>2, Invariant, PTL DEF Spec
<1> QED BY <1>3 DEF KeptThroughMerge

=============================================================================
