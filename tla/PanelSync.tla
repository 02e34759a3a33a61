----------------------------- MODULE PanelSync ------------------------------
(***************************************************************************)
(* One person, known by a Telegram id, on both sides of the panel: the     *)
(* account and its subscription rows in the database, the panel's users    *)
(* that carry the id, and what keeps the two together -- the webhooks of   *)
(* the panel, the operators' synchronisations in either direction, and the *)
(* operations that change, delete or recreate a subscription or erase the  *)
(* account.                                                                *)
(*                                                                         *)
(* An operation reads the database, calls the panel and commits; each is   *)
(* an action of its own, and a transaction without a panel call is one.    *)
(* The expiry, the limits and the squads of a subscription are one number. *)
(***************************************************************************)
EXTENDS Integers, FiniteSets, SequencesExt

CONSTANTS
    Workers,        \* operations in flight at once
    Kinds,          \* operations that may be begun
    MaxPanel,       \* bound on users of the panel
    MaxRows,        \* bound on rows
    MaxTerm,        \* bound on changes of the terms
    MaxBegun,       \* bound on operations begun
    MaxHand,        \* bound on what an administrator does by hand in the panel
    Mishaps,        \* faults that may occur
    MaxMishaps      \* bound on how many

Panel == 1 .. MaxPanel
Rows  == 1 .. MaxRows
None  == 0

ASSUME PanelSyncAssumption ==
    /\ {MaxPanel, MaxRows, MaxTerm} \subseteq Nat \ {0}
    /\ {MaxBegun, MaxHand, MaxMishaps} \subseteq Nat
    /\ Kinds \subseteq {"register", "buy", "change", "extend", "toggle", "delete",
                        "pull", "push", "pullall", "erase"}
    /\ Mishaps \subseteq {"refused", "unanswered", "crash", "lost", "late", "again"}

VARIABLES
    account,    \* users.id of the person, None without an account
    accounts,   \* accounts there have been
    rows,       \* rows of subscriptions, in order of insertion
    current,    \* users.current_subscription_id
    panel,      \* users of the panel, in order of creation
    hooks,      \* webhooks on their way, in the order the panel sent them
    handler,    \* the panel user whose deletion is being handled, None if none is
    op,         \* program counter and locals of each operation
    started,    \* operations begun
    hand,       \* what was done by hand in the panel
    mishaps,    \* history: faults that occurred
    marks       \* history: "clash" once two operations overlapped, "edited" once the
                \* panel was changed by hand, or a subscription imported, under an
                \* operation, or a row synchronised under an erasure, "adopted" once
                \* the current row was given another user of the panel

store == <<account, accounts, rows, current>>
syncVars == <<account, accounts, rows, current, panel, hooks, handler, op, started, hand,
              mishaps, marks>>

-----------------------------------------------------------------------------

Free == [pc |-> "idle", kind |-> "none", of |-> None, row |-> None, remna |-> None,
         sub |-> [term |-> 1, status |-> "ACTIVE", tag |-> FALSE], ids |-> {}, seen |-> {},
         whole |-> TRUE]

SyncInit ==
    /\ account = 1 /\ accounts = 1
    /\ rows = <<[remna |-> 1, term |-> 1, status |-> "ACTIVE", tag |-> FALSE]>>
    /\ current = 1
    /\ panel = <<[alive |-> TRUE, own |-> TRUE, term |-> 1, status |-> "ACTIVE", tag |-> FALSE]>>
    /\ hooks = <<>> /\ handler = None
    /\ op = [w \in Workers |-> Free]
    /\ started = 0 /\ hand = 0 /\ mishaps = {} /\ marks = {}

Mishap(kind) ==
    /\ kind \in Mishaps \ mishaps /\ Cardinality(mishaps) < MaxMishaps
    /\ mishaps' = mishaps \cup {kind}

Alive    == {p \in 1 .. Len(panel) : panel[p].alive}
NameHeld == \E p \in Alive : panel[p].own

\* The panel lists users in the order of their creation.
First(p) == \A q \in Alive : p <= q

Data(x) == [term |-> x.term, status |-> x.status, tag |-> x.tag]

Row(p, x) == [remna |-> p, term |-> x.term, status |-> x.status, tag |-> x.tag]

Hook(kind, p, x) == [kind |-> kind, id |-> p, sub |-> Data(x)]

Busy(w)   == op[w].pc # "idle"
Finish(w) == op' = [op EXCEPT ![w] = Free]

\* A transaction that has written the current row holds it until it ends.
Held == \E w \in Workers : op[w].kind \in {"extend", "change"} /\ op[w].pc \in {"panel", "commit"}

-----------------------------------------------------------------------------
(* The panel.  It tells of a deletion, of a creation, and of every change   *)
(* with the state that resulted.                                            *)

Update(p, x) ==
    /\ p \in Alive
    /\ panel' = [panel EXCEPT ![p] = [alive |-> TRUE, own |-> @.own, term |-> x.term,
                                      status |-> x.status, tag |-> x.tag]]

Create(own, x) ==
    /\ Len(panel) < MaxPanel /\ (own => ~NameHeld)
    /\ panel' = Append(panel, [alive |-> TRUE, own |-> own, term |-> x.term,
                               status |-> x.status, tag |-> x.tag])
    /\ hooks' = Append(hooks, Hook("created", Len(panel) + 1, x))

RemovePanelUser(p) ==
    /\ p \in Alive
    /\ panel' = [panel EXCEPT ![p].alive = FALSE]
    /\ hooks' = Append(hooks, Hook("deleted", p, panel[p]))

\* An administrator renews, disables, deletes or imports a user in the panel.
ByHand ==
    /\ hand < MaxHand /\ hand' = hand + 1
    /\ \/ \E p \in Alive, t \in 1 .. MaxTerm :
            /\ t # panel[p].term
            /\ Update(p, [panel[p] EXCEPT !.term = t])
            /\ hooks' = Append(hooks, Hook("modified", p, panel'[p]))
       \/ \E p \in Alive, s \in {"ACTIVE", "DISABLED"} :
            /\ s # panel[p].status
            /\ Update(p, [panel[p] EXCEPT !.status = s])
            /\ hooks' = Append(hooks, Hook("status", p, panel'[p]))
       \/ \E p \in Alive : RemovePanelUser(p)
       \/ \E tag \in BOOLEAN : Create(FALSE, [term |-> 1, status |-> "ACTIVE", tag |-> tag])
    /\ marks' = marks \cup (IF \E w \in Workers : Busy(w) THEN {"edited"} ELSE {})
    /\ op' = [w \in Workers |-> [op[w] EXCEPT !.whole = ~Busy(w)]]
    /\ UNCHANGED <<store, handler, started, mishaps>>

-----------------------------------------------------------------------------
(* SyncRemnaUser: the owner is the one the caller names, or who has a       *)
(* current row of this panel user, or who has its Telegram id, or a new     *)
(* account.                                                                 *)

\* Mutation of Synced: a row keeps the panel user it was created with.
SyncedKeepsId(p, x) == [rows EXCEPT ![current] = Row(@.remna, x)]

\* apply_sync: the current row takes everything, the panel user included.
Synced(p, x) == [rows EXCEPT ![current] = Row(p, x)]

\* Mutation of Imported: the imported row is not made the current one.
ImportedAside(p, x) ==
    /\ Len(rows) < MaxRows
    /\ rows' = Append(rows, Row(p, x)) /\ current' = current

Imported(p, x) ==
    /\ Len(rows) < MaxRows
    /\ rows' = Append(rows, Row(p, x)) /\ current' = Len(rows) + 1

Sync(p, x, creating, of) ==
    \/ /\ (of # None /\ of # account) \/ (account = None /\ ~creating)
       /\ UNCHANGED store
    \/ /\ of \in {None, account} /\ (account # None \/ creating)
       /\ IF account = None
          THEN account' = accounts + 1 /\ accounts' = accounts + 1
          ELSE UNCHANGED <<account, accounts>>
       /\ \/ current = None /\ Imported(p, x)
          \/ current # None /\ ~Held /\ rows' = Synced(p, x) /\ UNCHANGED current

\* What is noted of a synchronisation that was not told the owner.
Noted(foreign) ==
    marks' = marks
        \cup (IF current # None /\ rows'[current].remna # rows[current].remna
              THEN {"adopted"} ELSE {})
        \cup (IF \/ foreign /\ current' # current
                 \/ rows' # rows /\ \E w \in Workers : op[w].kind = "erase"
              THEN {"edited"} ELSE {})

-----------------------------------------------------------------------------
(* RemnaWebhookService.handle_user_event                                    *)

\* user_dao.get_by_remna_id: whose current row is of this panel user.
Owned(p) == current # None /\ rows[current].remna = p

\* A change of status is looked up before the transaction that takes it, and an operation
\* may commit in between: any row of the panel user may be the one that was found.  That
\* another webhook is handled in between is one that overtakes.
FoundBefore(p) == \E r \in 1 .. Len(rows) : rows[r].remna = p

\* _process_sync and _process_status
Changed(h) ==
    /\ \/ h.kind = "modified" \/ (h.kind = "status" /\ FoundBefore(h.id))
       \/ (h.kind = "created" /\ h.sub.tag)
    /\ Sync(h.id, h.sub, h.kind = "created", None)
    /\ UNCHANGED handler

Ignored(h) ==
    /\ \/ (h.kind = "created" /\ ~h.sub.tag) \/ (h.kind \in {"status", "deleted"} /\ ~Owned(h.id))
    /\ UNCHANGED <<store, handler>>

Deleted(h) ==
    /\ h.kind = "deleted" /\ Owned(h.id) /\ handler = None
    /\ handler' = h.id
    /\ UNCHANGED store

Handle(h) == Changed(h) \/ Ignored(h) \/ Deleted(h)

\* In order; or overtaken, or repeated by the panel.
Deliver ==
    /\ hooks # <<>>
    /\ \/ Handle(hooks[1]) /\ hooks' = Tail(hooks) /\ UNCHANGED mishaps
       \/ Handle(hooks[1]) /\ Mishap("again") /\ UNCHANGED hooks
       \/ \E k \in 2 .. Len(hooks) :
            Handle(hooks[k]) /\ Mishap("late") /\ hooks' = RemoveAt(hooks, k)
    /\ Noted(\E w \in Workers : Busy(w))
    /\ UNCHANGED <<panel, op, started, hand>>

Lose ==
    /\ hooks # <<>> /\ Mishap("lost") /\ hooks' = Tail(hooks)
    /\ UNCHANGED <<store, panel, handler, op, started, hand, marks>>

\* Mutation of StillOf: what was found before the transaction is not looked up again.
StillOfBefore(p) == current # None

StillOf(p) == current # None /\ rows[current].remna = p

\* _process_delete_subscription: a row of the panel user, any of them, is marked
\* DELETED, and the current one unlinked if it is of the same panel user.
Unlink ==
    /\ handler # None /\ ~Held
    /\ LET of == {r \in 1 .. Len(rows) : rows[r].remna = handler}
       IN \/ of = {} /\ UNCHANGED <<rows, current>>
          \/ \E r \in of :
               /\ rows' = [rows EXCEPT ![r].status = "DELETED"]
               /\ current' = IF StillOf(handler) THEN None ELSE current
    /\ handler' = None
    /\ UNCHANGED <<account, accounts, panel, hooks, op, started, hand, mishaps, marks>>

-----------------------------------------------------------------------------
(* Operations                                                               *)

During(w, kind, pc) == op[w].kind = kind /\ op[w].pc = pc

Goto(w, pc) == op' = [op EXCEPT ![w].pc = pc]

\* What every operation begins with: the account and its current subscription.
Begin(w, kind, pc, sub) ==
    /\ ~Busy(w) /\ kind \in Kinds /\ started < MaxBegun /\ started' = started + 1
    /\ LET others == {v \in Workers : Busy(v)}
       IN /\ op' = [v \in Workers |->
                      IF v = w
                      THEN [Free EXCEPT !.pc = pc, !.kind = kind, !.of = account,
                                        !.row = current, !.sub = sub,
                                        !.remna = IF current = None THEN None
                                                  ELSE rows[current].remna,
                                        !.whole = others = {}]
                      ELSE [op[v] EXCEPT !.whole = FALSE]]
          /\ marks' = marks \cup (IF others = {} THEN {} ELSE {"clash"})
    /\ UNCHANGED <<store, panel, hooks, handler, hand, mishaps>>

Current == IF current = None THEN Free.sub ELSE Data(rows[current])

\* update_user asks for ACTIVE unless the row is DISABLED.
Asked(x) == [x EXCEPT !.status = IF @ = "DISABLED" THEN "DISABLED" ELSE "ACTIVE"]

\* A call of the panel that was applied: answered, or not in time.
Applied(w, next) == (next /\ UNCHANGED mishaps) \/ (Mishap("unanswered") /\ Finish(w))

Refused(w) == Mishap("refused") /\ Finish(w) /\ UNCHANGED <<panel, hooks>>

Missing(w) == op[w].remna \notin Alive /\ Finish(w) /\ UNCHANGED <<panel, hooks, mishaps>>

Call(w) == UNCHANGED <<store, handler, started, hand, marks>>

PushTo(w, x, kind) ==
    /\ Update(op[w].remna, x)
    /\ hooks' = Append(hooks, Hook(kind, op[w].remna, x))

\* The limits, the squads and the expiry; the terms of another plan.
Extend(w) == \E t \in 1 .. MaxTerm :
    /\ current # None /\ t # rows[current].term
    /\ Begin(w, "extend", "lock", [Current EXCEPT !.term = t])

Change(w) == \E t \in 1 .. MaxTerm :
    /\ current # None /\ Len(rows) < MaxRows
    /\ Begin(w, "change", "lock", [term |-> t, status |-> "ACTIVE", tag |-> FALSE])

Toggle(w) ==
    /\ current # None
    /\ Begin(w, "toggle", "panel",
             [Current EXCEPT !.status = IF @ = "ACTIVE" THEN "DISABLED" ELSE "ACTIVE"])

Delete(w) == current # None /\ Begin(w, "delete", "panel", Current)

Buy(w) == \E t \in 1 .. MaxTerm :
    /\ account # None /\ current = None /\ Len(rows) < MaxRows
    /\ Begin(w, "buy", "panel", [term |-> t, status |-> "ACTIVE", tag |-> FALSE])

\* The operation writes the current row first, which it then holds.
Lock(w) ==
    /\ op[w].pc = "lock" /\ ~Held /\ Goto(w, "panel")
    /\ UNCHANGED <<store, panel, hooks, handler, started, hand, mishaps, marks>>

\* enable_user and disable_user change the status only.
Pushed(w) ==
    IF op[w].kind = "toggle"
    THEN [panel[op[w].remna] EXCEPT !.status = op[w].sub.status]
    ELSE Asked(op[w].sub)

CallUpdate(w) ==
    /\ op[w].kind \in {"extend", "change", "toggle", "push"} /\ op[w].pc = "panel"
    /\ \/ /\ op[w].remna \in Alive
          /\ PushTo(w, Pushed(w), IF op[w].kind = "toggle" THEN "status" ELSE "modified")
          /\ Applied(w, IF op[w].kind = "push" THEN Finish(w) ELSE Goto(w, "commit"))
       \/ Missing(w) \/ Refused(w)
    /\ Call(w)

CallDelete(w) ==
    /\ During(w, "delete", "panel")
    /\ \/ RemovePanelUser(op[w].remna) /\ Applied(w, Goto(w, "commit"))
       \/ op[w].remna \notin Alive /\ Goto(w, "commit") /\ UNCHANGED <<panel, hooks, mishaps>>
       \/ Refused(w)
    /\ Call(w)

\* create_user sends no status: what it makes is ACTIVE, whatever the row is.
Made(w) == [op[w].sub EXCEPT !.status = "ACTIVE"]

\* Refused while another user has the name.
CallCreate(w) ==
    /\ During(w, "buy", "panel") \/ During(w, "push", "recreate")
    /\ Create(TRUE, Made(w))
    /\ \/ /\ op' = [op EXCEPT ![w].pc = "commit", ![w].remna = Len(panel'), ![w].sub = Made(w)]
          /\ UNCHANGED mishaps
       \/ Mishap("unanswered") /\ Finish(w)
    /\ Call(w)

NotCreated(w) ==
    /\ During(w, "buy", "panel") \/ During(w, "push", "recreate")
    /\ \/ NameHeld /\ Finish(w) /\ UNCHANGED <<panel, hooks, mishaps>>
       \/ Refused(w)
    /\ Call(w)

\* Mutation of Kept: an operation does not notice that its account is gone.
KeptAlways(w) == TRUE

\* An account that is gone takes no row, and rows that are gone no change.
Kept(w) == op[w].of = account

CommitUpdate(w) ==
    /\ op[w].kind \in {"extend", "toggle"} /\ op[w].pc = "commit"
    /\ op[w].kind = "toggle" => ~Held
    /\ rows' = IF ~Kept(w) THEN rows
               ELSE IF op[w].kind = "extend"
               THEN [rows EXCEPT ![op[w].row].term = op[w].sub.term]
               ELSE [rows EXCEPT ![op[w].row].status = op[w].sub.status]
    /\ Finish(w)
    /\ UNCHANGED <<account, accounts, current, panel, hooks, handler, started, hand, mishaps,
                   marks>>

\* The row is retired, and the panel user goes on under another.
CommitInsert(w) ==
    /\ op[w].kind \in {"change", "buy"} /\ op[w].pc = "commit"
    /\ \/ ~Kept(w) /\ UNCHANGED <<rows, current>>
       \/ /\ Kept(w) /\ Len(rows) < MaxRows
          /\ rows' = Append(IF op[w].kind = "buy" THEN rows
                            ELSE [rows EXCEPT ![op[w].row].status = "DELETED"],
                            Row(op[w].remna, op[w].sub))
          /\ current' = Len(rows) + 1
    /\ Finish(w)
    /\ UNCHANGED <<account, accounts, panel, hooks, handler, started, hand, mishaps, marks>>

\* DeleteSubscription, and the synchronisation of a subscription that the panel
\* does not have.
CommitDelete(w) ==
    /\ During(w, "delete", "commit") \/ During(w, "pull", "gone")
    /\ ~Held
    /\ IF Kept(w)
       THEN rows' = [rows EXCEPT ![op[w].row].status = "DELETED"] /\ current' = None
       ELSE UNCHANGED <<rows, current>>
    /\ Finish(w)
    /\ UNCHANGED <<account, accounts, panel, hooks, handler, started, hand, mishaps, marks>>

-----------------------------------------------------------------------------
(* Synchronisation: SyncSubscriptionFromRemnawave (pull), ...FromRemnashop  *)
(* and SyncAllUsersFromBot (push), SyncAllUsersFromPanel (pullall).         *)

Pull(w) == account # None /\ Begin(w, "pull", "look", Current)
Push(w) == account # None /\ Begin(w, "push", "look", Current)
PullAll(w) == Begin(w, "pullall", "look", Free.sub)

\* Mutation of Snapshot: the data of the row is kept.
SnapshotOld(w, p) == op[w].sub

Snapshot(w, p) == Data(panel[p])

LookPull(w) ==
    /\ During(w, "pull", "look")
    /\ \/ \E p \in Alive :
            /\ IF op[w].row = None THEN First(p) ELSE p = op[w].remna
            /\ op' = [op EXCEPT ![w].pc = "sync", ![w].remna = p, ![w].sub = Snapshot(w, p)]
       \/ op[w].row = None /\ Alive = {} /\ Finish(w)
       \/ op[w].row # None /\ op[w].remna \notin Alive /\ Goto(w, "gone")
    /\ UNCHANGED <<store, panel, hooks, handler, started, hand, mishaps, marks>>

\* With no subscription the first user the panel has for the person is deleted.
LookPush(w) ==
    /\ During(w, "push", "look")
    /\ \/ op[w].row # None /\ op[w].remna \in Alive /\ Goto(w, "panel")
          /\ UNCHANGED <<panel, hooks>>
       \/ op[w].row # None /\ op[w].remna \notin Alive /\ Goto(w, "recreate")
          /\ UNCHANGED <<panel, hooks>>
       \/ op[w].row = None /\ Alive = {} /\ Finish(w) /\ UNCHANGED <<panel, hooks>>
       \/ op[w].row = None /\ Finish(w) /\ \E p \in Alive : First(p) /\ RemovePanelUser(p)
    /\ UNCHANGED <<store, handler, started, hand, mishaps, marks>>

LookPullAll(w) ==
    /\ During(w, "pullall", "look")
    /\ op' = [op EXCEPT ![w].pc = "sync", ![w].seen = {Hook("seen", p, panel[p]) : p \in Alive}]
    /\ UNCHANGED <<store, panel, hooks, handler, started, hand, mishaps, marks>>

\* Who recreates a user names its owner.
Named(w) == IF op[w].kind = "push" THEN op[w].of ELSE None

SyncOne(w) ==
    /\ During(w, "pull", "sync") \/ During(w, "push", "commit")
    /\ Sync(op[w].remna, op[w].sub, FALSE, Named(w))
    /\ IF op[w].kind = "push" THEN UNCHANGED marks ELSE Noted(FALSE)
    /\ Finish(w)
    /\ UNCHANGED <<panel, hooks, handler, started, hand, mishaps>>

SyncEach(w) ==
    /\ During(w, "pullall", "sync")
    /\ \/ \E h \in op[w].seen :
            /\ \A g \in op[w].seen : h.id <= g.id
            /\ Sync(h.id, h.sub, TRUE, None)
            /\ op' = [op EXCEPT ![w].seen = @ \ {h}]
       \/ op[w].seen = {} /\ Finish(w) /\ UNCHANGED store
    /\ Noted(FALSE)
    /\ UNCHANGED <<panel, hooks, handler, started, hand, mishaps>>

-----------------------------------------------------------------------------
(* The account                                                              *)

Register ==
    /\ account = None /\ "register" \in Kinds /\ started < MaxBegun /\ started' = started + 1
    /\ account' = accounts + 1 /\ accounts' = accounts + 1
    /\ UNCHANGED <<rows, current, panel, hooks, handler, op, hand, mishaps, marks>>

\* Mutation of PanelIds: only the current subscription's.
PanelIdsCurrent == IF current = None THEN {} ELSE {rows[current].remna}

\* get_all_by_user: every subscription the user ever had.
PanelIds == {rows[r].remna : r \in 1 .. Len(rows)} \ {None}

\* DeleteUser: the users of the panel go first.
Erase(w) == account # None /\ Begin(w, "erase", "ids", Free.sub)

CollectIds(w) ==
    /\ During(w, "erase", "ids")
    /\ op' = [op EXCEPT ![w].pc = "panel", ![w].ids = PanelIds]
    /\ UNCHANGED <<store, panel, hooks, handler, started, hand, mishaps, marks>>

CallErase(w) ==
    /\ During(w, "erase", "panel")
    /\ \E p \in op[w].ids :
         LET rest == [op EXCEPT ![w].ids = @ \ {p}]
         IN \/ RemovePanelUser(p) /\ Applied(w, op' = rest)
            \/ p \notin Alive /\ op' = rest /\ UNCHANGED <<panel, hooks, mishaps>>
            \/ Refused(w)
    /\ Call(w)

\* The rows go with the account.
CommitErase(w) ==
    /\ During(w, "erase", "panel") /\ op[w].ids = {} /\ ~Held
    /\ IF Kept(w)
       THEN /\ account' = None /\ current' = None
            /\ rows' = [r \in 1 .. Len(rows) |-> [rows[r] EXCEPT !.remna = None]]
       ELSE UNCHANGED <<account, rows, current>>
    /\ Finish(w)
    /\ UNCHANGED <<accounts, panel, hooks, handler, started, hand, mishaps, marks>>

-----------------------------------------------------------------------------

Killed(w) ==
    /\ Busy(w) /\ Mishap("crash") /\ Finish(w)
    /\ UNCHANGED <<store, panel, hooks, handler, started, hand, marks>>

SyncNext ==
    \/ \E w \in Workers :
         \/ Extend(w) \/ Change(w) \/ Toggle(w) \/ Delete(w) \/ Buy(w)
         \/ Lock(w) \/ CallUpdate(w) \/ CallDelete(w) \/ CallCreate(w) \/ NotCreated(w)
         \/ CommitUpdate(w) \/ CommitInsert(w) \/ CommitDelete(w)
         \/ Pull(w) \/ Push(w) \/ PullAll(w)
         \/ LookPull(w) \/ LookPush(w) \/ LookPullAll(w) \/ SyncOne(w) \/ SyncEach(w)
         \/ Erase(w) \/ CollectIds(w) \/ CallErase(w) \/ CommitErase(w)
         \/ Killed(w)
    \/ Register \/ ByHand \/ Deliver \/ Unlink \/ Lose

SyncSpec == SyncInit /\ [][SyncNext]_syncVars

-----------------------------------------------------------------------------

Subs == [term : 1 .. MaxTerm, status : {"ACTIVE", "DISABLED", "DELETED"}, tag : BOOLEAN]

\* Every variable has its type, and the current subscription is a row of the account.
SyncTypeOK ==
    /\ account \in 0 .. accounts
    /\ Len(rows) <= MaxRows /\ Len(panel) <= MaxPanel
    /\ \A r \in 1 .. Len(rows) : Data(rows[r]) \in Subs /\ rows[r].remna \in 0 .. Len(panel)
    /\ \A p \in 1 .. Len(panel) : Data(panel[p]) \in Subs
    /\ current \in 0 .. Len(rows)
    /\ current # None => account # None /\ rows[current].remna # None
    /\ handler \in 0 .. Len(panel)
    /\ \A w \in Workers : op[w].kind \in Kinds \cup {"none"} /\ op[w].sub \in Subs
    /\ started \in 0 .. MaxBegun /\ mishaps \subseteq Mishaps

AtRest == hooks = <<>> /\ handler = None /\ \A w \in Workers : ~Busy(w)

Astray == mishaps \cap {"lost", "late", "again"} # {}
Torn   == mishaps \cap {"unanswered", "crash"} # {}

Agrees ==
    current # None => LET row == rows[current] IN
        row.remna \in Alive /\ Data(row) = Data(panel[row.remna])

\* Once all is delivered the current subscription is one the panel has, with the same
\* terms and status: the panel's webhooks make up for an operation that was killed or
\* whose call was not answered, unless two operations overlapped, the panel was
\* changed by hand under one, another user of the panel was adopted, or a webhook
\* went astray (SyncRemnaUser, _process_sync, _process_status).
RowAgreesWhenQuiet == AtRest /\ marks = {} /\ ~Astray => Agrees

\* A user the shop made in the panel is not forgotten: once all is delivered, the
\* current subscription of the account is the one of that user.  The next purchase or
\* trial would be refused for the name (create_user).
LinkedWhenQuiet ==
    AtRest /\ marks = {} /\ ~Astray /\ ~Torn /\ account # None =>
        \A p \in Alive : panel[p].own => current # None /\ rows[current].remna = p

\* A subscription is taken from its user only once its user of the panel is gone,
\* whatever webhooks come late, twice or not at all: one about a deleted user does not
\* take the subscription that was made again since (_process_delete_subscription).
KeptWhileItLives ==
    current # None /\ current' = None /\ account' = account /\ marks = {}
      => rows[current].remna \notin Alive

\* A synchronisation from the panel leaves the subscription as the panel has it,
\* whatever went wrong before it: it is what an operator has to repair one.
PullSettles ==
    \A w \in Workers :
      During(w, "pull", "sync") /\ op'[w].kind = "none" /\ op[w].whole /\ mishaps' = mishaps
        => current' # None /\ Agrees'

\* An account is erased with every user of the panel that any of its subscriptions has,
\* the retired ones included, so that none is left behind nobody's; and with no other
\* user adopted before, the next registration finds the name free (DeleteUser).
ErasureFreesTheName ==
    [][account # None /\ account' = None /\ marks \subseteq {"adopted"} /\ ~Torn
       => /\ \A r \in 1 .. Len(rows) : rows[r].remna \notin Alive
          /\ marks = {} => ~NameHeld]_syncVars

\* Once all is delivered, database and panel are in step, whatever was done on either
\* side before.
InStepWhenQuiet == SyncTypeOK /\ RowAgreesWhenQuiet /\ LinkedWhenQuiet

\* A webhook takes nothing from its user that the panel still has, and a repair repairs.
SyncKeeps == [][KeptWhileItLives /\ PullSettles]_syncVars

=============================================================================
