------------------------------- MODULE Trials -------------------------------
(***************************************************************************)
(* The trial of one user: activation, the clock that restarts at the first *)
(* connection, the bonus day a broadcast carries, the conversion to a paid *)
(* subscription, and the panel's webhooks that write its state back.       *)
(*                                                                         *)
(* Every operation reads the subscription, calls the panel with an expiry  *)
(* computed from what it read, and then commits; the reads, the call and   *)
(* the commit are actions of their own.  Days are counted from the start.  *)
(***************************************************************************)
EXTENDS Integers, FiniteSets, SequencesExt

CONSTANTS
    Requests,       \* operations in flight at once
    Broadcasts,     \* broadcasts that carry a bonus
    Granted,        \* days of the trial
    Bonus,          \* TRIAL_BONUS_DAYS
    Term,           \* days of the paid plan
    MaxTime,        \* last day
    MaxBegun,       \* bound on operations begun
    Faults,         \* faults that may occur
    MaxFaults,      \* bound on how many
    None            \* no row, no user of the panel

ASSUME TrialsAssumption ==
    /\ {Granted, Bonus, Term} \subseteq Nat \ {0}
    /\ {MaxTime, MaxBegun, MaxFaults} \subseteq Nat
    /\ Faults \subseteq {"refused", "unanswered", "crash", "lost", "late", "again"}
    /\ None \notin Nat \cup {"trial", "paid"} \cup [exp : Nat, created : Nat]
    /\ IsFiniteSet(Requests) /\ IsFiniteSet(Broadcasts)

VARIABLES
    now,        \* the day
    available,  \* users.is_trial_available
    rows,       \* the trial and the paid row of subscriptions: expire_at, created_at
    current,    \* users.current_subscription_id: "trial", "paid" or None
    panel,      \* expiry of the panel's user
    connected,  \* the panel saw a first connection
    restarted,  \* trial_restarted_at is set
    claimed,    \* broadcasts whose bonus_claimed_at is set
    hooks,      \* webhooks on their way, in the order the panel sent them
    req,        \* program counter and locals of each operation
    trials,     \* history: trials recorded
    bonuses,    \* history: bonuses granted to the user
    restart,    \* history: day of the last restart, None before
    bought,     \* history: day of the purchase, None before
    excused,    \* history: operations that compute from one subscription overlapped
                \* ("clash"), a bonus revived a trial that had run out ("revived"),
                \* a purchase was begun ("buying")
    begun,      \* operations begun
    faults      \* history: faults that occurred

store   == <<available, rows, current, restarted, claimed>>
history == <<trials, bonuses, restart, bought>>
vars    == <<now, available, rows, current, panel, connected, restarted, claimed, hooks,
             req, trials, bonuses, restart, bought, excused, begun, faults>>

-----------------------------------------------------------------------------

Idle == [pc |-> "idle", kind |-> "none", of |-> None, seen |-> None, to |-> None]

Init ==
    /\ now = 0 /\ available = TRUE
    /\ rows = [trial |-> None, paid |-> None] /\ current = None
    /\ panel = None /\ connected = FALSE /\ restarted = FALSE /\ claimed = {}
    /\ hooks = <<>>
    /\ req = [r \in Requests |-> Idle]
    /\ trials = 0 /\ bonuses = 0 /\ restart = None /\ bought = None
    /\ excused = {}
    /\ begun = 0 /\ faults = {}

Fault(kind) ==
    /\ kind \in Faults \ faults /\ Cardinality(faults) < MaxFaults
    /\ faults' = faults \cup {kind}

Latest(a, b) == IF a > b THEN a ELSE b

\* Operations of two kinds, or the bonuses of two broadcasts: each sets an expiry it
\* computes from what it read.
Clash(p, q) == p.kind # "none" /\ (p.kind # q.kind \/ (p.kind = "bonus" /\ p.of # q.of))

Begin(r, q) ==
    /\ req[r].pc = "idle" /\ begun < MaxBegun /\ begun' = begun + 1
    /\ req' = [req EXCEPT ![r] = q]
    /\ excused' = excused \cup (IF q.kind = "buy" THEN {"buying"} ELSE {})
          \cup (IF \E o \in Requests : Clash(req[o], q) THEN {"clash"} ELSE {})

Drop(r) == req' = [req EXCEPT ![r] = Idle]

At(r, kind, pc) == req[r].kind = kind /\ req[r].pc = pc

\* Requests whose transaction is open past its first write.
Holding(kind) == {r \in Requests : req[r].kind = kind /\ req[r].pc \in {"panel", "commit"}}

\* The panel sets the expiry and tells about it.
Push(exp) ==
    /\ panel' = exp
    /\ hooks' = Append(hooks, [kind |-> "modified", exp |-> exp])

\* update_user, set_user_expire: applied and answered, applied and not answered in
\* time, or refused.  A failure rolls the transaction back.
CallPanel(r, kind) ==
    /\ At(r, kind, "panel")
    /\ \/ /\ Push(req[r].to)
          /\ \/ req' = [req EXCEPT ![r].pc = "commit"] /\ UNCHANGED faults
             \/ Fault("unanswered") /\ Drop(r)
       \/ Fault("refused") /\ Drop(r) /\ UNCHANGED <<panel, hooks>>
    /\ UNCHANGED <<now, store, connected, history, excused, begun>>

-----------------------------------------------------------------------------
(* ActivateTrialSubscription                                                *)

\* is_trial_available is asked of the user loaded with the request.
AskTrial(r) ==
    /\ available
    /\ Begin(r, [Idle EXCEPT !.kind = "start", !.pc = "panel"])
    /\ UNCHANGED <<now, store, panel, connected, hooks, history, faults>>

\* Mutation of NameTaken: the panel makes another user.
NameTakenNever == FALSE

\* The panel refuses a second user of the same name.
NameTaken == panel # None

CreateUser(r) ==
    /\ At(r, "start", "panel")
    /\ \/ /\ ~NameTaken
          /\ panel' = now + Granted
          /\ \/ req' = [req EXCEPT ![r].pc = "commit", ![r].to = now + Granted]
                /\ UNCHANGED faults
             \/ Fault("unanswered") /\ Drop(r)
       \/ NameTaken /\ Drop(r) /\ UNCHANGED <<panel, faults>>
       \/ Fault("refused") /\ Drop(r) /\ UNCHANGED panel
    /\ UNCHANGED <<now, store, connected, hooks, history, excused, begun>>

\* Mutation of RecordTrial: the user is not pointed at the new row.
RecordTrialAside(r) ==
    /\ At(r, "start", "commit")
    /\ rows' = [rows EXCEPT !.trial = [exp |-> req[r].to, created |-> now]]
    /\ current' = "paid" /\ available' = FALSE
    /\ trials' = trials + 1
    /\ Drop(r)
    /\ UNCHANGED <<now, panel, connected, restarted, claimed, hooks, bonuses, restart,
                   bought, excused, begun, faults>>

RecordTrial(r) ==
    /\ At(r, "start", "commit")
    /\ rows' = [rows EXCEPT !.trial = [exp |-> req[r].to, created |-> now]]
    /\ current' = "trial" /\ available' = FALSE
    /\ trials' = trials + 1
    /\ Drop(r)
    /\ UNCHANGED <<now, panel, connected, restarted, claimed, hooks, bonuses, restart,
                   bought, excused, begun, faults>>

-----------------------------------------------------------------------------
(* ClaimTrialBonus                                                          *)

PressBonus(r, b) ==
    /\ b \notin claimed /\ current = "trial"
    /\ Begin(r, [Idle EXCEPT !.kind = "bonus", !.pc = "claim", !.of = b,
                             !.seen = rows.trial.exp])
    /\ UNCHANGED <<now, store, panel, connected, hooks, history, faults>>

\* Mutation of Unclaimed: the claim has no condition.
UnclaimedAlways(b) == TRUE

Unclaimed(b) == b \notin claimed

\* claim_message_bonus locks the row of the message; a rival waits for the lock or
\* gives up.  The new expiry comes from the subscription read before.
Claim(r) ==
    /\ At(r, "bonus", "claim")
    /\ LET rival == \E o \in Holding("bonus") : req[o].of = req[r].of
       IN \/ /\ ~rival /\ Unclaimed(req[r].of)
             /\ req' = [req EXCEPT ![r].pc = "panel",
                                   ![r].to = Latest(req[r].seen, now) + Bonus]
             /\ excused' = excused \cup (IF req[r].seen < now THEN {"revived"} ELSE {})
          \/ (rival \/ ~Unclaimed(req[r].of)) /\ Drop(r) /\ UNCHANGED excused
    /\ UNCHANGED <<now, store, panel, connected, hooks, history, begun, faults>>

\* The write of the row waits for a conversion that has the row locked.
GrantBonus(r) ==
    /\ At(r, "bonus", "commit") /\ Holding("buy") = {}
    /\ claimed' = claimed \cup {req[r].of}
    /\ rows' = [rows EXCEPT !.trial.exp = req[r].to]
    /\ bonuses' = bonuses + 1
    /\ Drop(r)
    /\ UNCHANGED <<now, available, current, panel, connected, restarted, hooks, trials,
                   restart, bought, excused, begun, faults>>

-----------------------------------------------------------------------------
(* The first connection: TrialConnectionHandler                             *)

Connects ==
    /\ panel # None /\ ~connected /\ connected' = TRUE
    /\ hooks' = Append(hooks, [kind |-> "first", exp |-> None])
    /\ UNCHANGED <<now, store, panel, req, history, excused, begun, faults>>

\* Mutation of Window: the restart grants the window once more.
WindowTwice(row) == 2 * (row.exp - row.created)

Window(row) == row.exp - row.created

\* Mutation of MayRestart: every first connection restarts the clock.
MayRestartAgain == TRUE

\* try_mark_trial_restarted
MayRestart == ~restarted

\* mark_connected locks the state of the user until the commit.  get_by_remna_id takes
\* any row of the panel's user, a retired one too.
ReadClock(r) ==
    /\ At(r, "first", "read") /\ Holding("first") = {}
    /\ \E k \in {"trial", "paid"} :
         /\ rows[k] # None
         /\ IF Window(rows[k]) > 0 /\ MayRestart
            THEN req' = [req EXCEPT ![r].pc = "panel", ![r].of = k,
                                    ![r].to = now + Window(rows[k])]
            ELSE Drop(r)
    /\ UNCHANGED <<now, store, panel, connected, hooks, history, excused, begun, faults>>

SaveClock(r) ==
    /\ At(r, "first", "commit")
    /\ req[r].of = "trial" => Holding("buy") = {}
    /\ restarted' = TRUE
    /\ rows' = [rows EXCEPT ![req[r].of].exp = req[r].to]
    /\ restart' = now
    /\ Drop(r)
    /\ UNCHANGED <<now, available, current, panel, connected, claimed, hooks, trials,
                   bonuses, bought, excused, begun, faults>>

-----------------------------------------------------------------------------
(* PurchaseSubscription, converting the trial                               *)

\* Proration carries nothing over from a trial.
Buy(r) ==
    /\ current = "trial" /\ bought = None
    /\ \A o \in Requests : req[o].kind # "buy"
    /\ Begin(r, [Idle EXCEPT !.kind = "buy", !.pc = "panel", !.to = now + Term])
    /\ UNCHANGED <<now, store, panel, connected, hooks, history, faults>>

Convert(r) ==
    /\ At(r, "buy", "commit")
    /\ rows' = [rows EXCEPT !.paid = [exp |-> req[r].to, created |-> now]]
    /\ current' = "paid" /\ bought' = req[r].to - Term
    /\ Drop(r)
    /\ UNCHANGED <<now, available, panel, connected, restarted, claimed, hooks, trials,
                   bonuses, restart, excused, begun, faults>>

-----------------------------------------------------------------------------
(* Webhooks                                                                 *)

\* Mutation of Synced: the state is not taken over.
SyncedNot(exp) == rows

\* SyncRemnaUser: the current row takes what the panel had when it sent the event.
Synced(exp) == [rows EXCEPT ![current].exp = exp]

Modified(h) ==
    /\ h.kind = "modified"
    /\ rows' = Synced(h.exp)
    /\ UNCHANGED <<available, current, restarted, claimed, req, excused, begun>>

\* Mutation of OnTrial: the restart is not for trials only.
OnTrialOrNot == current # None

\* The event carries whether the current subscription is a trial.
OnTrial == current = "trial"

\* FIRST_CONNECTED; for a paid subscription its handler only records the connection.
FirstConnected(h) ==
    /\ h.kind = "first"
    /\ \/ /\ OnTrial
          /\ \E r \in Requests : Begin(r, [Idle EXCEPT !.kind = "first", !.pc = "read"])
       \/ ~OnTrial /\ UNCHANGED <<req, excused, begun>>
    /\ UNCHANGED store

Handle(k) ==
    /\ Modified(hooks[k]) \/ FirstConnected(hooks[k])
    /\ UNCHANGED <<now, panel, connected, history>>

\* In order; or overtaken, repeated or lost.
Deliver ==
    /\ hooks # <<>>
    /\ \/ Handle(1) /\ hooks' = Tail(hooks) /\ UNCHANGED faults
       \/ Handle(1) /\ Fault("again") /\ UNCHANGED hooks
       \/ \E k \in 2..Len(hooks) : Handle(k) /\ Fault("late") /\ hooks' = RemoveAt(hooks, k)

Lose ==
    /\ hooks # <<>> /\ Fault("lost") /\ hooks' = Tail(hooks)
    /\ UNCHANGED <<now, store, panel, connected, req, history, excused, begun>>

-----------------------------------------------------------------------------

Crash(r) ==
    /\ req[r].pc # "idle" /\ Fault("crash") /\ Drop(r)
    /\ UNCHANGED <<now, store, panel, connected, hooks, history, excused, begun>>

\* An operation ends on the day it began.
Day ==
    /\ \A r \in Requests : req[r].pc = "idle"
    /\ now < MaxTime /\ now' = now + 1
    /\ UNCHANGED <<store, panel, connected, hooks, req, history, excused, begun, faults>>

Next ==
    \/ \E r \in Requests :
         \/ AskTrial(r) \/ CreateUser(r) \/ RecordTrial(r)
         \/ \E b \in Broadcasts : PressBonus(r, b)
         \/ Claim(r) \/ CallPanel(r, "bonus") \/ GrantBonus(r)
         \/ ReadClock(r) \/ CallPanel(r, "first") \/ SaveClock(r)
         \/ Buy(r) \/ CallPanel(r, "buy") \/ Convert(r)
         \/ Crash(r)
    \/ Connects \/ Deliver \/ Lose \/ Day

Spec == Init /\ [][Next]_vars

-----------------------------------------------------------------------------

Row == [exp : Nat, created : Nat]

Astray == faults \cap {"lost", "late", "again"} # {}

Quiet == hooks = <<>> /\ \A r \in Requests : req[r].pc = "idle"

\* Every variable has its type, and the current subscription is a row that exists.
TypeOK ==
    /\ now \in 0..MaxTime
    /\ available \in BOOLEAN /\ connected \in BOOLEAN /\ restarted \in BOOLEAN
    /\ rows \in [{"trial", "paid"} -> {None} \cup Row]
    /\ current \in {None, "trial", "paid"} /\ (current # None => rows[current] # None)
    /\ panel \in Nat \cup {None}
    /\ claimed \subseteq Broadcasts
    /\ ToSet(hooks) \subseteq [kind : {"modified", "first"}, exp : Nat \cup {None}]
    /\ \A r \in Requests : req[r].kind \in {"none", "start", "bonus", "first", "buy"}
    /\ begun \in 0..MaxBegun /\ faults \subseteq Faults

\* However many activations run at once on a user loaded before, one trial is recorded.
OneTrial == trials <= 1

\* The panel repeats the first connection after a restart whose answer was lost, or whose
\* process died: the webhook of that restart has moved the expiry its window is read from.
RestartRepeated == "again" \in faults /\ faults \cap {"unanswered", "crash"} # {}

\* A broadcast is worth one bonus, and its panel call that times out another at most:
\* what the user has left is never more than the trial and the bonuses granted, a bonus
\* that revived a trial before its clock restarted and a repeated restart left out.
NoMoreThanGranted ==
    Quiet /\ current = "trial" /\ ~RestartRepeated /\ excused \cap {"revived", "buying"} = {} =>
        /\ bonuses <= Cardinality(Broadcasts)
        /\ rows.trial.exp - now <= Granted + Bonus * (bonuses + Cardinality(faults))

\* The clock of a trial restarts once, whatever the panel repeats.
RestartsOnce == [][restart' # restart => restart = None]_vars

\* Once all is answered and delivered, who paid has the paid term, in the database and
\* on the panel, unless an operation that had read the trial overlapped the purchase or
\* the panel's webhooks went astray.
PaidIsKept ==
    Quiet /\ bought # None /\ "clash" \notin excused /\ ~Astray =>
        panel >= bought + Term /\ rows.paid.exp >= bought + Term

\* Once all is answered and delivered, the database has what the panel has, also
\* after an answer of the panel got lost, since the webhook of the change brings it.
RowFollowsPanel ==
    Quiet /\ current # None /\ "clash" \notin excused /\ ~Astray =>
        rows[current].exp = panel

\* A user gets one trial, and no more days of it than were granted.
GrantedOnce == TypeOK /\ OneTrial /\ NoMoreThanGranted

\* Once all is answered and delivered, database and panel have the same expiry, and it
\* is at least what was paid for.
SettledWhenQuiet == PaidIsKept /\ RowFollowsPanel

=============================================================================
