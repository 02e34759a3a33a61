------------------------------- MODULE Nudges -------------------------------
(***************************************************************************)
(* The reminders: the pre-connect chain A (table onboarding_nudges) and    *)
(* the follow-ups C, before a trial ends, and E, after access is lost      *)
(* (table lifecycle_followups).  A reminder is a row armed by one event,   *)
(* delivered or cancelled by a sweep of its table.  A sweep is one         *)
(* transaction around many Telegram calls: what it wrote is visible to     *)
(* itself only, and locked, until it ends.                                 *)
(*                                                                         *)
(* Time is relative: ticks until a row is due, ticks since it was sent.    *)
(***************************************************************************)
EXTENDS Integers, FiniteSets, SequencesExt, Functions

CONSTANTS
    Audience,       \* users
    Veterans,       \* users connected before, who never opened the funnel
    Unreachable,    \* users a message to whom raises every time
    Sweeps,         \* runs of the two sweep tasks in flight
    Steps,          \* steps of all chains
    Chain,          \* the chain of each step: "A", "C" or "E"
    Delay,          \* ticks from the event that arms a step to its fire_at
    Gap,            \* minimum gap between messages of a table, in ticks
    Day,            \* 24 hours, in ticks
    DailyCap,       \* messages of each table a user may get in 24 hours
    Limit,          \* rows one sweep takes
    MaxSweepTicks,  \* ticks one sweep may take
    MaxEvents,      \* bound on what users and the administrator do
    Faults,         \* faults that may occur
    MaxFaults       \* bound on how many

Chains == {"A", "C", "E"}
Tables == {"nudges", "followups"}

ASSUME NudgesAssumption ==
    /\ IsFiniteSet(Audience) /\ IsFiniteSet(Steps) /\ IsFiniteSet(Sweeps)
    /\ Veterans \subseteq Audience /\ Unreachable \subseteq Audience
    /\ Chain \in [Steps -> Chains]
    /\ Delay \in [Steps -> Nat \ {0}]
    /\ DailyCap \in [Tables -> Nat \ {0}]
    /\ {Gap, Day, MaxSweepTicks, MaxEvents, MaxFaults} \subseteq Nat /\ Gap <= Day
    /\ Limit \in Nat \ {0}
    /\ Faults \subseteq {"crash", "overlap", "race", "error", "unanswered"}

VARIABLES
    users,      \* registered users
    sub,        \* "trial", "paid" or "none": the access each user has
    connected,  \* users with connected_once
    blocked,    \* users who blocked the bot
    held,       \* onboarding_enabled is off
    off,        \* chains switched off in the notification settings
    row,        \* both tables: id -> status and times
    order,      \* pending ids, by fire_at
    arming,     \* transactions that arm a chain, between check and insert
    sweep,      \* locals of each sweep
    received,   \* history: messages of each step each user got
    rearmed,    \* history: users whose chain A was armed after they connected
    lapsed,     \* history: user and step of rows whose reason lapsed while pending
    events, faults

world == <<users, sub, connected, blocked, held, off>>
table == <<row, order>>
nudgesVars == <<users, sub, connected, blocked, held, off, row, order, arming, sweep,
                received, rearmed, lapsed, events, faults>>

-----------------------------------------------------------------------------

TableOf(c) == IF c = "A" THEN "nudges" ELSE "followups"

\* Nothing makes (telegram_id, step) unique, so there may be a second copy.
Ids     == Audience \X Steps \X {1, 2}
User(i) == i[1]
Step(i) == i[2]

MaxAge == Day + MaxSweepTicks + 1
Absent == [status |-> "absent", wait |-> 0, age |-> 0]
Idle   == [table |-> "none", list |-> <<>>, since |-> 0, wrote |-> <<>>,
           sending |-> FALSE, connected |-> {}, off |-> {}]

NudgesInit ==
    /\ users = Audience /\ sub = [u \in Audience |-> "trial"]
    /\ connected = Veterans /\ blocked = {} /\ held = FALSE /\ off = {}
    /\ row = [i \in Ids |-> Absent] /\ order = <<>>
    /\ arming = {}
    /\ sweep = [s \in Sweeps |-> Idle]
    /\ received = [u \in Audience |-> [t \in Steps |-> 0]]
    /\ rearmed = {} /\ lapsed = {}
    /\ events = 0 /\ faults = 0

Fault(kind) ==
    /\ kind \in Faults /\ faults < MaxFaults
    /\ faults' = faults + 1

\* _should_send; the chain A is not looked at again.
ShouldSend(c, u) ==
    CASE c = "A" -> TRUE
      [] c = "C" -> sub[u] = "trial"
      [] c = "E" -> sub[u] = "none"

\* The reason to send a step to a user is gone, or its switch is off.
Moot(u, t) ==
    \/ u \notin users \/ u \in blocked
    \/ Chain[t] = "A" /\ (u \in connected \/ held)
    \/ Chain[t] \in off
    \/ ~ShouldSend(Chain[t], u)

IsPending(u, t) == \E n \in {1, 2} : row[<<u, t, n>>].status = "pending"

\* Taken by every step that changes the world or inserts rows.
Lapse == lapsed' = lapsed \cup {p \in Audience \X Steps :
            (IsPending(p[1], p[2]) \/ IsPending(p[1], p[2])') /\ Moot(p[1], p[2])'}

Event == events < MaxEvents /\ events' = events + 1

\* Rows whose write by a sweep is not committed: other writers wait.
Locked(s)  == {i \in DOMAIN sweep[s].wrote : row[i].status # "absent"}
LockedBy(S) == UNION {Locked(s) : s \in S}

Pending(u, t) ==
    {i \in Ids : User(i) = u /\ TableOf(Chain[Step(i)]) = t /\ row[i].status = "pending"}

\* The members of S, by their keys, which differ.
InOrder(S, key) ==
    [n \in 1..Cardinality(S) |->
        CHOOSE i \in S : Cardinality({j \in S : key[j] < key[i]}) = n - 1]

Place(q) == [i \in ToSet(q) |-> CHOOSE n \in DOMAIN q : q[n] = i]

Without(q, ids) == InOrder(ToSet(q) \ ids, Place(q))

Cancelled(ids) ==
    /\ row' = [i \in Ids |-> IF i \in ids THEN [row[i] EXCEPT !.status = "cancelled"] ELSE row[i]]
    /\ order' = Without(order, ids)

-----------------------------------------------------------------------------
(* Arming a chain: for each step, check that no row exists, then insert.    *)

Exists(u, t) == \E n \in {1, 2} : row[<<u, t, n>>].status # "absent"

\* Mutation of Missing: steps already sent or cancelled are armed again.
MissingPending(u, c) ==
    {t \in Steps : Chain[t] = c /\ \A n \in {1, 2} : row[<<u, t, n>>].status # "pending"}

Missing(u, c) == {t \in Steps : Chain[t] = c /\ ~Exists(u, t)}

FreeId(u, t) == <<u, t, IF row[<<u, t, 1>>].status = "absent" THEN 1 ELSE 2>>

\* The queue with the rows of `new` in it, each after those due no later.
Enqueue(q, r, new) ==
    LET nth  == CHOOSE f \in [new -> 1..Cardinality(new)] : IsInjective(f)
        base == Len(q) + Cardinality(new) + 1
    IN InOrder(ToSet(q) \cup new,
               [i \in ToSet(q) \cup new |->
                   r[i].wait * base + IF i \in new THEN Len(q) + nth[i] ELSE Place(q)[i]])

Insert(u, steps) ==
    LET new == {FreeId(u, t) : t \in steps}
        r   == [i \in Ids |-> IF i \in new
                 THEN [status |-> "pending", wait |-> Delay[Step(i)], age |-> 0] ELSE row[i]]
    IN row' = r /\ order' = Enqueue(order, r, new)

\* on_dialog_start, on_subscription_expired: the check.  A second transaction of the
\* same user and chain in flight is the race two devices or two webhooks make.
BeginArm(u, c) ==
    /\ Cardinality({a \in arming : a.user = u}) < 2
    /\ arming' = arming \cup {[user |-> u, chain |-> c, steps |-> Missing(u, c),
                               nth |-> Cardinality({a \in arming : a.user = u})]}
    /\ IF \E a \in arming : a.user = u THEN Fault("race") ELSE UNCHANGED faults

Arm(a) ==
    /\ arming' = arming \ {a}
    /\ Insert(a.user, a.steps)
    /\ rearmed' = IF a.chain = "A" /\ a.user \in connected /\ a.steps # {}
                  THEN rearmed \cup {a.user} ELSE rearmed
    /\ UNCHANGED <<world, sweep, received, events, faults>>

\* on_dialog_start: the user opens the funnel.
OpenFunnel(u) ==
    /\ u \in users /\ Event
    /\ BeginArm(u, "A")
    /\ UNCHANGED <<world, table, sweep, received, rearmed>>

\* SubscriptionExpiredEvent
Expire(u) ==
    /\ u \in users /\ sub[u] # "none" /\ Event
    /\ sub' = [sub EXCEPT ![u] = "none"]
    /\ BeginArm(u, "E")
    /\ UNCHANGED <<users, connected, blocked, held, off, table, sweep, received, rearmed>>

\* The panel sends the expiry webhook again.
ExpireAgain(u) ==
    /\ u \in users /\ sub[u] = "none" /\ \E a \in arming : a.user = u /\ a.chain = "E"
    /\ BeginArm(u, "E")
    /\ UNCHANGED <<world, table, sweep, received, rearmed, events>>

-----------------------------------------------------------------------------
(* What users and the administrator do.                                     *)

\* Mutation of Silenced: the connection cancels nothing.
SilencedNone(u) == {}

\* cancel_pending
Silenced(u) == Pending(u, "nudges")

\* TrialConnectionHandler.on_first_connection: one transaction.
Connect(u) ==
    /\ u \in users /\ u \notin connected /\ sub[u] # "none" /\ Event
    /\ Silenced(u) \cap LockedBy(Sweeps) = {}
    /\ connected' = connected \cup {u}
    /\ LET ids == Silenced(u)
           new == IF sub[u] = "trial" THEN {FreeId(u, t) : t \in Missing(u, "C")} ELSE {}
           r   == [i \in Ids |->
                    IF i \in ids THEN [row[i] EXCEPT !.status = "cancelled"]
                    ELSE IF i \in new
                         THEN [status |-> "pending", wait |-> Delay[Step(i)], age |-> 0]
                         ELSE row[i]]
       IN /\ row' = r
          /\ order' = Enqueue(Without(order, ids), r, new)
    /\ UNCHANGED <<users, sub, blocked, held, off, arming, sweep, received, rearmed, faults>>

\* on_tips_ok, which only a connected user reaches.
FinishFunnel(u) ==
    /\ u \in users \cap connected /\ Silenced(u) # {} /\ Event
    /\ Silenced(u) \cap LockedBy(Sweeps) = {}
    /\ Cancelled(Silenced(u))
    /\ UNCHANGED <<world, arming, sweep, received, rearmed, faults>>

Buy(u) ==
    /\ u \in users /\ sub[u] # "paid" /\ Event
    /\ sub' = [sub EXCEPT ![u] = "paid"]
    /\ UNCHANGED <<users, connected, blocked, held, off, table, arming, sweep, received,
                   rearmed, faults>>

Block(u) ==
    /\ u \in users \ blocked /\ Event
    /\ blocked' = blocked \cup {u}
    /\ UNCHANGED <<users, sub, connected, held, off, table, arming, sweep, received,
                   rearmed, faults>>

\* DeleteUser: the rows go with the user.
Delete(u) ==
    /\ u \in users /\ Event
    /\ \A i \in LockedBy(Sweeps) : User(i) # u
    /\ users' = users \ {u}
    /\ row' = [i \in Ids |-> IF User(i) = u THEN Absent ELSE row[i]]
    /\ order' = Without(order, {i \in Ids : User(i) = u})
    /\ UNCHANGED <<sub, connected, blocked, held, off, arming, sweep, received, rearmed,
                   faults>>

\* The administrator's switches; what a switch turned off may be turned on again.
Switch ==
    /\ Event
    /\ \/ held' = ~held /\ UNCHANGED off
       \/ /\ \E c \in {"C", "E"} : off' = off \cup {c}
          /\ UNCHANGED held
    /\ UNCHANGED <<users, sub, connected, blocked, table, arming, sweep, received, rearmed,
                   faults>>

-----------------------------------------------------------------------------
(* The sweeps.                                                              *)

Due(t) == InOrder({i \in ToSet(order) : TableOf(Chain[Step(i)]) = t /\ row[i].wait = 0},
                  Place(order))

Active(s) == sweep[s] # Idle

\* get_due, before the transaction; the cron starts the task every ten minutes.
StartSweep(s, t) ==
    /\ ~Active(s) /\ Due(t) # <<>>
    /\ t = "nudges" => ~held
    /\ sweep' = [sweep EXCEPT ![s] =
         [Idle EXCEPT !.table = t, !.connected = connected, !.off = off,
                      !.list = SubSeq(Due(t), 1, IF Len(Due(t)) < Limit THEN Len(Due(t)) ELSE Limit)]]
    /\ IF \E o \in Sweeps \ {s} : sweep[o].table = t THEN Fault("overlap") ELSE UNCHANGED faults
    /\ UNCHANGED <<world, table, arming, received, rearmed, lapsed, events>>

\* Ticks between the sending of i and the start of sweep s, which marked it itself
\* or finds it in the table.
SentBefore(s, i) ==
    IF i \in DOMAIN sweep[s].wrote THEN 0 ELSE row[i].age - sweep[s].since

SentSeen(s, i) ==
    IF i \in DOMAIN sweep[s].wrote THEN sweep[s].wrote[i] = "sent" ELSE row[i].status = "sent"

\* sent_in_window
SentInWindow(s, u, window) ==
    Cardinality({i \in Ids : /\ User(i) = u /\ TableOf(Chain[Step(i)]) = sweep[s].table
                             /\ SentSeen(s, i) /\ SentBefore(s, i) <= window})

\* Mutation of RateLimited: only the gap is looked at.
RateLimitedGap(s, u) == SentInWindow(s, u, Gap) > 0

\* Mutation of RateLimited: a message counts for good.
RateLimitedForever(s, u) == SentInWindow(s, u, MaxAge) > 0

RateLimited(s, u) ==
    \/ SentInWindow(s, u, Gap) > 0
    \/ SentInWindow(s, u, Day) >= DailyCap[sweep[s].table]

Writes(s, ids, status) ==
    [i \in DOMAIN sweep[s].wrote \cup ids |-> IF i \in ids THEN status ELSE sweep[s].wrote[i]]

\* The row at the head is done with; ids get a status, once nobody else holds them.
Advance(s, ids, status) ==
    /\ ids \cap LockedBy(Sweeps \ {s}) = {}
    /\ sweep' = [sweep EXCEPT ![s].list = Tail(@), ![s].sending = FALSE,
                              ![s].wrote = Writes(s, ids, status)]

Reject(s, i) ==
    \/ User(i) \notin users
    \/ Chain[Step(i)] \in sweep[s].off
    \/ ~RateLimited(s, User(i)) /\ ~ShouldSend(Chain[Step(i)], User(i))

\* One row of _execute up to the message: cancelled, left for later or to be sent.
Check(s) ==
    /\ Active(s) /\ ~sweep[s].sending /\ sweep[s].list # <<>>
    /\ LET i == Head(sweep[s].list)
       IN \/ Reject(s, i) /\ Advance(s, {i}, "cancelled")
          \/ ~Reject(s, i) /\ RateLimited(s, User(i)) /\ Advance(s, {}, "pending")
          \/ /\ ~Reject(s, i) /\ ~RateLimited(s, User(i))
             /\ sweep' = [sweep EXCEPT ![s].sending = TRUE]
    /\ UNCHANGED <<world, table, arming, received, rearmed, lapsed, events, faults>>

\* cancel_pending sees what is pending for this transaction.
PendingSeen(s, u) == {i \in Pending(u, sweep[s].table) : i \notin DOMAIN sweep[s].wrote}

Got(i) == received' = [received EXCEPT ![User(i)][Step(i)] = @ + 1]

\* Mutation of Mark: nothing is marked.
MarkNothing(s, i) == Advance(s, {}, "sent")

\* mark_sent, whatever the row says by now.
Mark(s, i) == Advance(s, {i}, "sent")

\* A user who can be sent to.
Reachable(u) == u \notin blocked \cup Unreachable

\* notify_user and the answer to it; a row whose message raised stays pending.
Deliver(s) ==
    /\ Active(s) /\ sweep[s].sending
    /\ LET i == Head(sweep[s].list)
       IN \/ Reachable(User(i)) /\ Got(i) /\ Mark(s, i) /\ UNCHANGED faults
          \/ /\ User(i) \in blocked
             /\ Advance(s, PendingSeen(s, User(i)), "cancelled")
             /\ UNCHANGED <<received, faults>>
          \/ /\ User(i) \in Unreachable \ blocked
             /\ Advance(s, {}, "pending") /\ UNCHANGED <<received, faults>>
          \/ Fault("error") /\ Advance(s, {}, "pending") /\ UNCHANGED received
          \/ /\ Fault("unanswered") /\ Reachable(User(i))
             /\ Got(i) /\ Advance(s, {}, "pending")
    /\ UNCHANGED <<world, table, arming, rearmed, lapsed, events>>

\* Mutation of Commit: what is done stays in the queue.
CommitUnqueued(s) ==
    /\ row' = [i \in Ids |->
                 IF i \notin Locked(s) THEN row[i]
                 ELSE [row[i] EXCEPT !.status = sweep[s].wrote[i]]]
    /\ UNCHANGED order

Commit(s) ==
    /\ row' = [i \in Ids |->
                 IF i \notin Locked(s) THEN row[i]
                 ELSE [row[i] EXCEPT !.status = sweep[s].wrote[i],
                        !.age = IF sweep[s].wrote[i] = "sent" THEN sweep[s].since ELSE @]]
    /\ order' = Without(order, Locked(s))

FinishSweep(s) ==
    /\ Active(s) /\ sweep[s].list = <<>>
    /\ Commit(s)
    /\ sweep' = [sweep EXCEPT ![s] = Idle]
    /\ UNCHANGED <<world, arming, received, rearmed, lapsed, events, faults>>

\* The process stops or the commit fails: nothing is written.
Crash(s) ==
    /\ Active(s) /\ Fault("crash")
    /\ sweep' = [sweep EXCEPT ![s] = Idle]
    /\ UNCHANGED <<world, table, arming, received, rearmed, lapsed, events>>

Tick ==
    /\ \A s \in Sweeps : Active(s) => sweep[s].since < MaxSweepTicks
    /\ row' = [i \in Ids |->
         [row[i] EXCEPT !.wait = IF @ > 0 THEN @ - 1 ELSE 0,
                        !.age = IF row[i].status = "sent" /\ @ < MaxAge THEN @ + 1 ELSE @]]
    /\ sweep' = [s \in Sweeps |-> IF Active(s) THEN [sweep[s] EXCEPT !.since = @ + 1]
                                              ELSE sweep[s]]
    /\ UNCHANGED <<world, order, arming, received, rearmed, lapsed, events, faults>>

-----------------------------------------------------------------------------

Work(s) == Check(s) \/ Deliver(s) \/ FinishSweep(s)

Events ==
    /\ \/ \E u \in Audience :
            \/ OpenFunnel(u) \/ Expire(u) \/ ExpireAgain(u) \/ Connect(u) \/ FinishFunnel(u)
            \/ Buy(u) \/ Block(u) \/ Delete(u)
       \/ Switch
    /\ Lapse

Arms == (\E a \in arming : Arm(a)) /\ Lapse

NudgesNext ==
    \/ Events \/ Arms \/ Tick
    \/ \E s \in Sweeps : Work(s) \/ Crash(s) \/ \E t \in Tables : StartSweep(s, t)

NudgesSpec == NudgesInit /\ [][NudgesNext]_nudgesVars

\* Cron, workers and time go on; a committing transaction commits.
FairSpec ==
    /\ NudgesSpec
    /\ WF_nudgesVars(Tick) /\ WF_nudgesVars(Arms)
    /\ \A s \in Sweeps : WF_nudgesVars(Work(s))
    /\ \A t \in Tables : WF_nudgesVars(/\ \A s \in Sweeps : sweep[s].table # t
                                       /\ \E s \in Sweeps : StartSweep(s, t))

-----------------------------------------------------------------------------

\* Every variable has its type; pending rows, and only they, are in the queue.
NudgesTypeOK ==
    /\ users \subseteq Audience /\ connected \subseteq Audience /\ blocked \subseteq Audience
    /\ sub \in [Audience -> {"trial", "paid", "none"}]
    /\ held \in BOOLEAN /\ off \subseteq {"C", "E"}
    /\ row \in [Ids -> [status : {"absent", "pending", "sent", "cancelled"},
                        wait : Nat, age : 0..MaxAge]]
    /\ order \in Seq(Ids)
    /\ ToSet(order) = {i \in Ids : row[i].status = "pending"} /\ IsInjective(order)
    /\ \A j, k \in DOMAIN order : j < k => row[order[j]].wait <= row[order[k]].wait
    /\ DOMAIN sweep = Sweeps
    /\ \A s \in Sweeps : /\ sweep[s].table \in Tables \cup {"none"}
                         /\ sweep[s].list \in Seq(Ids)
                         /\ sweep[s].since \in 0..MaxSweepTicks
                         /\ DOMAIN sweep[s].wrote \subseteq Ids
                         /\ Range(sweep[s].wrote) \subseteq {"sent", "cancelled"}
                         /\ sweep[s].sending \in BOOLEAN
                         /\ sweep[s].connected \subseteq Audience
                         /\ sweep[s].off \subseteq {"C", "E"}
    /\ arming \in SUBSET [user : Audience, chain : {"A", "E"}, steps : SUBSET Steps,
                          nth : {0, 1}]
    /\ received \in [Audience -> [Steps -> Nat]]
    /\ rearmed \subseteq Audience /\ lapsed \subseteq Audience \X Steps
    /\ events \in 0..MaxEvents /\ faults \in 0..MaxFaults

\* A reminder reaches a user once.  A sweep that dies before its commit, a sweep that
\* overlaps another, an answer that got lost and a chain armed twice at once each
\* cost at most one more message.
OncePerStep ==
    \A u \in Audience, t \in Steps : received[u][t] <= 1 + faults

\* Among the rows of a table sent to one user no two are closer than the gap, and no
\* day holds more than the cap, unless two sweeps overlapped or a chain was armed
\* twice.
Paced ==
    faults = 0 =>
      \A u \in Audience, t \in Tables :
        LET sent == {i \in Ids : /\ User(i) = u /\ TableOf(Chain[Step(i)]) = t
                                 /\ row[i].status = "sent" /\ row[i].age < MaxAge}
        IN \A i \in sent :
             /\ \A j \in sent \ {i} : \/ row[i].age - row[j].age > Gap
                                      \/ row[j].age - row[i].age > Gap
             /\ Cardinality({j \in sent : row[j].age - row[i].age \in 0..Day}) <= DailyCap[t]

\* Once a connection is recorded, no sweep that starts later nudges the user to
\* connect, unless the user opened the funnel after it.
SilentAfterConnect ==
    [][\A s \in Sweeps, i \in Ids :
         (/\ sweep[s].sending /\ i = Head(sweep[s].list)
          /\ Chain[Step(i)] = "A" /\ User(i) \in sweep[s].connected
          /\ received'[User(i)][Step(i)] > received[User(i)][Step(i)])
         => User(i) \in rearmed]_nudgesVars

\* As many rows as a sweep takes stand in the queue of table t whose message raises every
\* time: they come first again at every sweep once they are the oldest.
Starved(t) ==
    Limit <= Cardinality({i \in ToSet(order) : /\ User(i) \in Unreachable \ blocked
                                               /\ TableOf(Chain[Step(i)]) = t})

\* Every reminder armed for a user whose messages do not raise for ever is delivered in
\* the end, unless its reason lapsed while it waited, its chain is held, or its table is
\* starved.  Rows that stay pending at the head of the queue, those of a user who just
\* got a message and those that raise every time, shut nobody out for good as long as
\* the latter are fewer than the rows one sweep takes; for as many of them the code
\* promises nothing, as no attempt is counted and no row given up (process.py:160-167).
ArmedIsDelivered ==
    <>[](\A u \in Audience \ Unreachable, t \in Steps :
            \/ Starved(TableOf(Chain[t]))
            \/ /\ IsPending(u, t) => Chain[t] = "A" /\ held
               /\ Exists(u, t) => received[u][t] > 0 \/ <<u, t>> \in lapsed)

\* Users get each reminder once, and not too many of them at a time.
SentAsPlanned == NudgesTypeOK /\ OncePerStep /\ Paced

=============================================================================
