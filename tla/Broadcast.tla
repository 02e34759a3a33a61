----------------------------- MODULE Broadcast -----------------------------
(***************************************************************************)
(* One broadcast: the row and its messages in the database, the task that  *)
(* sends it in batches, the tasks that delete it, and the chats.           *)
(*                                                                         *)
(* Tasks come from a Redis stream: a task a worker took stays pending      *)
(* until it is done, and one that is pending for ten minutes, whether its  *)
(* worker died or is merely slow, is delivered again.  A transaction, or   *)
(* one gather of calls to Telegram, is one action.                         *)
(***************************************************************************)
EXTENDS Integers, FiniteSets, FiniteSetsExt

CONSTANTS
    Users,          \* users Telegram can reach
    Workers,
    BatchSize,
    MaxDeliveries,  \* bound on deliveries of the send task
    MaxDeletes,     \* bound on requests to delete
    Faults,         \* faults that may occur
    MaxFaults       \* bound on how many

Jobs == 1 .. MaxDeletes

ASSUME BroadcastAssumption ==
    /\ IsFiniteSet(Users) /\ BatchSize \in Nat \ {0}
    /\ {MaxDeliveries, MaxDeletes, MaxFaults} \subseteq Nat
    /\ Faults \subseteq {"send", "refuse", "crash", "late", "undispatched"}

VARIABLES
    status,     \* broadcasts.status, "NONE" before the row and "GONE" after it
    total,      \* total_count
    success,    \* success_count
    failed,     \* failed_count
    rows,       \* broadcast_messages: status and message_id
    chat,       \* ids of the messages of the broadcast in each chat
    given,      \* the last id Telegram gave in each chat
    send,       \* the send task: "none", "committed", "queued", "acked"
    deliveries, \* deliveries of the send task
    jobs,       \* the delete tasks: their state and the messages they carry
    run,        \* program counter and locals of each worker
    cancel,     \* whether a CancelBroadcast has read the row
    mishaps,    \* history: what happened so far that a property excuses
    extra,      \* history: messages sent since the broadcast was canceled
    faults

broadcastVars ==
    <<status, total, success, failed, rows, chat, given, send, deliveries, jobs, run, cancel,
      mishaps, extra, faults>>
counters == <<total, success, failed>>
telegram == <<chat, given, extra>>
queue    == <<send, deliveries, jobs>>
history  == <<mishaps, faults>>

-----------------------------------------------------------------------------

NoRow  == [status |-> "none", id |-> 0]
NoRows == [u \in Users |-> NoRow]
Idle   == [pc |-> "idle", job |-> 0, todo |-> {}, batch |-> {}, known |-> {},
           rows |-> NoRows, result |-> "COMPLETED"]
NoJob  == [state |-> "none", rows |-> NoRows]

BroadcastInit ==
    /\ status = "NONE" /\ total = 0 /\ success = 0 /\ failed = 0
    /\ rows = NoRows
    /\ chat = [u \in Users |-> {}] /\ given = [u \in Users |-> 0]
    /\ send = "none" /\ deliveries = 0
    /\ jobs = [j \in Jobs |-> NoJob]
    /\ run = [w \in Workers |-> Idle]
    /\ cancel = FALSE
    /\ mishaps = {} /\ extra = 0 /\ faults = 0

Exists == status \notin {"NONE", "GONE"}
Recipients(m) == {u \in Users : m[u] # NoRow}

Sending(w)  == run[w].pc \in {"check", "batch", "record", "finish"}
Deleting(w) == run[w].pc \in {"erase", "write", "finalize"}

Fault(kind) ==
    /\ kind \in Faults /\ faults < MaxFaults
    /\ faults' = faults + 1 /\ mishaps' = mishaps \cup {kind}

FaultIf(kind, S) == IF S # {} THEN Fault(kind) ELSE UNCHANGED history

\* UPDATE broadcasts SET status, which matches nothing once the row is gone.
SetStatus(s) == status' = IF Exists THEN s ELSE status

Goto(w, pc) == run' = [run EXCEPT ![w].pc = pc]

-----------------------------------------------------------------------------
(* The operators' commands.                                                 *)

\* The audience that is counted includes those Telegram cannot reach.
StartBroadcast ==
    /\ status = "NONE"
    /\ \E count \in 0 .. Cardinality(Users) : total' = count
    /\ status' = "PROCESSING" /\ send' = "committed"
    /\ UNCHANGED <<success, failed, rows, telegram, deliveries, jobs, run, cancel, history>>

Dispatch ==
    /\ send = "committed"
    /\ \/ send' = "queued" /\ UNCHANGED history
       \/ Fault("undispatched") /\ send' = "acked"
    /\ UNCHANGED <<status, counters, rows, telegram, deliveries, jobs, run, cancel>>

CancelBroadcast ==
    /\ ~cancel /\ status = "PROCESSING" /\ send # "committed"
    /\ cancel' = TRUE
    /\ UNCHANGED <<status, counters, rows, telegram, queue, run, history>>

\* The row was read without a lock, and the update has no condition.
CancelCommit ==
    /\ cancel /\ cancel' = FALSE
    /\ SetStatus("CANCELED")
    /\ mishaps' = mishaps \cup {"canceled"}
    /\ UNCHANGED <<counters, rows, telegram, queue, run, faults>>

\* The task carries the messages as they are now; nothing asks whether the
\* broadcast is still being sent.
DeleteBroadcast ==
    /\ Exists /\ status # "DELETED" /\ send # "committed"
    /\ \E j \in Jobs :
        /\ jobs[j].state = "none" /\ \A k \in Jobs : k < j => jobs[k].state # "none"
        /\ jobs' = [jobs EXCEPT ![j] = [state |-> "queued", rows |-> rows]]
    /\ mishaps' = mishaps \cup (IF send # "acked" THEN {"overlap"} ELSE {})
    /\ UNCHANGED <<status, counters, rows, telegram, send, deliveries, run, cancel, faults>>

\* The weekly cleanup; no task runs for a week.
ClearOldBroadcasts ==
    /\ Exists /\ ~cancel
    /\ \A w \in Workers : run[w] = Idle
    /\ send = "acked" /\ \A j \in Jobs : jobs[j].state # "queued"
    /\ status' = "GONE" /\ rows' = NoRows
    /\ UNCHANGED <<counters, telegram, queue, run, cancel, history>>

-----------------------------------------------------------------------------
(* send_broadcast_task.                                                     *)

Slow(w) == \E v \in Workers \ {w} : Sending(v)

\* InitializeBroadcastMessages keeps the messages an earlier delivery inserted.
\* Mutations: total_count stays; the messages get the status of the broadcast.
InitializeProcessing(a) ==
    /\ rows' = [u \in Users |-> IF u \in a THEN [status |-> status, id |-> 0] ELSE NoRow]
    /\ total' = Cardinality(a)
InitializeUncounted(a) ==
    /\ rows' = IF Recipients(rows) # {} THEN rows
               ELSE [u \in Users |-> IF u \in a THEN [status |-> "PENDING", id |-> 0] ELSE NoRow]
    /\ UNCHANGED total

Initialize(a) ==
    IF Recipients(rows) # {} THEN UNCHANGED <<rows, total>>
    ELSE /\ rows' = [u \in Users |-> IF u \in a THEN [status |-> "PENDING", id |-> 0] ELSE NoRow]
         /\ total' = Cardinality(a)

\* The audience is read again on every delivery.
SendBegin(w) ==
    /\ run[w].pc = "idle" /\ send = "queued" /\ deliveries < MaxDeliveries
    /\ IF Slow(w) THEN Fault("late")
       ELSE /\ mishaps' = mishaps \cup (IF deliveries > 0 THEN {"again"} ELSE {})
            /\ UNCHANGED faults
    /\ deliveries' = deliveries + 1
    /\ \E a \in SUBSET Users :
        IF a = {}
        THEN /\ run' = [run EXCEPT ![w] = [Idle EXCEPT !.pc = "finish"]]
             /\ UNCHANGED <<rows, total>>
        ELSE /\ Initialize(a)
             /\ run' = [run EXCEPT ![w] = [Idle EXCEPT !.pc = "check", !.todo = a,
                            !.known = IF Recipients(rows) # {} THEN Recipients(rows) ELSE a]]
    /\ UNCHANGED <<status, success, failed, telegram, send, jobs, cancel>>

\* Mutation of Stopped: the row is not read between batches.
StoppedAtStart(w) == status = "CANCELED" /\ run[w].todo = run[w].known

Stopped(w) == status \in {"CANCELED", "GONE"}

Batches(S) == kSubset(IF Cardinality(S) < BatchSize THEN Cardinality(S) ELSE BatchSize, S)

SendCheck(w) ==
    /\ run[w].pc = "check"
    /\ IF run[w].todo = {}
       THEN run' = [run EXCEPT ![w].pc = "finish", ![w].result = "COMPLETED"]
       ELSE IF Stopped(w)
       THEN run' = [run EXCEPT ![w].pc = "finish", ![w].result = "CANCELED"]
       ELSE \E b \in Batches(run[w].todo) :
                run' = [run EXCEPT ![w].pc = "batch", ![w].batch = b, ![w].todo = @ \ b]
    /\ UNCHANGED <<status, counters, rows, telegram, queue, cancel, history>>

\* Those who cannot be written to fail; the others get a message and its id.
SendBatch(w) ==
    /\ run[w].pc = "batch"
    /\ \E lost \in SUBSET run[w].batch :
        /\ FaultIf("send", lost)
        /\ LET got == run[w].batch \ lost
           IN /\ given' = [u \in Users |-> IF u \in got THEN given[u] + 1 ELSE given[u]]
              /\ chat' = [u \in Users |-> IF u \in got THEN chat[u] \cup {given[u] + 1}
                                          ELSE chat[u]]
              /\ extra' = IF "canceled" \in mishaps THEN extra + Cardinality(got) ELSE extra
              /\ run' = [run EXCEPT ![w].pc = "record",
                             ![w].rows = [u \in Users |->
                                 IF u \in got THEN [status |-> "SENT", id |-> given[u] + 1]
                                 ELSE IF u \in lost THEN [status |-> "FAILED", id |-> 0]
                                 ELSE NoRow]]
    /\ UNCHANGED <<status, counters, rows, queue, cancel>>

\* bulk_update_messages writes the status and the id of every message it is given.
\* Mutation: the id is not written.
BulkUpdateStatus(users, m) ==
    rows' = [u \in Users |-> IF u \in users /\ rows[u] # NoRow
                             THEN [rows[u] EXCEPT !.status = m[u].status] ELSE rows[u]]

BulkUpdate(users, m) ==
    rows' = [u \in Users |-> IF u \in users /\ rows[u] # NoRow THEN m[u] ELSE rows[u]]

\* Mutation of CountBatch: everything that was tried counts as sent.
CountBatchSent(w) ==
    success' = success + Cardinality(run[w].batch) /\ UNCHANGED failed

CountBatch(w) ==
    LET sent == {u \in run[w].batch : run[w].rows[u].status = "SENT"}
    IN /\ success' = success + Cardinality(sent)
       /\ failed' = failed + Cardinality(run[w].batch \ sent)

\* A user who joined the audience since the messages were inserted has none: the
\* lookup of its id raises, and the whole batch goes unrecorded.
SendRecord(w) ==
    /\ run[w].pc = "record"
    /\ IF run[w].batch \subseteq run[w].known
       THEN /\ BulkUpdate(run[w].batch, run[w].rows)
            /\ CountBatch(w)
            /\ run' = [run EXCEPT ![w].pc = "check", ![w].batch = {}, ![w].rows = NoRows]
       ELSE /\ run' = [run EXCEPT ![w].pc = "finish", ![w].result = "ERROR"]
            /\ UNCHANGED <<rows, success, failed>>
    /\ UNCHANGED <<status, total, telegram, queue, cancel, history>>

Ack == send' = "acked"

\* FinishBroadcast has no condition either.
SendFinish(w) ==
    /\ run[w].pc = "finish"
    /\ SetStatus(run[w].result)
    /\ Ack
    /\ run' = [run EXCEPT ![w] = Idle]
    /\ UNCHANGED <<counters, rows, telegram, deliveries, jobs, cancel, history>>

-----------------------------------------------------------------------------
(* delete_broadcast_task.                                                   *)

DeleteBegin(w) ==
    /\ run[w].pc = "idle"
    /\ \E j \in Jobs :
        /\ jobs[j].state = "queued"
        /\ \A v \in Workers : ~(Deleting(v) /\ run[v].job = j)
        /\ run' = [run EXCEPT ![w] = [Idle EXCEPT !.pc = "erase", !.job = j,
                       !.todo = Recipients(jobs[j].rows), !.rows = jobs[j].rows]]
    /\ UNCHANGED <<status, counters, rows, telegram, queue, cancel, history>>

\* Mutation of Erasable: failed messages are tried, sent ones are not.
ErasableFailed(w, u) == run[w].rows[u].status = "FAILED"

Erasable(w, u) == run[w].rows[u].status = "SENT"

\* Telegram refuses what is already gone, or for reasons of its own; the message
\* then keeps the status it was carried with.
DeleteBatch(w) ==
    /\ run[w].pc = "erase" /\ run[w].todo # {}
    /\ \E b \in Batches(run[w].todo) :
        LET asked == {u \in b : Erasable(w, u) /\ run[w].rows[u].id \in chat[u]}
        IN \E refused \in SUBSET asked :
            /\ FaultIf("refuse", refused)
            /\ chat' = [u \in Users |-> IF u \in asked \ refused
                                        THEN chat[u] \ {run[w].rows[u].id} ELSE chat[u]]
            /\ run' = [run EXCEPT ![w].pc = "write", ![w].batch = b, ![w].todo = @ \ b,
                           ![w].rows = [u \in Users |->
                               IF u \in asked \ refused
                               THEN [run[w].rows[u] EXCEPT !.status = "DELETED"]
                               ELSE run[w].rows[u]]]
    /\ UNCHANGED <<status, counters, rows, given, extra, queue, cancel>>

\* The whole message is written back as the task carries it.
DeleteWrite(w) ==
    /\ run[w].pc = "write"
    /\ BulkUpdate(run[w].batch, run[w].rows)
    /\ run' = [run EXCEPT ![w].pc = "erase", ![w].batch = {}]
    /\ UNCHANGED <<status, counters, telegram, queue, cancel, history>>

\* _finalize_broadcast_deletion: DELETED, whatever Telegram refused.
DeleteFinish(w) ==
    /\ run[w].pc = "erase" /\ run[w].todo = {}
    /\ SetStatus("DELETED")
    /\ jobs' = [jobs EXCEPT ![run[w].job].state = "acked"]
    /\ run' = [run EXCEPT ![w] = Idle]
    /\ UNCHANGED <<counters, rows, telegram, send, deliveries, cancel, history>>

-----------------------------------------------------------------------------

\* A worker dies: the task it had stays pending.
\* Mutation: a task is acknowledged when it is taken.
CrashAcked(w) ==
    /\ run[w] # Idle /\ Fault("crash")
    /\ run' = [run EXCEPT ![w] = Idle]
    /\ IF Sending(w) THEN send' = "acked" /\ UNCHANGED jobs
       ELSE jobs' = [jobs EXCEPT ![run[w].job].state = "acked"] /\ UNCHANGED send
    /\ UNCHANGED <<status, counters, rows, telegram, deliveries, cancel>>

Crash(w) ==
    /\ run[w] # Idle /\ Fault("crash")
    /\ run' = [run EXCEPT ![w] = Idle]
    /\ UNCHANGED <<status, counters, rows, telegram, queue, cancel>>

SendStep(w)   == SendCheck(w) \/ SendBatch(w) \/ SendRecord(w) \/ SendFinish(w)
DeleteStep(w) == DeleteBatch(w) \/ DeleteWrite(w) \/ DeleteFinish(w)

BroadcastNext ==
    \/ StartBroadcast \/ Dispatch
    \/ CancelBroadcast \/ CancelCommit \/ DeleteBroadcast \/ ClearOldBroadcasts
    \/ \E w \in Workers :
        SendBegin(w) \/ SendStep(w) \/ DeleteBegin(w) \/ DeleteStep(w) \/ Crash(w)

BroadcastSpec == BroadcastInit /\ [][BroadcastNext]_broadcastVars

\* Workers poll the stream, and a step begun ends.
Fairness ==
    /\ WF_broadcastVars(Dispatch)
    /\ \A w \in Workers : WF_broadcastVars(SendStep(w)) /\ WF_broadcastVars(DeleteStep(w))
    /\ WF_broadcastVars(\E w \in Workers : SendBegin(w))
    /\ WF_broadcastVars(\E w \in Workers : DeleteBegin(w))

FairSpec == BroadcastSpec /\ Fairness

-----------------------------------------------------------------------------
(* Properties.                                                              *)

Statuses == {"NONE", "PROCESSING", "COMPLETED", "CANCELED", "ERROR", "DELETED", "GONE"}
Messages == [status : {"none", "PENDING", "SENT", "FAILED", "DELETED"},
             id : 0 .. MaxDeliveries]

\* Every variable keeps its type (the columns of broadcasts and broadcast_messages).
BroadcastTypeOK ==
    /\ status \in Statuses
    /\ {total, success, failed, extra} \subseteq Nat
    /\ rows \in [Users -> Messages]
    /\ given \in [Users -> 0 .. MaxDeliveries]
    /\ \A u \in Users : chat[u] \subseteq 1 .. given[u]
    /\ send \in {"none", "committed", "queued", "acked"}
    /\ deliveries \in 0 .. MaxDeliveries
    /\ jobs \in [Jobs -> [state : {"none", "queued", "acked"}, rows : [Users -> Messages]]]
    /\ \A w \in Workers : /\ run[w].todo \cup run[w].batch \cup run[w].known \subseteq Users
                          /\ run[w].rows \in [Users -> Messages]
    /\ cancel \in BOOLEAN /\ faults \in 0 .. MaxFaults

Spared(kinds) == mishaps \cap kinds = {}
Once  == Spared({"again", "late", "crash"})
Unsending == \A w \in Workers : ~Sending(w)

\* A message that was delivered can be deleted: unless the task was delivered twice
\* or a deletion overlapped it, the row has the id of whatever is in the chat once
\* nobody sends, while deletions run too (UpdateBroadcastMessageStatus,
\* BulkUpdateBroadcastMessages).
NothingOrphaned ==
    Once /\ Spared({"overlap"}) /\ Unsending /\ Exists
        => \A u \in Users : chat[u] # {} => rows[u].status = "SENT" /\ chat[u] = {rows[u].id}

\* DELETED is only said of a broadcast whose messages are out of the chats, whatever
\* sends failed and however many deletions ran, if no task ran twice, none overlapped
\* the sending and Telegram refused nothing (delete_broadcast_task).
DeletedIsRemoved ==
    Once /\ Spared({"overlap", "refuse"}) /\ status = "DELETED" => \A u \in Users : chat[u] = {}

\* A cancellation stops the sending: the batches on their way are the last ones
\* (send_broadcast_task reads the row before every batch).
CancelStops == Spared({"overlap", "late"}) => extra <= BatchSize

\* The counters agree with the rows, while the task still sends too: as many sent and
\* failed as the counters say; and a broadcast that completed has treated every recipient
\* (update_stats, update_total_count).
CountersAgree ==
    Once /\ Spared({"overlap"}) /\ Exists =>
        /\ success = Cardinality({u \in Users : rows[u].status \in {"SENT", "DELETED"}})
        /\ failed = Cardinality({u \in Users : rows[u].status = "FAILED"})
        /\ status = "COMPLETED" /\ Recipients(rows) # {} => total = success + failed

\* Whoever joins or leaves the audience between two deliveries of the task, total_count
\* is the number of messages inserted (InitializeBroadcastMessages).
TotalIsRecipients ==
    Exists /\ Recipients(rows) # {} => total = Cardinality(Recipients(rows))

\* A broadcast whose task was queued does not stay in PROCESSING, even if the worker
\* that sends it dies: the next delivery finishes it.
SendingEnds == (status = "PROCESSING" /\ send = "queued") ~> status # "PROCESSING"

\* A deletion that was asked for is carried out, once more if its worker dies.
DeletionEnds ==
    \A j \in Jobs : jobs[j].state = "queued" ~> status \in {"DELETED", "GONE"}

\* The rows say what is in the chats, so that a deletion removes it; what the
\* administrator sees of the progress is so, and a cancellation is heeded.
RowsAgree ==
    /\ BroadcastTypeOK
    /\ NothingOrphaned /\ DeletedIsRemoved
    /\ CountersAgree /\ TotalIsRecipients /\ CancelStops

\* What was queued comes to its end.
TasksEnd == SendingEnds /\ DeletionEnds

=============================================================================
