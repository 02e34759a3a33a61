------------------------------ MODULE Support ------------------------------
(***************************************************************************)
(* The support conversation of one user: the row and its messages in the   *)
(* database, the forum topic the operators answer in, the sweep that       *)
(* closes idle conversations, and a tab of the site that follows it.       *)
(*                                                                         *)
(* A transaction, or a call to Telegram or Redis, is one action; a         *)
(* message's id comes from a sequence before its transaction commits.      *)
(***************************************************************************)
EXTENDS Integers, FiniteSets, Sequences, FiniteSetsExt

CONSTANTS
    Requests,       \* messages and commands handled at once
    MaxMessages,    \* bound on messages of the user and of the operators
    MaxCloses,      \* bound on closings
    MaxConnects,    \* bound on streams opened
    Page,           \* the limit of list_messages
    Faults,         \* faults that may occur
    MaxFaults       \* bound on how many

ASSUME SupportAssumption ==
    /\ {MaxMessages, MaxCloses, MaxConnects, MaxFaults} \subseteq Nat /\ Page \in Nat \ {0}
    /\ Faults \subseteq {"create", "delete", "relay", "publish", "crash"}

VARIABLES
    conv,       \* the row of support_conversations
    nextId,     \* the sequence of support_messages
    stored,     \* support_messages: id and sender
    topics,     \* topics of the operators' group
    made,       \* topics ever created
    posts,      \* messages relayed to a topic
    req,        \* program counter and locals of each request
    sub,        \* events buffered on the subscription of the tab
    tab,        \* the tab: its stream, the messages it shows, its cursor, its banner, and
                \* (history) the messages that a full page left out and it may never see
    begun,      \* messages begun, closings and streams opened
    faults,     \* history: faults that occurred
    late,       \* history: messages published after one of a higher id, or never
    behind,     \* history: a change of status was published out of order, or never
    unposted,   \* history: messages whose relay failed
    stray       \* history: topics whose creator died or whose deletion failed

site    == <<sub, tab>>
history == <<faults, late, behind, unposted, stray>>
vars    == <<conv, nextId, stored, topics, made, posts, req, sub, tab, begun, faults,
             late, behind, unposted, stray>>

-----------------------------------------------------------------------------

\* Topic 0 is NULL; last_message_at is NULL ("never"), recent, or older than the
\* minutes after which a conversation is closed.
Idle == [pc |-> "idle", kind |-> "none", topic |-> 0, made |-> 0, reopened |-> FALSE,
         id |-> 0, shut |-> FALSE]

Init ==
    /\ conv = [status |-> "NONE", topic |-> 0, at |-> "never"]
    /\ nextId = 1 /\ stored = {}
    /\ topics = {} /\ made = 0 /\ posts = {}
    /\ req = [r \in Requests |-> Idle]
    /\ sub = <<>>
    /\ tab = [pc |-> "off", got |-> {}, cursor |-> 0, banner |-> "NONE", left |-> {}]
    /\ begun = [messages |-> 0, closes |-> 0, connects |-> 0]
    /\ faults = {} /\ late = {} /\ behind = FALSE /\ unposted = {} /\ stray = {}

Fault(kind) ==
    /\ kind \in Faults \ faults /\ Cardinality(faults) < MaxFaults
    /\ faults' = faults \cup {kind}

At(r, kind, pc) == req[r].kind = kind /\ req[r].pc = pc

Drop(r) == req' = [req EXCEPT ![r] = Idle]

Listening == tab.pc # "off"

\* Mutation of Reaches: the stream subscribes after its catch-up read.
ReachesAfterCatchUp == tab.pc = "live"

\* The events of the user's channel reach the tab from its subscription on.
Reaches == Listening

Replayed == tab.pc \in {"replayed", "live"}

Publish(event) == sub' = IF Reaches THEN Append(sub, event) ELSE sub

\* Changes of status committed and not published yet.
Announcing == {r \in Requests : req[r].pc = "announce" \/ req[r].reopened}

\* Messages with an id lower than this that no event told yet.
Untold(id) == {req[r].id : r \in {q \in Requests : req[q].id \in 1 .. (id - 1)}}

-----------------------------------------------------------------------------
(* SupportService.ingest_from_user                                          *)

\* Mutation of Reopen: a message does not reopen a conversation.
ReopenNever(r) ==
    /\ conv' = IF conv.status = "NONE" THEN [conv EXCEPT !.status = "OPEN"] ELSE conv
    /\ req' = [req EXCEPT ![r] =
                 [pc |-> IF conv.topic = 0 THEN "create" ELSE "mirror", kind |-> "user",
                  topic |-> conv.topic, made |-> 0, reopened |-> FALSE, id |-> 0,
                  shut |-> FALSE]]

\* The first transaction: the conversation is created, or reopened if closed.
Reopen(r) ==
    /\ conv' = [conv EXCEPT !.status = "OPEN"]
    /\ req' = [req EXCEPT ![r] =
                 [pc |-> IF conv.topic = 0 THEN "create" ELSE "mirror", kind |-> "user",
                  topic |-> conv.topic, made |-> 0, reopened |-> conv.status = "CLOSED",
                  id |-> 0, shut |-> FALSE]]

UserWrites(r) ==
    /\ req[r].pc = "idle" /\ begun.messages < MaxMessages
    /\ begun' = [begun EXCEPT !.messages = @ + 1]
    /\ Reopen(r)
    /\ behind' = (behind \/ (conv.status = "CLOSED" /\ Announcing # {}))
    /\ UNCHANGED <<nextId, stored, topics, made, posts, site, faults, late, unposted, stray>>

\* A refusal ends the request: the message is not stored.
CreateTopic(r) ==
    /\ At(r, "user", "create")
    /\ \/ /\ made' = made + 1 /\ topics' = topics \cup {made'}
          /\ req' = [req EXCEPT ![r].pc = "claim", ![r].made = made']
          /\ UNCHANGED <<faults, behind>>
       \/ /\ Fault("create") /\ Drop(r)
          /\ behind' = (behind \/ req[r].reopened)
          /\ UNCHANGED <<topics, made>>
    /\ UNCHANGED <<conv, nextId, stored, posts, site, begun, late, unposted, stray>>

\* Mutation of MaySetTopic: the last topic created wins.
MaySetTopicAgain == TRUE

\* The condition of try_set_topic's update.
MaySetTopic == conv.topic = 0

ClaimTopic(r) ==
    /\ At(r, "user", "claim")
    /\ \/ /\ MaySetTopic
          /\ conv' = [conv EXCEPT !.topic = req[r].made]
          /\ req' = [req EXCEPT ![r].pc = "mirror", ![r].topic = req[r].made]
       \/ ~MaySetTopic /\ req' = [req EXCEPT ![r].pc = "drop"] /\ UNCHANGED conv
    /\ UNCHANGED <<nextId, stored, topics, made, posts, site, begun, history>>

\* Mutation of Adopted: the conversation as it was read first.
AdoptedNot(r) == req[r].topic

\* The topic of the request that won, read again.
Adopted(r) == conv.topic

\* The deletion of the redundant topic is best effort.
DropTopic(r) ==
    /\ At(r, "user", "drop")
    /\ req' = [req EXCEPT ![r].pc = "mirror", ![r].topic = Adopted(r)]
    /\ \/ topics' = topics \ {req[r].made} /\ UNCHANGED <<faults, stray>>
       \/ Fault("delete") /\ stray' = stray \cup {req[r].made} /\ UNCHANGED topics
    /\ UNCHANGED <<conv, nextId, stored, made, posts, site, begun, late, behind, unposted>>

\* Mutation of Mirror: the reopening stays to be told.
MirrorAgain(r) ==
    /\ At(r, "user", "mirror")
    /\ req' = [req EXCEPT ![r].pc = "insert"]
    /\ \/ req[r].reopened /\ Publish([kind |-> "status", is |-> "OPEN"])
       \/ ~req[r].reopened /\ UNCHANGED sub
    /\ UNCHANGED <<conv, nextId, stored, topics, made, posts, tab, begun, history>>

\* Other tabs are told of the reopening, as far as Redis answers.
Mirror(r) ==
    /\ At(r, "user", "mirror")
    /\ req' = [req EXCEPT ![r].pc = "insert", ![r].reopened = FALSE]
    /\ \/ /\ \/ req[r].reopened /\ Publish([kind |-> "status", is |-> "OPEN"])
             \/ ~req[r].reopened /\ UNCHANGED sub
          /\ UNCHANGED <<faults, behind>>
       \/ req[r].reopened /\ Fault("publish") /\ behind' = TRUE /\ UNCHANGED sub
    /\ UNCHANGED <<conv, nextId, stored, topics, made, posts, tab, begun, late, unposted,
                   stray>>

\* The INSERT of the second transaction takes an id.
Insert(r) ==
    /\ req[r].pc = "insert"
    /\ req' = [req EXCEPT ![r].pc = "commit", ![r].id = nextId]
    /\ nextId' = nextId + 1
    /\ UNCHANGED <<conv, stored, topics, made, posts, site, begun, history>>

\* A message of the user has no event: it is told by its commit.
CommitMessage(r) ==
    /\ At(r, "user", "commit")
    /\ stored' = stored \cup {[id |-> req[r].id, by |-> "user"]}
    /\ conv' = [conv EXCEPT !.at = "fresh"]
    /\ late' = late \cup Untold(req[r].id)
    /\ req' = [req EXCEPT ![r].pc = "relay"]
    /\ UNCHANGED <<nextId, topics, made, posts, site, begun, faults, behind, unposted, stray>>

\* The relay is best effort, and there is none without a topic.
Relay(r) ==
    /\ At(r, "user", "relay") /\ Drop(r)
    /\ \/ /\ req[r].topic # 0 /\ posts' = posts \cup {[topic |-> req[r].topic, id |-> req[r].id]}
          /\ UNCHANGED <<faults, unposted>>
       \/ req[r].topic = 0 /\ UNCHANGED <<posts, faults, unposted>>
       \/ Fault("relay") /\ unposted' = unposted \cup {req[r].id} /\ UNCHANGED posts
    /\ UNCHANGED <<conv, nextId, stored, topics, made, site, begun, late, behind, stray>>

-----------------------------------------------------------------------------
(* SupportService.ingest_from_operator                                      *)

\* An operator writes in the conversation's topic.
OperatorWrites(r) ==
    /\ req[r].pc = "idle" /\ conv.topic # 0 /\ begun.messages < MaxMessages
    /\ begun' = [begun EXCEPT !.messages = @ + 1]
    /\ req' = [req EXCEPT ![r] = [pc |-> "insert", kind |-> "operator", topic |-> 0,
                                 made |-> 0, reopened |-> FALSE, id |-> 0, shut |-> FALSE]]
    /\ UNCHANGED <<conv, nextId, stored, topics, made, posts, site, history>>

CommitReply(r) ==
    /\ At(r, "operator", "commit")
    /\ stored' = stored \cup {[id |-> req[r].id, by |-> "operator"]}
    /\ late' = late \cup Untold(req[r].id)
    /\ req' = [req EXCEPT ![r].pc = "publish"]
    /\ UNCHANGED <<conv, nextId, topics, made, posts, site, begun, faults, behind, unposted,
                   stray>>

\* The event, best effort; the message in the private chat is not followed.
PublishReply(r) ==
    /\ At(r, "operator", "publish") /\ Drop(r)
    /\ \/ Publish([kind |-> "message", is |-> req[r].id]) /\ UNCHANGED faults
          /\ late' = late \cup Untold(req[r].id)
       \/ Fault("publish") /\ late' = late \cup {req[r].id} /\ UNCHANGED sub
    /\ UNCHANGED <<conv, nextId, stored, topics, made, posts, tab, begun, behind, unposted,
                   stray>>

-----------------------------------------------------------------------------
(* close_by_topic and close_idle                                            *)

\* Every message under way is stored after the closing.
Shut(r) ==
    /\ begun.closes < MaxCloses /\ begun' = [begun EXCEPT !.closes = @ + 1]
    /\ conv' = [conv EXCEPT !.status = "CLOSED"]
    /\ req' = [q \in Requests |->
                 IF q = r THEN [pc |-> "announce", kind |-> "close", topic |-> 0, made |-> 0,
                                reopened |-> FALSE, id |-> 0, shut |-> FALSE]
                 ELSE [req[q] EXCEPT !.shut = TRUE]]
    /\ behind' = (behind \/ Announcing # {})
    /\ UNCHANGED <<nextId, stored, topics, made, posts, site, faults, late, unposted, stray>>

CloseByTopic(r) == req[r].pc = "idle" /\ conv.topic # 0 /\ Shut(r)

\* A conversation without a stored message, last_message_at NULL, is not closed.
CloseIdle(r) ==
    req[r].pc = "idle" /\ conv.status = "OPEN" /\ conv.at = "stale" /\ Shut(r)

\* Mutation of Announce: a closing is not told to the site.
AnnounceNot(r) ==
    /\ At(r, "close", "announce") /\ Drop(r)
    /\ UNCHANGED <<conv, nextId, stored, topics, made, posts, site, begun, history>>

Announce(r) ==
    /\ At(r, "close", "announce") /\ Drop(r)
    /\ \/ Publish([kind |-> "status", is |-> "CLOSED"]) /\ UNCHANGED <<faults, behind>>
       \/ Fault("publish") /\ behind' = TRUE /\ UNCHANGED sub
    /\ UNCHANGED <<conv, nextId, stored, topics, made, posts, tab, begun, late, unposted,
                   stray>>

\* The idle minutes pass without a message.
Age ==
    /\ conv.at = "fresh" /\ conv' = [conv EXCEPT !.at = "stale"]
    /\ UNCHANGED <<nextId, stored, topics, made, posts, req, site, begun, history>>

\* The process dies with the request.
Crash(r) ==
    /\ req[r].pc # "idle" /\ Fault("crash") /\ Drop(r)
    /\ behind' = (behind \/ r \in Announcing)
    /\ late' = late \cup (IF req[r].id = 0 THEN {} ELSE {req[r].id})
    /\ unposted' = unposted \cup (IF req[r].id = 0 THEN {} ELSE {req[r].id})
    /\ stray' = stray \cup (IF req[r].pc \in {"claim", "drop"} THEN {req[r].made} ELSE {})
    /\ UNCHANGED <<conv, nextId, stored, topics, made, posts, site, begun>>

-----------------------------------------------------------------------------
(* GET /support/stream                                                      *)

\* A transaction rolled back leaves its id unused.
Ids(after) == {m.id : m \in {n \in stored : n.id > after}}

\* list_messages returns one page: the newest messages at first, and those next to the
\* cursor when the stream is opened again.
Missed(after) ==
    {i \in Ids(after) :
        Page > Cardinality({j \in Ids(after) : IF after = 0 THEN j > i ELSE j < i})}

Connect ==
    /\ tab.pc = "off" /\ begun.connects < MaxConnects
    /\ begun' = [begun EXCEPT !.connects = @ + 1]
    /\ tab' = [tab EXCEPT !.pc = "subscribed"] /\ sub' = <<>>
    /\ UNCHANGED <<conv, nextId, stored, topics, made, posts, req, history>>

\* A page of what is stored past the cursor is read and replayed, and the status.
CatchUp ==
    /\ tab.pc = "subscribed"
    /\ LET missed == Missed(tab.cursor)
       IN tab' = [pc |-> "replayed", got |-> tab.got \cup missed,
                  cursor |-> IF missed = {} THEN tab.cursor ELSE Max(missed),
                  banner |-> IF conv.status = "NONE" THEN tab.banner ELSE conv.status,
                  left |-> {i \in tab.left : i <= tab.cursor} \cup (Ids(tab.cursor) \ missed)]
    /\ behind' = (behind /\ (Announcing # {} \/ sub # <<>>))
    /\ UNCHANGED <<conv, nextId, stored, topics, made, posts, req, sub, begun, faults, late,
                   unposted, stray>>

\* The frames are sent; from here on the stream reads Redis alone.
GoLive ==
    /\ tab.pc = "replayed" /\ tab' = [tab EXCEPT !.pc = "live"]
    /\ UNCHANGED <<conv, nextId, stored, topics, made, posts, req, sub, begun, history>>

\* The browser's Last-Event-ID is that of the last frame, whatever its id.
Forward ==
    /\ tab.pc = "live" /\ sub # <<>>
    /\ sub' = Tail(sub)
    /\ \/ /\ Head(sub).kind = "message"
          /\ tab' = [tab EXCEPT !.got = @ \cup {Head(sub).is}, !.cursor = Head(sub).is]
       \/ Head(sub).kind = "status" /\ tab' = [tab EXCEPT !.banner = Head(sub).is]
    /\ UNCHANGED <<conv, nextId, stored, topics, made, posts, req, begun, history>>

Disconnect ==
    /\ Listening
    /\ tab' = [tab EXCEPT !.pc = "off"] /\ sub' = <<>>
    /\ UNCHANGED <<conv, nextId, stored, topics, made, posts, req, begun, history>>

-----------------------------------------------------------------------------

Step(r) ==
    \/ CreateTopic(r) \/ ClaimTopic(r) \/ DropTopic(r) \/ Mirror(r) \/ Insert(r)
    \/ CommitMessage(r) \/ Relay(r) \/ CommitReply(r) \/ PublishReply(r) \/ Announce(r)

Next ==
    \/ \E r \in Requests :
        \/ UserWrites(r) \/ OperatorWrites(r) \/ CloseByTopic(r) \/ CloseIdle(r) \/ Step(r) \/ Crash(r)
    \/ Age \/ Connect \/ CatchUp \/ GoLive \/ Forward \/ Disconnect

Spec == Init /\ [][Next]_vars

-----------------------------------------------------------------------------

TypeOK ==
    /\ conv \in [status : {"NONE", "OPEN", "CLOSED"}, topic : 0 .. made,
                 at : {"never", "fresh", "stale"}]
    /\ nextId \in 1 .. (MaxMessages + 1) /\ made \in 0 .. MaxMessages
    /\ stored \subseteq [id : 1 .. (nextId - 1), by : {"user", "operator"}]
    /\ topics \subseteq 1 .. made /\ stray \subseteq 1 .. made
    /\ posts \subseteq [topic : 1 .. made, id : 1 .. (nextId - 1)]
    /\ \A r \in Requests :
          /\ req[r].kind \in {"none", "user", "operator", "close"}
          /\ req[r].pc = "idle" <=> req[r].kind = "none"
          /\ req[r].id \in 0 .. (nextId - 1)
          /\ req[r].pc \in {"commit", "relay", "publish"} => req[r].id > 0
          /\ req[r].reopened => req[r].pc \in {"create", "claim", "drop", "mirror"}
    /\ tab.pc \in {"off", "subscribed", "replayed", "live"}
    /\ tab.got \cup tab.left \subseteq 1 .. (nextId - 1) /\ tab.cursor \in {0} \cup tab.got

\* A conversation has one topic.  Topics made by first messages that arrive together
\* are deleted but for one, and every message is relayed to that one: at rest no other
\* topic is left, unless the request that made it died or its deletion failed.
OneTopic ==
    /\ topics \subseteq {conv.topic} \cup {req[r].made : r \in Requests} \cup stray
    /\ \A p \in posts : p.topic = conv.topic /\ p.topic \in topics

\* The operators see every message of the user: once its request is over, a stored
\* message was relayed to the topic, unless Telegram refused the relay or the process
\* died.  Nothing relays a message later.
Relayed ==
    \A m \in stored :
        m.by = "user" /\ (\A r \in Requests : req[r].id # m.id)
        => m.id \in unposted \/ [topic |-> conv.topic, id |-> m.id] \in posts

\* A message of the user is stored in an open conversation: only a closing between the
\* two transactions of its request, or while Telegram makes the topic, can leave it in
\* a closed one, where no sweep and no list of open conversations shows it.
HeardWhileOpen ==
    [][\A r \in Requests : CommitMessage(r) => conv'.status = "OPEN" \/ req[r].shut]_vars

\* "Neither the initial gap nor a reconnect gap drops a message": what an operator
\* answered is shown by the tab once it has read its subscription, and is past the
\* cursor of a tab that is off.  Excused is a reply that was published after one of a
\* higher id, or never: the cursor may have passed it.  Excused is also a reply that a
\* full page of the catch-up left out: until the stream is opened again if the cursor is
\* still behind it, and for good once the cursor has passed it.
RepliesReachTheSite ==
    \A m \in stored : m.by = "operator" =>
        \/ m.id \in tab.got \cup tab.left \/ m.id \in late
        \/ Replayed /\ (\/ \E r \in Requests : req[r].id = m.id
                        \/ [kind |-> "message", is |-> m.id] \in {sub[i] : i \in DOMAIN sub})
        \/ ~Replayed /\ m.id > tab.cursor

\* A tab that has read its subscription shows whether the conversation is closed, unless
\* a change is still to be published, or was published out of order or never since
\* the stream was opened.
BannerAgrees ==
    Replayed /\ sub = <<>> /\ Announcing = {} /\ ~behind
    => (tab.banner = "CLOSED" <=> conv.status = "CLOSED")

\* The operators see the user's messages, all of them in one topic.
OperatorsSeeAll == TypeOK /\ OneTopic /\ Relayed

\* The site shows what the operators did, over any number of reconnections.
SiteFollows == RepliesReachTheSite /\ BannerAgrees

=============================================================================
