---------------------------- MODULE UpkeepProofs ----------------------------
(***************************************************************************)
(* Theorems of what the operators and the panel ask of the shop's data: of *)
(* Support, for any requests, messages and faults, and of PanelSync, for   *)
(* any operations, users of the panel, rows, terms and mishaps.  The two   *)
(* share no state; each has its own specification.                         *)
(***************************************************************************)
EXTENDS Support, PanelSync, FiniteSetTheorems, SequenceTheorems, WellFoundedInduction, TLAPS

-----------------------------------------------------------------------------
(*                                 Support                                  *)

(***************************************************************************)
(* The inductive invariant: the types, the ids, the topic, what was        *)
(* relayed, what the tab was told of replies and of the status.            *)
(***************************************************************************)

Writing == {"create", "claim", "drop", "mirror", "insert", "commit", "relay"}

Numbered(r) == req[r].pc \in {"commit", "relay", "publish"}

RequestType ==
    [pc : Writing \cup {"idle", "publish", "announce"},
     kind : {"none", "user", "operator", "close"}, topic : Nat, made : Nat,
     reopened : BOOLEAN, id : Nat, shut : BOOLEAN]

Events ==
    [kind : {"message"}, is : Nat] \cup [kind : {"status"}, is : {"OPEN", "CLOSED"}]

\* Each kind of request has its own steps.
Steps(q) ==
    /\ q.kind = "none" <=> q.pc = "idle"
    /\ q.kind = "user" => q.pc \in Writing
    /\ q.kind = "operator" => q.pc \in {"insert", "commit", "publish"}
    /\ q.kind = "close" => q.pc = "announce"
    /\ q.id > 0 <=> q.pc \in {"commit", "relay", "publish"}
    /\ q.made > 0 => q.kind = "user" /\ q.pc # "create"
    /\ q.pc \in {"claim", "drop"} => q.made > 0
    /\ q.reopened => q.pc \in {"create", "claim", "drop", "mirror"}

\* Messages begun that have no id yet, and no topic yet.
Unnumbered == {r \in Requests : req[r].kind \in {"user", "operator"} /\ ~Numbered(r)}
Untopiced  == {r \in Requests : req[r].pc = "create"}

DataInv ==
    /\ nextId \in Nat \ {0} /\ made \in Nat
    /\ conv \in [status : {"NONE", "OPEN", "CLOSED"}, topic : 0 .. made,
                 at : {"never", "fresh", "stale"}]
    /\ stored \subseteq [id : 1 .. (nextId - 1), by : {"user", "operator"}]
    /\ topics \subseteq 1 .. made /\ stray \subseteq 1 .. made
    /\ posts \subseteq [topic : 1 .. made, id : 1 .. (nextId - 1)]
    /\ begun \in [messages : 0 .. MaxMessages, closes : Nat, connects : Nat]
    /\ sub \in Seq(Events)
    /\ \A k \in DOMAIN sub : sub[k].kind = "message" => sub[k].is \in 1 .. (nextId - 1)
    /\ tab \in [pc : {"off", "subscribed", "replayed", "live"},
                got : SUBSET (1 .. (nextId - 1)), cursor : Nat,
                banner : {"NONE", "OPEN", "CLOSED"}, left : SUBSET (1 .. (nextId - 1))]
    /\ tab.cursor \in {0} \cup tab.got
    /\ late \subseteq Nat /\ unposted \subseteq Nat /\ behind \in BOOLEAN

ReqInv ==
    /\ req \in [Requests -> RequestType]
    /\ \A r \in Requests : Steps(req[r]) /\ req[r].made <= made /\ req[r].id < nextId

CountInv ==
    /\ IsFiniteSet(Unnumbered) /\ Cardinality(Unnumbered) + nextId - 1 <= begun.messages
    /\ IsFiniteSet(Untopiced) /\ Cardinality(Untopiced) + made <= begun.messages

TypeInv == DataInv /\ ReqInv /\ CountInv

\* The ids of the messages in flight and of those stored are one's own.
IdInv ==
    /\ \A q, r \in Requests : req[q].id = req[r].id /\ req[q].id > 0 => q = r
    /\ \A m, n \in stored : m.id = n.id => m = n
    /\ \A r \in Requests : req[r].id > 0 =>
          IF req[r].pc = "commit" THEN \A m \in stored : m.id # req[r].id
          ELSE [id |-> req[r].id, by |-> req[r].kind] \in stored

\* The conversation's topic stays, each request that made another drops it, and what a
\* request relays to is that one.
Making(r) == req[r].pc \in {"claim", "drop"}

TopicInv ==
    /\ OneTopic
    /\ conv.topic # 0 => conv.topic \in topics
    /\ \A q, r \in Requests : Making(q) /\ Making(r) /\ req[q].made = req[r].made => q = r
    /\ \A r \in Requests :
        /\ Making(r) => req[r].made # conv.topic /\ req[r].made \in topics
        /\ ~Making(r) => req[r].made \notin topics \ ({conv.topic} \cup stray)
        /\ req[r].pc = "drop" => conv.topic # 0
        /\ req[r].kind = "user" /\ req[r].pc \in {"mirror", "insert", "commit", "relay"}
             => req[r].topic = conv.topic /\ conv.topic # 0

OpenInv == \A r \in Requests : req[r].kind = "user" => conv.status = "OPEN" \/ req[r].shut

\* An id that a stored message or the tab's cursor passed is late.
Telling(k) == k \in DOMAIN sub /\ sub[k].kind = "message"

ReplyInv ==
    /\ RepliesReachTheSite
    /\ \A n \in stored, r \in Requests :
          req[r].id > 0 /\ req[r].id < n.id => req[r].id \in late
    /\ \A k \in DOMAIN sub : Telling(k) =>
          /\ [id |-> sub[k].is, by |-> "operator"] \in stored
          /\ sub[k].is <= tab.cursor => sub[k].is \in tab.got \cup tab.left \cup late
    /\ \A j, k \in DOMAIN sub :
          Telling(j) /\ Telling(k) /\ j < k /\ sub[k].is < sub[j].is => sub[k].is \in late
    /\ tab.got \subseteq {m.id : m \in stored}
    /\ tab.cursor # 0 => tab.cursor \in tab.got
    /\ tab.pc = "off" => sub = <<>>

\* The last change of status is the one being announced, else the last in the tab's
\* subscription, else the one its banner shows.
Changing(k) == k \in DOMAIN sub /\ sub[k].kind = "status"

IsLast(k) == Changing(k) /\ \A j \in DOMAIN sub : j > k => ~Changing(j)

BannerInv ==
    /\ conv.status = "NONE" =>
          /\ tab.banner = "NONE" /\ Announcing = {}
          /\ \A k \in DOMAIN sub : ~Changing(k)
    /\ ~behind =>
        /\ \A q, r \in Announcing : q = r
        /\ \A r \in Announcing : req[r].kind = "close" <=> conv.status = "CLOSED"
        /\ Announcing = {} =>
            /\ \A k \in DOMAIN sub : IsLast(k) => (sub[k].is = "CLOSED" <=> conv.status = "CLOSED")
            /\ Replayed /\ (\A k \in DOMAIN sub : ~Changing(k))
                 => (tab.banner = "CLOSED" <=> conv.status = "CLOSED")

IInv == TypeInv /\ IdInv /\ TopicInv /\ Relayed /\ OpenInv /\ ReplyInv /\ BannerInv

-----------------------------------------------------------------------------
(* What a step makes of the requests.                                       *)

Stays(r) == \A q \in Requests \ {r} : req'[q] = req[q]

Keeps(r) ==
    /\ req'[r].kind = req[r].kind /\ req'[r].topic = req[r].topic
    /\ req'[r].made = req[r].made /\ req'[r].reopened = req[r].reopened
    /\ req'[r].id = req[r].id /\ req'[r].shut = req[r].shut

LEMMA Typed ==
    ASSUME TypeInv, NEW r \in Requests
    PROVE  req[r] \in RequestType /\ Steps(req[r]) /\ req[r].made <= made
           /\ req[r].id < nextId
BY DEF TypeInv, ReqInv

LEMMA UserMove ==
    ASSUME TypeInv, NEW r \in Requests, UserWrites(r)
    PROVE  /\ req[r].pc = "idle" /\ Stays(r)
           /\ req' \in [Requests -> RequestType] /\ Steps(req'[r])
           /\ req'[r].kind = "user" /\ req'[r].pc = (IF conv.topic = 0 THEN "create" ELSE "mirror")
           /\ req'[r].topic = conv.topic /\ req'[r].made = 0 /\ req'[r].id = 0
           /\ req'[r].reopened = (conv.status = "CLOSED") /\ ~req'[r].shut
<1> DEFINE x == [pc |-> IF conv.topic = 0 THEN "create" ELSE "mirror", kind |-> "user",
                 topic |-> conv.topic, made |-> 0, reopened |-> conv.status = "CLOSED",
                 id |-> 0, shut |-> FALSE]
<1>1. req' = [req EXCEPT ![r] = x] /\ req[r].pc = "idle"
  BY Zenon DEF UserWrites, Reopen
<1>2. conv.topic \in Nat /\ (conv.status = "CLOSED") \in BOOLEAN
  BY DEF TypeInv, DataInv
<1>3. x \in RequestType
  BY <1>2 DEF RequestType, Writing
<1>4. Steps(x)
  BY <1>2 DEF Steps, Writing
<1>5. /\ x.kind = "user" /\ x.pc = (IF conv.topic = 0 THEN "create" ELSE "mirror")
      /\ x.topic = conv.topic /\ x.made = 0 /\ x.id = 0
      /\ x.reopened = (conv.status = "CLOSED") /\ ~x.shut
  BY Zenon
<1> HIDE DEF x
<1>6. req'[r] = x /\ Stays(r) /\ req' \in [Requests -> RequestType]
  BY <1>1, <1>3 DEF TypeInv, ReqInv, Stays
<1> QED BY <1>1, <1>4, <1>5, <1>6, Zenon

LEMMA OperatorMove ==
    ASSUME TypeInv, NEW r \in Requests, OperatorWrites(r)
    PROVE  /\ req[r].pc = "idle" /\ Stays(r)
           /\ req' \in [Requests -> RequestType] /\ Steps(req'[r])
           /\ req'[r].kind = "operator" /\ req'[r].pc = "insert" /\ req'[r].made = 0
           /\ req'[r].id = 0 /\ ~req'[r].reopened
<1> DEFINE x == [pc |-> "insert", kind |-> "operator", topic |-> 0, made |-> 0,
                 reopened |-> FALSE, id |-> 0, shut |-> FALSE]
<1>1. req' = [req EXCEPT ![r] = x] /\ req[r].pc = "idle"
  BY Zenon DEF OperatorWrites
<1>2. x \in RequestType /\ Steps(x)
  BY DEF RequestType, Writing, Steps
<1> QED BY <1>1, <1>2 DEF TypeInv, ReqInv, Stays

\* A closing marks the others.
LEMMA ShutMove ==
    ASSUME TypeInv, NEW r \in Requests, Shut(r)
    PROVE  /\ req' \in [Requests -> RequestType] /\ Steps(req'[r])
           /\ req'[r].kind = "close" /\ req'[r].pc = "announce" /\ req'[r].made = 0
           /\ req'[r].id = 0 /\ ~req'[r].reopened
           /\ \A q \in Requests \ {r} :
                /\ req'[q].pc = req[q].pc /\ req'[q].kind = req[q].kind
                /\ req'[q].topic = req[q].topic /\ req'[q].made = req[q].made
                /\ req'[q].reopened = req[q].reopened /\ req'[q].id = req[q].id
                /\ req'[q].shut /\ Steps(req'[q])
<1> DEFINE x == [pc |-> "announce", kind |-> "close", topic |-> 0, made |-> 0,
                 reopened |-> FALSE, id |-> 0, shut |-> FALSE]
<1>1. req' = [q \in Requests |-> IF q = r THEN x ELSE [req[q] EXCEPT !.shut = TRUE]]
  BY Zenon DEF Shut
<1>2. x \in RequestType /\ Steps(x)
  BY DEF RequestType, Writing, Steps
<1>3. \A q \in Requests : req[q] \in RequestType /\ [req[q] EXCEPT !.shut = TRUE] \in RequestType
  BY DEF TypeInv, ReqInv, RequestType
<1>4. req'[r] = x /\ \A q \in Requests \ {r} : req'[q] = [req[q] EXCEPT !.shut = TRUE]
  BY <1>1
<1>5. req' \in [Requests -> RequestType]
  BY <1>1, <1>2, <1>3
<1>6. ASSUME NEW q \in Requests \ {r}
      PROVE  /\ req'[q].pc = req[q].pc /\ req'[q].kind = req[q].kind
             /\ req'[q].topic = req[q].topic /\ req'[q].made = req[q].made
             /\ req'[q].reopened = req[q].reopened /\ req'[q].id = req[q].id
             /\ req'[q].shut /\ Steps(req'[q])
  <2>1. /\ req'[q].pc = req[q].pc /\ req'[q].kind = req[q].kind
        /\ req'[q].topic = req[q].topic /\ req'[q].made = req[q].made
        /\ req'[q].reopened = req[q].reopened /\ req'[q].id = req[q].id
        /\ req'[q].shut
    <3>1. req[q] \in RequestType /\ req'[q] = [req[q] EXCEPT !.shut = TRUE]
      BY <1>3, <1>4
    <3> QED BY <3>1 DEF RequestType
  <2> QED BY <2>1, Typed DEF Steps
<1> QED BY <1>2, <1>4, <1>5, <1>6

LEMMA DropMove ==
    ASSUME TypeInv, NEW r \in Requests, Drop(r)
    PROVE  /\ Stays(r) /\ req' \in [Requests -> RequestType] /\ Steps(req'[r])
           /\ req'[r].pc = "idle" /\ req'[r].kind = "none" /\ req'[r].made = 0
           /\ req'[r].id = 0 /\ ~req'[r].reopened
<1>1. Idle \in RequestType /\ Steps(Idle)
  BY DEF Idle, RequestType, Steps
<1>2. req'[r] = Idle /\ Stays(r) /\ req' \in [Requests -> RequestType]
  BY <1>1 DEF TypeInv, ReqInv, Drop, Stays
<1> QED BY <1>1, <1>2 DEF Idle

LEMMA CreateMove ==
    ASSUME TypeInv, NEW r \in Requests, CreateTopic(r), ~Drop(r)
    PROVE  /\ Stays(r) /\ req' \in [Requests -> RequestType] /\ Steps(req'[r])
           /\ req'[r].pc = "claim" /\ req'[r].made = made' /\ made' = made + 1
           /\ topics' = topics \cup {made'} /\ UNCHANGED behind
           /\ req'[r].kind = "user" /\ req'[r].topic = req[r].topic
           /\ req'[r].reopened = req[r].reopened /\ req'[r].id = 0
           /\ req'[r].shut = req[r].shut
<1>1. /\ made' = made + 1 /\ topics' = topics \cup {made'} /\ UNCHANGED behind
      /\ req' = [req EXCEPT ![r].pc = "claim", ![r].made = made']
  BY DEF CreateTopic
<1>2. PICK n \in Nat : n = made' /\ n > 0
  BY <1>1 DEF TypeInv, DataInv
<1>3. req[r] \in RequestType /\ req[r].pc = "create" /\ req[r].kind = "user" /\ req[r].id = 0
  BY Typed DEF CreateTopic, At, Steps, RequestType
<1>4. req'[r] = [req[r] EXCEPT !.pc = "claim", !.made = n] /\ Stays(r)
  BY <1>1, <1>2 DEF TypeInv, ReqInv, Stays
<1>5. /\ req'[r].pc = "claim" /\ req'[r].made = n /\ req'[r].kind = "user"
      /\ req'[r].topic = req[r].topic /\ req'[r].reopened = req[r].reopened
      /\ req'[r].id = 0 /\ req'[r].shut = req[r].shut /\ req'[r] \in RequestType
  BY <1>2, <1>3, <1>4 DEF RequestType, Writing
<1>6. Steps(req'[r])
  BY <1>2, <1>5 DEF Steps, Writing
<1>7. req' \in [Requests -> RequestType]
  BY <1>1, <1>5 DEF TypeInv, ReqInv
<1> QED BY <1>1, <1>2, <1>4, <1>5, <1>6, <1>7

\* A request goes on to another step with another topic.
Takes(r, n) == req' = [req EXCEPT ![r].pc = "mirror", ![r].topic = n]

LEMMA TopicMove ==
    ASSUME TypeInv, NEW r \in Requests, NEW n \in Nat, Making(r), req[r].kind = "user",
           Takes(r, n)
    PROVE  /\ Stays(r) /\ req' \in [Requests -> RequestType] /\ Steps(req'[r])
           /\ req'[r].pc = "mirror" /\ req'[r].topic = n /\ req'[r].kind = "user"
           /\ req'[r].made = req[r].made /\ req'[r].reopened = req[r].reopened
           /\ req'[r].id = 0 /\ req'[r].shut = req[r].shut
<1>1. req[r] \in RequestType /\ req[r].id = 0
  BY Typed DEF Making, Steps, RequestType
<1>2. req'[r] = [req[r] EXCEPT !.pc = "mirror", !.topic = n] /\ Stays(r)
  BY DEF TypeInv, ReqInv, Stays, Takes
<1>3. /\ req'[r].pc = "mirror" /\ req'[r].topic = n /\ req'[r].kind = "user"
      /\ req'[r].made = req[r].made /\ req'[r].reopened = req[r].reopened
      /\ req'[r].id = 0 /\ req'[r].shut = req[r].shut /\ req'[r] \in RequestType
  <2>1. /\ req'[r].pc = "mirror" /\ req'[r].topic = n /\ req'[r].kind = "user"
        /\ req'[r].made = req[r].made /\ req'[r].id = 0
    BY <1>1, <1>2 DEF RequestType
  <2>2. req'[r].reopened = req[r].reopened /\ req'[r].shut = req[r].shut
    BY <1>1, <1>2 DEF RequestType
  <2>3. req'[r] \in RequestType
    BY <1>1, <1>2 DEF RequestType, Writing
  <2> QED BY <2>1, <2>2, <2>3
<1>4. Steps(req'[r])
  BY <1>1, <1>3 DEF Steps, Writing
<1>5. req' \in [Requests -> RequestType]
  BY <1>3 DEF TypeInv, ReqInv, Takes
<1> QED BY <1>2, <1>3, <1>4, <1>5

LEMMA ClaimMove ==
    ASSUME TypeInv, NEW r \in Requests, ClaimTopic(r)
    PROVE  /\ req[r].pc = "claim" /\ req[r].kind = "user" /\ req[r].made > 0
           /\ Stays(r) /\ req' \in [Requests -> RequestType] /\ Steps(req'[r])
           /\ req'[r].kind = "user" /\ req'[r].made = req[r].made
           /\ req'[r].reopened = req[r].reopened /\ req'[r].id = 0
           /\ req'[r].shut = req[r].shut
           /\ \/ /\ conv.topic = 0 /\ conv' = [conv EXCEPT !.topic = req[r].made]
                 /\ req'[r].pc = "mirror" /\ req'[r].topic = req[r].made
              \/ conv.topic # 0 /\ UNCHANGED conv /\ req'[r].pc = "drop"
<1>1. req[r] \in RequestType /\ req[r].pc = "claim" /\ req[r].kind = "user" /\ req[r].made > 0
      /\ req[r].made \in Nat /\ req[r].id = 0
  BY Typed DEF ClaimTopic, At, Steps, RequestType
<1>2. CASE MaySetTopic /\ conv' = [conv EXCEPT !.topic = req[r].made]
           /\ req' = [req EXCEPT ![r].pc = "mirror", ![r].topic = req[r].made]
  BY <1>1, <1>2, TopicMove DEF MaySetTopic, Making, Takes
<1>3. CASE ~MaySetTopic /\ req' = [req EXCEPT ![r].pc = "drop"] /\ UNCHANGED conv
  <2>1. req'[r] = [req[r] EXCEPT !.pc = "drop"] /\ Stays(r)
    BY <1>3 DEF TypeInv, ReqInv, Stays
  <2>2. /\ req'[r].pc = "drop" /\ Keeps(r) /\ req'[r] \in RequestType
    BY <1>1, <2>1 DEF RequestType, Writing, Keeps
  <2>3. Steps(req'[r])
    BY <1>1, <2>2, Typed DEF Steps, Writing, Keeps
  <2>4. req' \in [Requests -> RequestType]
    BY <1>3, <2>2 DEF TypeInv, ReqInv
  <2> QED BY <1>1, <1>3, <2>1, <2>2, <2>3, <2>4 DEF MaySetTopic, Keeps
<1> QED BY <1>2, <1>3 DEF ClaimTopic

LEMMA DropTopicMove ==
    ASSUME TypeInv, NEW r \in Requests, DropTopic(r)
    PROVE  /\ req[r].pc = "drop" /\ req[r].kind = "user" /\ req[r].made > 0
           /\ Stays(r) /\ req' \in [Requests -> RequestType] /\ Steps(req'[r])
           /\ req'[r].kind = "user" /\ req'[r].made = req[r].made
           /\ req'[r].reopened = req[r].reopened /\ req'[r].id = 0
           /\ req'[r].shut = req[r].shut
           /\ req'[r].pc = "mirror" /\ req'[r].topic = conv.topic
<1>1. req[r].pc = "drop" /\ req[r].kind = "user" /\ req[r].made > 0
  BY Typed DEF DropTopic, At, Steps
<1>2. conv.topic \in Nat /\ req' = [req EXCEPT ![r].pc = "mirror", ![r].topic = conv.topic]
  BY DEF DropTopic, Adopted, TypeInv, DataInv
<1> QED BY <1>1, <1>2, TopicMove DEF Making, Takes

LEMMA MirrorMove ==
    ASSUME TypeInv, NEW r \in Requests, Mirror(r)
    PROVE  /\ req[r].pc = "mirror" /\ req[r].kind = "user"
           /\ Stays(r) /\ req' \in [Requests -> RequestType] /\ Steps(req'[r])
           /\ req'[r].pc = "insert" /\ req'[r].kind = "user" /\ req'[r].made = req[r].made
           /\ ~req'[r].reopened /\ req'[r].id = 0 /\ req'[r].topic = req[r].topic
           /\ req'[r].shut = req[r].shut
<1>1. req[r] \in RequestType /\ req[r].pc = "mirror" /\ req[r].kind = "user" /\ req[r].id = 0
  BY Typed DEF Mirror, At, Steps, RequestType
<1>2. req' = [req EXCEPT ![r].pc = "insert", ![r].reopened = FALSE]
  BY DEF Mirror
<1>3. req'[r] = [req[r] EXCEPT !.pc = "insert", !.reopened = FALSE] /\ Stays(r)
  BY <1>2 DEF TypeInv, ReqInv, Stays
<1>4. /\ req'[r].pc = "insert" /\ ~req'[r].reopened /\ req'[r].kind = "user"
      /\ req'[r].made = req[r].made /\ req'[r].topic = req[r].topic
      /\ req'[r].id = 0 /\ req'[r].shut = req[r].shut /\ req'[r] \in RequestType
  BY <1>1, <1>3 DEF RequestType, Writing
<1>5. Steps(req'[r])
  BY <1>4 DEF Steps, Writing
<1>6. req' \in [Requests -> RequestType]
  BY <1>2, <1>4 DEF TypeInv, ReqInv
<1> QED BY <1>1, <1>3, <1>4, <1>5, <1>6

LEMMA InsertMove ==
    ASSUME TypeInv, NEW r \in Requests, Insert(r)
    PROVE  /\ req[r].pc = "insert" /\ req[r].kind \in {"user", "operator"} /\ req[r].id = 0
           /\ nextId' = nextId + 1
           /\ Stays(r) /\ req' \in [Requests -> RequestType] /\ Steps(req'[r])
           /\ req'[r].pc = "commit" /\ req'[r].kind = req[r].kind
           /\ req'[r].made = req[r].made /\ ~req'[r].reopened /\ ~req[r].reopened
           /\ req'[r].id = nextId /\ req'[r].topic = req[r].topic
           /\ req'[r].shut = req[r].shut
<1>1. req[r] \in RequestType /\ req[r].pc = "insert" /\ req[r].kind \in {"user", "operator"}
      /\ req[r].id = 0 /\ ~req[r].reopened
  BY Typed DEF Insert, Steps, RequestType
<1>2. req' = [req EXCEPT ![r].pc = "commit", ![r].id = nextId] /\ nextId' = nextId + 1
      /\ nextId \in Nat /\ nextId > 0
  BY DEF Insert, TypeInv, DataInv
<1>3. req'[r] = [req[r] EXCEPT !.pc = "commit", !.id = nextId] /\ Stays(r)
  BY <1>2 DEF TypeInv, ReqInv, Stays
<1>4. /\ req'[r].pc = "commit" /\ req'[r].id = nextId /\ req'[r].kind = req[r].kind
      /\ req'[r].made = req[r].made /\ req'[r].topic = req[r].topic
      /\ ~req'[r].reopened /\ req'[r].shut = req[r].shut /\ req'[r] \in RequestType
  <2>1. /\ req'[r].pc = "commit" /\ req'[r].id = nextId /\ req'[r].kind = req[r].kind
        /\ req'[r].made = req[r].made /\ req'[r].topic = req[r].topic
    BY <1>1, <1>3 DEF RequestType
  <2>2. ~req'[r].reopened /\ req'[r].shut = req[r].shut
    BY <1>1, <1>3 DEF RequestType
  <2>3. req'[r] \in RequestType
    <3>1. nextId \in Nat
      BY <1>2
    <3> QED BY <1>1, <1>3, <3>1 DEF RequestType, Writing
  <2> QED BY <2>1, <2>2, <2>3
<1>5. Steps(req'[r])
  BY <1>1, <1>2, <1>4, Typed DEF Steps, Writing
<1>6. req' \in [Requests -> RequestType]
  BY <1>2, <1>4 DEF TypeInv, ReqInv
<1> QED BY <1>1, <1>2, <1>3, <1>4, <1>5, <1>6

LEMMA CommitMove ==
    ASSUME TypeInv, NEW r \in Requests, CommitMessage(r) \/ CommitReply(r)
    PROVE  /\ req[r].pc = "commit" /\ req[r].id > 0 /\ req[r].kind \in {"user", "operator"}
           /\ stored' = stored \cup {[id |-> req[r].id, by |-> req[r].kind]}
           /\ late' = late \cup Untold(req[r].id)
           /\ Stays(r) /\ req' \in [Requests -> RequestType] /\ Steps(req'[r]) /\ Keeps(r)
           /\ req'[r].pc = (IF req[r].kind = "user" THEN "relay" ELSE "publish")
<1> DEFINE s == IF req[r].kind = "user" THEN "relay" ELSE "publish"
<1>1. req[r] \in RequestType /\ req[r].pc = "commit" /\ req[r].kind \in {"user", "operator"}
      /\ req[r].id > 0
  BY Typed DEF CommitMessage, CommitReply, At, Steps
<1>2. /\ req' = [req EXCEPT ![r].pc = s]
      /\ stored' = stored \cup {[id |-> req[r].id, by |-> req[r].kind]}
      /\ late' = late \cup Untold(req[r].id)
  BY DEF CommitMessage, CommitReply, At
<1>3. req'[r] = [req[r] EXCEPT !.pc = s] /\ Stays(r)
  BY <1>2 DEF TypeInv, ReqInv, Stays
<1>4. req'[r].pc = s /\ Keeps(r) /\ req'[r] \in RequestType
  BY <1>1, <1>3 DEF RequestType, Writing, Keeps
<1>5. Steps(req'[r])
  BY <1>1, <1>4, Typed DEF Steps, Writing, Keeps
<1>6. req' \in [Requests -> RequestType]
  BY <1>2, <1>4 DEF TypeInv, ReqInv
<1> QED BY <1>1, <1>2, <1>3, <1>4, <1>5, <1>6

-----------------------------------------------------------------------------
(* Types.                                                                   *)

LEMMA TypeParts == TypeInv => TypeOK
<1> SUFFICES ASSUME TypeInv PROVE TypeOK OBVIOUS
<1>1. begun.messages \in 0 .. MaxMessages /\ MaxMessages \in Nat
  BY SupportAssumption DEF TypeInv, DataInv
<1>2. Cardinality(Unnumbered) \in Nat /\ Cardinality(Untopiced) \in Nat
  BY FS_CardinalityType DEF TypeInv, CountInv
<1>3. nextId \in 1 .. (MaxMessages + 1) /\ made \in 0 .. MaxMessages
  BY <1>1, <1>2 DEF TypeInv, DataInv, CountInv
<1>4. ASSUME NEW r \in Requests
      PROVE  /\ req[r].kind \in {"none", "user", "operator", "close"}
             /\ req[r].pc = "idle" <=> req[r].kind = "none"
             /\ req[r].id \in 0 .. (nextId - 1)
             /\ req[r].pc \in {"commit", "relay", "publish"} => req[r].id > 0
             /\ req[r].reopened => req[r].pc \in {"create", "claim", "drop", "mirror"}
  <2>1. req[r].id \in Nat /\ req[r].kind \in {"none", "user", "operator", "close"}
    BY Typed DEF RequestType
  <2> QED BY <2>1, <1>3, Typed DEF Steps
<1> QED BY <1>3, <1>4 DEF TypeOK, TypeInv, DataInv

LEMMA ReqStep ==
    ASSUME TypeInv, NEW r \in Requests, Stays(r), req' \in [Requests -> RequestType],
           Steps(req'[r]), made' \in Nat, made <= made', nextId' \in Nat, nextId <= nextId',
           req'[r].made <= made', req'[r].id < nextId'
    PROVE  ReqInv'
<1>1. ASSUME NEW q \in Requests PROVE Steps(req'[q]) /\ req'[q].made <= made' /\ req'[q].id < nextId'
  <2>1. CASE q = r
    BY <2>1
  <2>2. CASE q # r
    <3>1. req'[q] = req[q] /\ Steps(req[q]) /\ req[q].made <= made /\ req[q].id < nextId
      BY <2>2, Typed DEF Stays
    <3>2. req[q].made \in Nat /\ req[q].id \in Nat /\ made \in Nat /\ nextId \in Nat
      BY DEF TypeInv, ReqInv, DataInv, RequestType
    <3> QED BY <3>1, <3>2
  <2> QED BY <2>1, <2>2
<1> QED BY <1>1 DEF ReqInv, Steps

\* A step that begins no message keeps the counts.
LEMMA CountSame ==
    ASSUME TypeInv, Unnumbered' \subseteq Unnumbered, Untopiced' \subseteq Untopiced,
           nextId' = nextId, made' = made, begun'.messages = begun.messages
    PROVE  CountInv'
<1>1. IsFiniteSet(Unnumbered') /\ Cardinality(Unnumbered') <= Cardinality(Unnumbered)
  BY FS_Subset DEF TypeInv, CountInv
<1>2. IsFiniteSet(Untopiced') /\ Cardinality(Untopiced') <= Cardinality(Untopiced)
  BY FS_Subset DEF TypeInv, CountInv
<1>3. /\ Cardinality(Unnumbered) \in Nat /\ Cardinality(Unnumbered') \in Nat
      /\ Cardinality(Untopiced) \in Nat /\ Cardinality(Untopiced') \in Nat
  BY <1>1, <1>2, FS_CardinalityType DEF TypeInv, CountInv
<1>4. nextId \in Nat /\ made \in Nat /\ begun.messages \in Nat
  BY SupportAssumption DEF TypeInv, DataInv
<1> QED BY <1>1, <1>2, <1>3, <1>4 DEF CountInv, TypeInv

LEMMA CountStep ==
    ASSUME TypeInv, NEW r \in Requests, Stays(r), nextId' = nextId, made' = made,
           UNCHANGED begun, req'[r].pc # "create",
           req'[r].kind \in {"user", "operator"} /\ ~Numbered(r)' => r \in Unnumbered
    PROVE  CountInv'
<1>1. Unnumbered' \subseteq Unnumbered
  BY DEF Unnumbered, Stays, Numbered
<1>2. Untopiced' \subseteq Untopiced
  BY DEF Untopiced, Stays
<1> QED BY <1>1, <1>2, CountSame

\* One more message is begun.
LEMMA CountBegin ==
    ASSUME TypeInv, NEW r \in Requests, Stays(r), nextId' = nextId, made' = made,
           begun' = [begun EXCEPT !.messages = @ + 1]
    PROVE  CountInv'
<1> DEFINE S == Unnumbered \cup {r}
           T == Untopiced \cup {r}
<1>1. Unnumbered' \in SUBSET S /\ Untopiced' \in SUBSET T
  BY DEF Unnumbered, Untopiced, Stays, Numbered
<1>2. IsFiniteSet(Unnumbered) /\ IsFiniteSet(Untopiced)
  BY DEF TypeInv, CountInv
<1>3. /\ IsFiniteSet(S) /\ Cardinality(S) <= Cardinality(Unnumbered) + 1
      /\ IsFiniteSet(T) /\ Cardinality(T) <= Cardinality(Untopiced) + 1
      /\ Cardinality(S) \in Nat /\ Cardinality(T) \in Nat
      /\ Cardinality(Unnumbered) \in Nat /\ Cardinality(Untopiced) \in Nat
  <2>1. IsFiniteSet(S) /\ (Cardinality(S) = Cardinality(Unnumbered) \/ Cardinality(S) = Cardinality(Unnumbered) + 1)
    BY <1>2, FS_AddElement
  <2>2. IsFiniteSet(T) /\ (Cardinality(T) = Cardinality(Untopiced) \/ Cardinality(T) = Cardinality(Untopiced) + 1)
    BY <1>2, FS_AddElement
  <2> HIDE DEF S, T
  <2>3. /\ Cardinality(S) \in Nat /\ Cardinality(T) \in Nat
        /\ Cardinality(Unnumbered) \in Nat /\ Cardinality(Untopiced) \in Nat
    BY <1>2, <2>1, <2>2, FS_CardinalityType
  <2> QED BY <2>1, <2>2, <2>3
<1> HIDE DEF S, T
<1>4. /\ IsFiniteSet(Unnumbered') /\ Cardinality(Unnumbered') <= Cardinality(S)
      /\ IsFiniteSet(Untopiced') /\ Cardinality(Untopiced') <= Cardinality(T)
  BY <1>1, <1>3, FS_Subset
<1>5. Cardinality(Unnumbered') \in Nat /\ Cardinality(Untopiced') \in Nat
  BY <1>4, FS_CardinalityType
<1>6. begun'.messages = begun.messages + 1 /\ begun.messages \in Nat
  BY SupportAssumption DEF TypeInv, DataInv
<1>7. nextId \in Nat /\ made \in Nat
  BY DEF TypeInv, DataInv
<1> QED BY <1>3, <1>4, <1>5, <1>6, <1>7 DEF CountInv, TypeInv

LEMMA UserType == ASSUME TypeInv, NEW r \in Requests, UserWrites(r) PROVE TypeInv'
<1>1. ReqInv'
  <2>1. made' = made /\ nextId' = nextId /\ made \in Nat /\ nextId \in Nat \ {0}
    BY DEF UserWrites, TypeInv, DataInv
  <2> QED BY <2>1, UserMove, ReqStep
<1>2. CountInv'
  BY UserMove, CountBegin DEF UserWrites
<1>3. conv' = [conv EXCEPT !.status = "OPEN"]
  BY Zenon DEF UserWrites, Reopen
<1>4. begun' \in [messages : 0 .. MaxMessages, closes : Nat, connects : Nat]
  <2>1. MaxMessages \in Nat /\ begun \in [messages : 0 .. MaxMessages, closes : Nat, connects : Nat]
    BY SupportAssumption DEF TypeInv, DataInv
  <2>2. begun.messages < MaxMessages /\ begun' = [begun EXCEPT !.messages = @ + 1]
    BY DEF UserWrites
  <2> QED BY <2>1, <2>2
<1>5. behind' \in BOOLEAN
  BY Zenon DEF UserWrites, TypeInv, DataInv
<1> QED BY <1>1, <1>2, <1>3, <1>4, <1>5 DEF UserWrites, TypeInv, DataInv, site

LEMMA OperatorType == ASSUME TypeInv, NEW r \in Requests, OperatorWrites(r) PROVE TypeInv'
<1>1. ReqInv'
  <2>1. made' = made /\ nextId' = nextId /\ made \in Nat /\ nextId \in Nat \ {0}
    BY DEF OperatorWrites, TypeInv, DataInv
  <2> QED BY <2>1, OperatorMove, ReqStep
<1>2. CountInv'
  BY OperatorMove, CountBegin DEF OperatorWrites
<1>3. begun' \in [messages : 0 .. MaxMessages, closes : Nat, connects : Nat]
  <2>1. MaxMessages \in Nat /\ begun \in [messages : 0 .. MaxMessages, closes : Nat, connects : Nat]
    BY SupportAssumption DEF TypeInv, DataInv
  <2>2. begun.messages < MaxMessages /\ begun' = [begun EXCEPT !.messages = @ + 1]
    BY DEF OperatorWrites
  <2> QED BY <2>1, <2>2
<1> QED BY <1>1, <1>2, <1>3 DEF OperatorWrites, TypeInv, DataInv, site, history

LEMMA ShutType == ASSUME TypeInv, NEW r \in Requests, Shut(r), req[r].pc = "idle" PROVE TypeInv'
<1>1. made' = made /\ nextId' = nextId /\ made \in Nat /\ nextId \in Nat \ {0}
  BY DEF Shut, TypeInv, DataInv
<1>2. ReqInv'
  <2>1. ASSUME NEW q \in Requests PROVE Steps(req'[q]) /\ req'[q].made <= made /\ req'[q].id < nextId
    BY <1>1, ShutMove, Typed
  <2> QED BY <1>1, <2>1, ShutMove DEF ReqInv, Steps
<1>3. conv' = [conv EXCEPT !.status = "CLOSED"]
  BY DEF Shut
<1>4. begun'.messages = begun.messages
      /\ begun' \in [messages : 0 .. MaxMessages, closes : Nat, connects : Nat]
  BY DEF Shut, TypeInv, DataInv
<1>5. CountInv'
  <2>1. Unnumbered' \subseteq Unnumbered /\ Untopiced' \subseteq Untopiced
    BY ShutMove DEF Unnumbered, Untopiced, Numbered
  <2> QED BY <1>1, <1>4, <2>1, CountSame
<1>6. behind' \in BOOLEAN
  BY Zenon DEF Shut, TypeInv, DataInv
<1> QED BY <1>2, <1>3, <1>4, <1>5, <1>6 DEF Shut, TypeInv, DataInv, site

LEMMA CreateType == ASSUME TypeInv, NEW r \in Requests, CreateTopic(r) PROVE TypeInv'
<1>1. UNCHANGED <<conv, nextId, stored, posts, sub, tab, begun, late, unposted, stray>>
  BY DEF CreateTopic, site
<1>2. made \in Nat /\ nextId \in Nat \ {0} /\ req[r].pc = "create" /\ r \in Untopiced
      /\ r \in Unnumbered
  BY Typed DEF TypeInv, DataInv, CreateTopic, At, Untopiced, Unnumbered, Numbered
<1>3. CASE Drop(r)
  <2>1. UNCHANGED <<topics, made>> /\ behind' \in BOOLEAN
    <3>1. req[r].reopened \in BOOLEAN /\ behind \in BOOLEAN
      BY Typed DEF RequestType, TypeInv, DataInv
    <3>2. req'[r].pc # "claim"
      BY <1>3, DropMove
    <3>3. req \in [Requests -> RequestType]
      BY DEF TypeInv, ReqInv
    <3>4. ~(req' = [req EXCEPT ![r].pc = "claim", ![r].made = made'])
      BY <3>2, <3>3 DEF RequestType
    <3>5. UNCHANGED <<topics, made>> /\ behind' = (behind \/ req[r].reopened)
      BY <3>4, Zenon DEF CreateTopic
    <3> QED BY <3>1, <3>5, Zenon
  <2>2. ReqInv'
    BY <1>1, <1>2, <1>3, <2>1, DropMove, ReqStep
  <2>3. CountInv'
    BY <1>1, <1>2, <1>3, <2>1, DropMove, CountStep DEF Numbered
  <2> QED BY <1>1, <2>1, <2>2, <2>3 DEF TypeInv, DataInv
<1>4. CASE ~Drop(r)
  <2>1. /\ Stays(r) /\ made' = made + 1 /\ topics' = topics \cup {made'}
        /\ UNCHANGED behind /\ req'[r].pc = "claim" /\ req'[r].kind = "user"
    BY <1>4, CreateMove
  <2>2. ReqInv'
    BY <1>1, <1>2, <1>4, CreateMove, ReqStep
  <2>3. CountInv'
    <3>1. Untopiced' = Untopiced \ {r} /\ Unnumbered' = Unnumbered
      BY <1>2, <2>1 DEF Untopiced, Unnumbered, Stays, Numbered
    <3>2. IsFiniteSet(Untopiced') /\ Cardinality(Untopiced') = Cardinality(Untopiced) - 1
      BY <1>2, <3>1, FS_RemoveElement DEF TypeInv, CountInv
    <3>3. Cardinality(Untopiced) \in Nat /\ begun.messages \in Nat
      BY FS_CardinalityType, SupportAssumption DEF TypeInv, CountInv, DataInv
    <3> QED BY <1>1, <1>2, <2>1, <3>1, <3>2, <3>3 DEF TypeInv, CountInv
  <2>4. conv.topic \in 0 .. made' /\ conv' = conv
    BY <1>1, <1>2, <2>1 DEF TypeInv, DataInv
  <2>5. conv' \in [status : {"NONE", "OPEN", "CLOSED"}, topic : 0 .. made',
                   at : {"never", "fresh", "stale"}]
    BY <2>4 DEF TypeInv, DataInv
  <2>6. 1 .. made \subseteq 1 .. made' /\ made' \in 1 .. made'
    BY <1>2, <2>1
  <2>7. posts \subseteq [topic : 1 .. made', id : 1 .. (nextId - 1)]
    BY <2>6 DEF TypeInv, DataInv
  <2>8. topics' \subseteq 1 .. made' /\ stray \subseteq 1 .. made'
    BY <2>1, <2>6 DEF TypeInv, DataInv
  <2> QED BY <1>1, <1>2, <2>1, <2>2, <2>3, <2>5, <2>7, <2>8 DEF TypeInv, DataInv
<1> QED BY <1>3, <1>4

LEMMA ClaimType == ASSUME TypeInv, NEW r \in Requests, ClaimTopic(r) PROVE TypeInv'
<1>1. UNCHANGED <<nextId, stored, topics, made, posts, sub, tab, begun, late, behind, unposted,
                  stray>>
  BY DEF ClaimTopic, site, history
<1>2. made \in Nat /\ nextId \in Nat \ {0}
  BY DEF TypeInv, DataInv
<1>3. ReqInv' /\ CountInv'
  <2>1. req[r].made <= made /\ r \in Unnumbered
    BY ClaimMove, Typed DEF Unnumbered, Numbered
  <2> QED BY <1>1, <1>2, <2>1, ClaimMove, ReqStep, CountStep
<1>4. conv' \in [status : {"NONE", "OPEN", "CLOSED"}, topic : 0 .. made,
                 at : {"never", "fresh", "stale"}]
  <2>1. req[r].made \in 0 .. made
    BY <1>2, Typed DEF RequestType
  <2>2. conv \in [status : {"NONE", "OPEN", "CLOSED"}, topic : 0 .. made,
                  at : {"never", "fresh", "stale"}]
    BY DEF TypeInv, DataInv
  <2> QED BY <2>1, <2>2, ClaimMove
<1> QED BY <1>1, <1>3, <1>4 DEF TypeInv, DataInv

LEMMA DropTopicType == ASSUME TypeInv, NEW r \in Requests, DropTopic(r) PROVE TypeInv'
<1>1. UNCHANGED <<conv, nextId, stored, made, posts, sub, tab, begun, late, behind, unposted>>
  BY DEF DropTopic, site
<1>2. made \in Nat /\ nextId \in Nat \ {0}
  BY DEF TypeInv, DataInv
<1>3. ReqInv' /\ CountInv'
  <2>1. req[r].made <= made /\ r \in Unnumbered
    BY DropTopicMove, Typed DEF Unnumbered, Numbered
  <2> QED BY <1>1, <1>2, <2>1, DropTopicMove, ReqStep, CountStep
<1>4. topics' \subseteq 1 .. made /\ stray' \subseteq 1 .. made
  <2>1. req[r].made \in 1 .. made
    BY <1>2, DropTopicMove, Typed DEF RequestType
  <2> QED BY <2>1 DEF DropTopic, TypeInv, DataInv
<1> QED BY <1>1, <1>3, <1>4 DEF TypeInv, DataInv

\* An event is appended to the subscription, or is not.
LEMMA Appended ==
    ASSUME TypeInv, NEW e \in Events, Publish(e),
           e.kind = "message" => e.is \in 1 .. (nextId - 1)
    PROVE  /\ sub' \in Seq(Events)
           /\ \A k \in DOMAIN sub' :
                \/ k \in DOMAIN sub /\ sub'[k] = sub[k]
                \/ k \notin DOMAIN sub /\ sub'[k] = e
           /\ \A k \in DOMAIN sub : k \in DOMAIN sub' /\ sub'[k] = sub[k]
           /\ \A k \in DOMAIN sub' : sub'[k].kind = "message" => sub'[k].is \in 1 .. (nextId - 1)
           /\ DOMAIN sub = 1 .. Len(sub) /\ Len(sub) \in Nat
           /\ IF Reaches THEN DOMAIN sub' = 1 .. (Len(sub) + 1) /\ sub'[Len(sub) + 1] = e
              ELSE sub' = sub
<1>1. sub \in Seq(Events) /\ Len(sub) \in Nat /\ DOMAIN sub = 1 .. Len(sub)
  BY LenProperties DEF TypeInv, DataInv
<1>2. \A k \in DOMAIN sub : sub[k].kind = "message" => sub[k].is \in 1 .. (nextId - 1)
  BY DEF TypeInv, DataInv
<1>3. CASE ~Reaches
  BY <1>1, <1>2, <1>3 DEF Publish
<1>4. CASE Reaches
  <2>1. sub' = Append(sub, e)
    BY <1>4 DEF Publish
  <2>2. /\ sub' \in Seq(Events) /\ Len(sub') = Len(sub) + 1 /\ sub'[Len(sub) + 1] = e
        /\ \A i \in 1 .. Len(sub) : sub'[i] = sub[i]
    BY <1>1, <2>1, AppendProperties
  <2>3. DOMAIN sub' = 1 .. (Len(sub) + 1)
    BY <2>2, LenProperties
  <2> QED BY <1>1, <1>2, <1>4, <2>2, <2>3
<1> QED BY <1>3, <1>4

LEMMA MirrorType == ASSUME TypeInv, NEW r \in Requests, Mirror(r) PROVE TypeInv'
<1>1. UNCHANGED <<conv, nextId, stored, topics, made, posts, tab, begun, late, unposted, stray>>
  BY DEF Mirror
<1>2. made \in Nat /\ nextId \in Nat \ {0}
  BY DEF TypeInv, DataInv
<1>3. ReqInv' /\ CountInv'
  <2>1. req[r].made <= made /\ r \in Unnumbered
    BY MirrorMove, Typed DEF Unnumbered, Numbered
  <2> QED BY <1>1, <1>2, <2>1, MirrorMove, ReqStep, CountStep
<1>4. /\ sub' \in Seq(Events)
      /\ \A k \in DOMAIN sub' : sub'[k].kind = "message" => sub'[k].is \in 1 .. (nextId - 1)
  <2> DEFINE e == [kind |-> "status", is |-> "OPEN"]
  <2>1. e \in Events /\ e.kind # "message"
    BY DEF Events
  <2>2. Publish(e) \/ UNCHANGED sub
    BY DEF Mirror
  <2> HIDE DEF e
  <2> QED BY <2>1, <2>2, Appended DEF TypeInv, DataInv
<1>5. behind' \in BOOLEAN
  BY DEF Mirror, TypeInv, DataInv
<1> QED BY <1>1, <1>3, <1>4, <1>5 DEF TypeInv, DataInv

LEMMA InsertType == ASSUME TypeInv, NEW r \in Requests, Insert(r) PROVE TypeInv'
<1>1. UNCHANGED <<conv, stored, topics, made, posts, sub, tab, begun, late, behind, unposted,
                  stray>>
  BY DEF Insert, site, history
<1>2. made \in Nat /\ nextId \in Nat \ {0} /\ nextId' = nextId + 1 /\ nextId' \in Nat \ {0}
  <2>1. nextId' = nextId + 1 /\ nextId \in Nat \ {0}
    BY InsertMove DEF TypeInv, DataInv
  <2>2. made \in Nat
    BY DEF TypeInv, DataInv
  <2> QED BY <2>1, <2>2
<1>3. ReqInv'
  BY <1>1, <1>2, InsertMove, ReqStep, Typed
<1>4. CountInv'
  <2>1. r \in Unnumbered /\ Unnumbered' = Unnumbered \ {r} /\ Untopiced' = Untopiced
    BY InsertMove DEF Untopiced, Unnumbered, Stays, Numbered
  <2>2. IsFiniteSet(Unnumbered') /\ Cardinality(Unnumbered') = Cardinality(Unnumbered) - 1
    BY <2>1, FS_RemoveElement DEF TypeInv, CountInv
  <2>3. Cardinality(Unnumbered) \in Nat /\ begun.messages \in Nat
    BY FS_CardinalityType, SupportAssumption DEF TypeInv, CountInv, DataInv
  <2> QED BY <1>1, <1>2, <2>1, <2>2, <2>3 DEF TypeInv, CountInv
<1>5. 1 .. (nextId - 1) \subseteq 1 .. (nextId' - 1)
  BY <1>2
<1>6. stored \subseteq [id : 1 .. (nextId' - 1), by : {"user", "operator"}]
  BY <1>5 DEF TypeInv, DataInv
<1>7. posts \subseteq [topic : 1 .. made, id : 1 .. (nextId' - 1)]
  BY <1>5 DEF TypeInv, DataInv
<1>8. \A k \in DOMAIN sub : sub[k].kind = "message" => sub[k].is \in 1 .. (nextId' - 1)
  BY <1>5 DEF TypeInv, DataInv
<1>9. tab \in [pc : {"off", "subscribed", "replayed", "live"},
               got : SUBSET (1 .. (nextId' - 1)), cursor : Nat,
               banner : {"NONE", "OPEN", "CLOSED"}, left : SUBSET (1 .. (nextId' - 1))]
  <2>1. tab \in [pc : {"off", "subscribed", "replayed", "live"},
                 got : SUBSET (1 .. (nextId - 1)), cursor : Nat,
                 banner : {"NONE", "OPEN", "CLOSED"}, left : SUBSET (1 .. (nextId - 1))]
    BY DEF TypeInv, DataInv
  <2> QED BY <1>5, <2>1
<1> QED BY <1>1, <1>2, <1>3, <1>4, <1>6, <1>7, <1>8, <1>9 DEF TypeInv, DataInv

\* Ids are numbers.
LEMMA UntoldType == ASSUME TypeInv, NEW n PROVE Untold(n) \subseteq Nat
BY Typed DEF Untold, RequestType

LEMMA CommitType ==
    ASSUME TypeInv, NEW r \in Requests, CommitMessage(r) \/ CommitReply(r) PROVE TypeInv'
<1>1. UNCHANGED <<nextId, topics, made, posts, sub, tab, begun, behind, unposted, stray>>
  BY DEF CommitMessage, CommitReply, site
<1>2. made \in Nat /\ nextId \in Nat \ {0} /\ req[r].id \in 1 .. (nextId - 1)
      /\ req'[r].id = req[r].id /\ req'[r].made = req[r].made /\ req'[r].kind = req[r].kind
      /\ req[r].made <= made
  <2>1. made \in Nat /\ nextId \in Nat \ {0}
    BY DEF TypeInv, DataInv
  <2>2. req[r].id \in Nat /\ req[r].id < nextId /\ req[r].made <= made
    BY Typed DEF RequestType
  <2>3. req[r].id > 0 /\ Keeps(r)
    BY CommitMove
  <2> QED BY <2>1, <2>2, <2>3 DEF Keeps
<1>3. ReqInv' /\ CountInv'
  <2>1. Numbered(r)' /\ req'[r].pc # "create"
    BY CommitMove DEF Numbered
  <2>2. req'[r].made <= made' /\ req'[r].id < nextId'
    BY <1>1, <1>2
  <2> QED BY <1>1, <1>2, <2>1, <2>2, CommitMove, ReqStep, CountStep
<1>4. conv' \in [status : {"NONE", "OPEN", "CLOSED"}, topic : 0 .. made,
                 at : {"never", "fresh", "stale"}]
  BY DEF CommitMessage, CommitReply, TypeInv, DataInv
<1>5. stored' \subseteq [id : 1 .. (nextId - 1), by : {"user", "operator"}]
  <2>1. [id |-> req[r].id, by |-> req[r].kind] \in [id : 1 .. (nextId - 1), by : {"user", "operator"}]
    BY <1>2, CommitMove
  <2> QED BY <2>1, CommitMove DEF TypeInv, DataInv
<1>6. late' \subseteq Nat
  BY CommitMove, UntoldType DEF TypeInv, DataInv
<1> QED BY <1>1, <1>3, <1>4, <1>5, <1>6 DEF TypeInv, DataInv

LEMMA DropParts ==
    ASSUME TypeInv, NEW r \in Requests, Drop(r), UNCHANGED <<nextId, made, begun>>
    PROVE  ReqInv' /\ CountInv'
<1>1. made \in Nat /\ nextId \in Nat \ {0}
  BY DEF TypeInv, DataInv
<1> QED BY <1>1, DropMove, ReqStep, CountStep

LEMMA RelayType == ASSUME TypeInv, TopicInv, NEW r \in Requests, Relay(r) PROVE TypeInv'
<1>1. UNCHANGED <<conv, nextId, stored, topics, made, sub, tab, begun, late, behind, stray>>
  BY DEF Relay, site
<1>2. req[r].id \in 1 .. (nextId - 1)
  <2>1. req[r].id \in Nat /\ req[r].id < nextId
    BY Typed DEF RequestType
  <2>2. req[r].id > 0 /\ nextId \in Nat
    BY Typed DEF Relay, At, Steps, TypeInv, DataInv
  <2> QED BY <2>1, <2>2
<1>3. req[r].topic \in 1 .. made
  <2>1. req[r].topic = conv.topic /\ conv.topic # 0
    BY DEF Relay, At, TopicInv
  <2> QED BY <2>1 DEF TypeInv, DataInv
<1>4. posts' \subseteq posts \cup {[topic |-> req[r].topic, id |-> req[r].id]}
      /\ unposted' \subseteq unposted \cup {req[r].id}
  BY Zenon DEF Relay
<1>5. posts' \subseteq [topic : 1 .. made, id : 1 .. (nextId - 1)]
  <2>1. [topic |-> req[r].topic, id |-> req[r].id] \in [topic : 1 .. made, id : 1 .. (nextId - 1)]
    BY <1>2, <1>3
  <2> QED BY <1>4, <2>1 DEF TypeInv, DataInv
<1>6. unposted' \subseteq Nat
  BY <1>2, <1>4 DEF TypeInv, DataInv
<1>7. ReqInv' /\ CountInv'
  BY <1>1, DropParts DEF Relay
<1> QED BY <1>1, <1>5, <1>6, <1>7 DEF TypeInv, DataInv

LEMMA PublishType == ASSUME TypeInv, NEW r \in Requests, PublishReply(r) PROVE TypeInv'
<1>1. UNCHANGED <<conv, nextId, stored, topics, made, posts, tab, begun, behind, unposted, stray>>
  BY DEF PublishReply
<1>2. req[r].id \in Nat /\ req[r].id < nextId /\ req[r].id > 0 /\ nextId \in Nat
  BY Typed DEF PublishReply, At, Steps, TypeInv, DataInv, RequestType
<1>3. /\ sub' \in Seq(Events)
      /\ \A k \in DOMAIN sub' : sub'[k].kind = "message" => sub'[k].is \in 1 .. (nextId - 1)
  <2> DEFINE e == [kind |-> "message", is |-> req[r].id]
  <2>1. e \in Events /\ e.is = req[r].id
    BY <1>2 DEF Events
  <2>2. Publish(e) \/ UNCHANGED sub
    BY DEF PublishReply
  <2> HIDE DEF e
  <2>3. CASE Publish(e)
    <3>1. e.is \in 1 .. (nextId - 1)
      BY <1>2, <2>1
    <3> QED BY <2>1, <2>3, <3>1, Appended
  <2>4. CASE UNCHANGED sub
    BY <1>1, <2>4 DEF TypeInv, DataInv
  <2> QED BY <2>2, <2>3, <2>4
<1>4. late' \subseteq Nat
  BY <1>2, UntoldType DEF PublishReply, TypeInv, DataInv
<1>5. ReqInv' /\ CountInv'
  BY <1>1, DropParts DEF PublishReply
<1> QED BY <1>1, <1>3, <1>4, <1>5 DEF TypeInv, DataInv

LEMMA AnnounceType == ASSUME TypeInv, NEW r \in Requests, Announce(r) PROVE TypeInv'
<1>1. UNCHANGED <<conv, nextId, stored, topics, made, posts, tab, begun, late, unposted, stray>>
  BY DEF Announce
<1>2. /\ sub' \in Seq(Events)
      /\ \A k \in DOMAIN sub' : sub'[k].kind = "message" => sub'[k].is \in 1 .. (nextId - 1)
  <2> DEFINE e == [kind |-> "status", is |-> "CLOSED"]
  <2>1. e \in Events /\ e.kind # "message"
    BY DEF Events
  <2>2. Publish(e) \/ UNCHANGED sub
    BY DEF Announce
  <2> HIDE DEF e
  <2> QED BY <2>1, <2>2, Appended DEF TypeInv, DataInv
<1>3. behind' \in BOOLEAN
  BY DEF Announce, TypeInv, DataInv
<1>4. ReqInv' /\ CountInv'
  BY <1>1, DropParts DEF Announce
<1> QED BY <1>1, <1>2, <1>3, <1>4 DEF TypeInv, DataInv

LEMMA CrashType == ASSUME TypeInv, NEW r \in Requests, Crash(r) PROVE TypeInv'
<1>1. UNCHANGED <<conv, nextId, stored, topics, made, posts, sub, tab, begun>>
  BY DEF Crash, site
<1>2. behind' \in BOOLEAN
  BY Zenon DEF Crash, TypeInv, DataInv
<1>3. req[r].id \in Nat
  BY Typed DEF RequestType
<1>4. late' \subseteq Nat /\ unposted' \subseteq Nat
  BY <1>3 DEF Crash, TypeInv, DataInv
<1>5. stray' \subseteq 1 .. made
  <2>1. Making(r) => req[r].made \in 1 .. made
    <3>1. made \in Nat
      BY DEF TypeInv, DataInv
    <3> QED BY <3>1, Typed DEF Making, Steps, RequestType
  <2> QED BY <2>1 DEF Crash, Making, TypeInv, DataInv
<1>6. ReqInv' /\ CountInv'
  BY <1>1, DropParts DEF Crash
<1> QED BY <1>1, <1>2, <1>4, <1>5, <1>6 DEF TypeInv, DataInv

\* A nonempty set of numbers below a bound has a maximum.
LEMMA MaxIn ==
    ASSUME NEW n \in Nat, NEW S \in SUBSET (0 .. n), S # {}
    PROVE  Max(S) \in S /\ \A x \in S : x <= Max(S)
<1> DEFINE B == {u \in Nat : \A x \in S : x <= u}
<1>1. n \in B
  OBVIOUS
<1>2. PICK m \in B : \A u \in B : ~(u < m)
  <2>1. IsWellFoundedOn(OpToRel(<, Nat), Nat)
    BY NatLessThanWellFounded
  <2>2. PICK m \in B : \A u \in B : ~(<<u, m>> \in OpToRel(<, Nat))
    BY <1>1, <2>1, WFMin
  <2> QED BY <2>2 DEF OpToRel
<1>3. m \in S
  <2>1. ASSUME m \notin S PROVE FALSE
    <3>1. \A x \in S : x < m
      BY <2>1
    <3>2. m > 0
      <4>1. PICK x \in S : TRUE
        OBVIOUS
      <4>2. x \in Nat /\ x < m /\ m \in Nat
        BY <3>1, <4>1
      <4> QED BY <4>2
    <3>3. m - 1 \in B
      BY <3>1, <3>2
    <3> QED BY <1>2, <3>2, <3>3
  <2> QED BY <2>1
<1>4. \A x \in S : m >= x
  BY <1>2
<1>5. Max(S) = CHOOSE x \in S : \A y \in S : x >= y
  BY DEF Max
<1>6. Max(S) \in S /\ \A y \in S : Max(S) >= y
  BY <1>3, <1>4, <1>5
<1> QED BY <1>6

\* The cursor goes to the highest id replayed, and the rest of the page is left.
LEMMA CatchUpMove ==
    ASSUME TypeInv, CatchUp
    PROVE  /\ tab'.pc = "replayed" /\ tab'.got = tab.got \cup Missed(tab.cursor)
           /\ tab'.banner = (IF conv.status = "NONE" THEN tab.banner ELSE conv.status)
           /\ tab'.left = {i \in tab.left : i <= tab.cursor}
                          \cup (Ids(tab.cursor) \ Missed(tab.cursor))
           /\ Ids(tab.cursor) \subseteq 1 .. (nextId - 1) /\ Missed(tab.cursor) \subseteq Ids(tab.cursor)
           /\ tab'.cursor \in {tab.cursor} \cup Missed(tab.cursor)
<1>1. Ids(tab.cursor) \subseteq 1 .. (nextId - 1) /\ nextId \in Nat
  BY DEF Ids, TypeInv, DataInv
<1>2. Missed(tab.cursor) \subseteq Ids(tab.cursor)
  BY DEF Missed
<1>3. Missed(tab.cursor) \in SUBSET (0 .. nextId)
  BY <1>1, <1>2
<1> DEFINE S == Missed(tab.cursor)
           c == IF S = {} THEN tab.cursor ELSE Max(S)
           left == {i \in tab.left : i <= tab.cursor} \cup (Ids(tab.cursor) \ S)
<1>4. tab' = [pc |-> "replayed", got |-> tab.got \cup S, cursor |-> c,
              banner |-> IF conv.status = "NONE" THEN tab.banner ELSE conv.status,
              left |-> left]
  BY Zenon DEF CatchUp
<1>5. S # {} => c \in S
  BY <1>1, <1>3, MaxIn
<1>6. S = {} => c = tab.cursor
  OBVIOUS
<1> HIDE DEF c, left
<1>7. /\ tab'.pc = "replayed" /\ tab'.got = tab.got \cup S /\ tab'.cursor = c
      /\ tab'.banner = (IF conv.status = "NONE" THEN tab.banner ELSE conv.status)
      /\ tab'.left = left
  BY <1>4, Zenon
<1>8. c \in {tab.cursor} \cup S
  BY <1>5, <1>6
<1> QED BY <1>1, <1>2, <1>7, <1>8, Zenon DEF left

LEMMA CatchUpType == ASSUME TypeInv, CatchUp PROVE TypeInv'
<1>1. UNCHANGED <<conv, nextId, stored, topics, made, posts, req, sub, begun, late, unposted, stray>>
  BY DEF CatchUp
<1>2. ReqInv' /\ CountInv'
  BY <1>1 DEF TypeInv, ReqInv, CountInv, Unnumbered, Untopiced, Numbered
<1>3. behind' \in BOOLEAN
  BY Zenon DEF CatchUp, TypeInv, DataInv
<1>4. tab'.cursor \in Nat /\ tab'.cursor \in {0} \cup tab'.got
  BY CatchUpMove DEF TypeInv, DataInv
<1>5. tab' \in [pc : {"off", "subscribed", "replayed", "live"},
                got : SUBSET (1 .. (nextId - 1)), cursor : Nat,
                banner : {"NONE", "OPEN", "CLOSED"}, left : SUBSET (1 .. (nextId - 1))]
  <2>1. /\ tab'.got \in SUBSET (1 .. (nextId - 1)) /\ tab'.banner \in {"NONE", "OPEN", "CLOSED"}
        /\ tab'.left \in SUBSET (1 .. (nextId - 1))
    BY CatchUpMove DEF TypeInv, DataInv
  <2>2. tab' = [pc |-> tab'.pc, got |-> tab'.got, cursor |-> tab'.cursor, banner |-> tab'.banner,
                left |-> tab'.left]
    BY DEF CatchUp
  <2>3. tab'.pc = "replayed"
    BY CatchUpMove
  <2> QED BY <1>4, <2>1, <2>2, <2>3
<1> QED BY <1>1, <1>2, <1>3, <1>4, <1>5 DEF TypeInv, DataInv

\* The first event leaves the subscription.
LEMMA ForwardMove ==
    ASSUME TypeInv, Forward
    PROVE  /\ Len(sub) \in Nat /\ Len(sub) >= 1 /\ DOMAIN sub = 1 .. Len(sub)
           /\ sub[1] \in Events
           /\ sub' \in Seq(Events) /\ DOMAIN sub' = 1 .. (Len(sub) - 1)
           /\ \A k \in DOMAIN sub' : k + 1 \in DOMAIN sub /\ sub'[k] = sub[k + 1]
           /\ tab.pc = "live" /\ tab'.pc = "live"
           /\ \/ /\ sub[1].kind = "message" /\ sub[1].is \in 1 .. (nextId - 1)
                 /\ tab'.got = tab.got \cup {sub[1].is} /\ tab'.cursor = sub[1].is
                 /\ tab'.banner = tab.banner
              \/ /\ sub[1].kind = "status" /\ tab'.got = tab.got /\ tab'.cursor = tab.cursor
                 /\ sub[1].is \in {"OPEN", "CLOSED"} /\ tab'.banner = sub[1].is
           /\ tab'.left = tab.left
<1>1. sub \in Seq(Events) /\ sub # <<>> /\ sub' = Tail(sub)
  BY DEF Forward, TypeInv, DataInv
<1>2. /\ Len(sub) \in Nat /\ Len(sub) >= 1 /\ DOMAIN sub = 1 .. Len(sub)
      /\ Head(sub) = sub[1] /\ sub[1] \in Events
  BY <1>1, LenProperties, HeadTailProperties, EmptySeq, ElementOfSeq
<1>3. /\ sub' \in Seq(Events) /\ Len(sub') = Len(sub) - 1
      /\ \A i \in 1 .. Len(sub') : sub'[i] = sub[i + 1]
  BY <1>1, HeadTailProperties
<1>4. DOMAIN sub' = 1 .. (Len(sub) - 1)
  BY <1>3, LenProperties
<1>5. \A k \in DOMAIN sub' : k + 1 \in DOMAIN sub /\ sub'[k] = sub[k + 1]
  BY <1>2, <1>3, <1>4
<1>6. tab.pc = "live"
  BY DEF Forward
<1>7. CASE sub[1].kind = "message" /\ tab' = [tab EXCEPT !.got = @ \cup {sub[1].is}, !.cursor = sub[1].is]
  <2>1. sub[1].is \in 1 .. (nextId - 1)
    BY <1>2, <1>7 DEF TypeInv, DataInv
  <2>2. /\ tab'.got = tab.got \cup {sub[1].is} /\ tab'.cursor = sub[1].is
        /\ tab'.banner = tab.banner /\ tab'.pc = "live" /\ tab'.left = tab.left
    BY <1>6, <1>7 DEF TypeInv, DataInv
  <2> QED BY <1>2, <1>3, <1>4, <1>5, <1>6, <1>7, <2>1, <2>2
<1>8. CASE sub[1].kind = "status" /\ tab' = [tab EXCEPT !.banner = sub[1].is]
  <2>1. sub[1].is \in {"OPEN", "CLOSED"}
    BY <1>2, <1>8 DEF Events
  <2>2. /\ tab'.got = tab.got /\ tab'.cursor = tab.cursor
        /\ tab'.banner = sub[1].is /\ tab'.pc = "live" /\ tab'.left = tab.left
    BY <1>6, <1>8 DEF TypeInv, DataInv
  <2> QED BY <1>2, <1>3, <1>4, <1>5, <1>6, <1>8, <2>1, <2>2
<1> QED BY <1>2, <1>7, <1>8 DEF Forward

LEMMA TabType ==
    ASSUME TypeInv, Age \/ Connect \/ GoLive \/ Forward \/ Disconnect PROVE TypeInv'
<1>1. UNCHANGED <<nextId, stored, topics, made, posts, req, late, behind, unposted, stray>>
  BY DEF Age, Connect, GoLive, Forward, Disconnect, history
<1>2. ReqInv' /\ CountInv'
  <2>1. begun'.messages = begun.messages
    BY DEF Age, Connect, GoLive, Forward, Disconnect, TypeInv, DataInv
  <2> QED BY <1>1, <2>1 DEF TypeInv, ReqInv, CountInv, Unnumbered, Untopiced, Numbered
<1>3. conv' \in [status : {"NONE", "OPEN", "CLOSED"}, topic : 0 .. made,
                 at : {"never", "fresh", "stale"}]
  BY DEF Age, Connect, GoLive, Forward, Disconnect, TypeInv, DataInv
<1>4. begun' \in [messages : 0 .. MaxMessages, closes : Nat, connects : Nat]
  BY DEF Age, Connect, GoLive, Forward, Disconnect, TypeInv, DataInv
<1>5. /\ sub' \in Seq(Events)
      /\ \A k \in DOMAIN sub' : sub'[k].kind = "message" => sub'[k].is \in 1 .. (nextId - 1)
  <2>1. CASE Forward
    <3>1. \A k \in DOMAIN sub : sub[k].kind = "message" => sub[k].is \in 1 .. (nextId - 1)
      BY DEF TypeInv, DataInv
    <3> QED BY <2>1, <3>1, ForwardMove
  <2>2. CASE UNCHANGED sub
    BY <2>2 DEF TypeInv, DataInv
  <2>3. CASE sub' = <<>>
    BY <2>3
  <2> QED BY <2>1, <2>2, <2>3 DEF Age, Connect, GoLive, Disconnect, site
<1>6. tab' \in [pc : {"off", "subscribed", "replayed", "live"},
                got : SUBSET (1 .. (nextId - 1)), cursor : Nat,
                banner : {"NONE", "OPEN", "CLOSED"}, left : SUBSET (1 .. (nextId - 1))]
      /\ tab'.cursor \in {0} \cup tab'.got
  <2>1. CASE Forward
    <3>1. tab'.got \in SUBSET (1 .. (nextId - 1)) /\ tab'.cursor \in Nat
          /\ tab'.banner \in {"NONE", "OPEN", "CLOSED"} /\ tab'.pc = "live"
          /\ tab'.cursor \in {0} \cup tab'.got /\ tab'.left \in SUBSET (1 .. (nextId - 1))
      <4>1. /\ tab.got \in SUBSET (1 .. (nextId - 1)) /\ tab.cursor \in Nat
            /\ tab.banner \in {"NONE", "OPEN", "CLOSED"} /\ tab.cursor \in {0} \cup tab.got
            /\ tab.left \in SUBSET (1 .. (nextId - 1))
        BY DEF TypeInv, DataInv
      <4>2. \A x \in 1 .. (nextId - 1) : x \in Nat
        BY DEF TypeInv, DataInv
      <4>3. CASE sub[1].kind = "message"
        BY <2>1, <4>1, <4>2, <4>3, ForwardMove
      <4>4. CASE sub[1].kind # "message"
        BY <2>1, <4>1, <4>4, ForwardMove
      <4> QED BY <4>3, <4>4
    <3>2. tab' = [pc |-> tab'.pc, got |-> tab'.got, cursor |-> tab'.cursor, banner |-> tab'.banner,
                  left |-> tab'.left]
      BY <2>1 DEF Forward, TypeInv, DataInv
    <3> QED BY <3>1, <3>2
  <2>2. CASE ~Forward
    BY <2>2 DEF Age, Connect, GoLive, Disconnect, site, TypeInv, DataInv
  <2> QED BY <2>1, <2>2
<1> QED BY <1>1, <1>2, <1>3, <1>4, <1>5, <1>6 DEF TypeInv, DataInv

LEMMA TypeInit == Init => TypeInv
<1> SUFFICES ASSUME Init PROVE TypeInv OBVIOUS
<1>1. Idle \in RequestType /\ Steps(Idle) /\ Idle.made = 0 /\ Idle.id = 0 /\ Idle.pc = "idle"
      /\ Idle.kind = "none"
  BY DEF Idle, RequestType, Steps
<1>2. nextId = 1 /\ made = 0 /\ \A r \in Requests : req[r] = Idle
  BY DEF Init
<1>3. ReqInv
  <2>1. req \in [Requests -> RequestType]
    BY <1>1 DEF Init
  <2> QED BY <1>1, <1>2, <2>1 DEF ReqInv, Steps
<1>4. CountInv
  <2>1. Unnumbered = {} /\ Untopiced = {}
    BY <1>1, <1>2 DEF Unnumbered, Untopiced
  <2>2. begun.messages = 0
    BY DEF Init
  <2> QED BY <1>2, <2>1, <2>2, FS_EmptySet DEF CountInv
<1>5. DataInv
  <2>1. /\ conv \in [status : {"NONE", "OPEN", "CLOSED"}, topic : 0 .. made,
                     at : {"never", "fresh", "stale"}]
        /\ stored = {} /\ topics = {} /\ stray = {} /\ posts = {} /\ late = {}
        /\ unposted = {} /\ behind = FALSE
    BY DEF Init
  <2>2. sub \in Seq(Events) /\ DOMAIN sub = {}
    <3>1. sub = <<>>
      BY DEF Init
    <3> QED BY <3>1
  <2>3. tab \in [pc : {"off", "subscribed", "replayed", "live"},
                got : SUBSET (1 .. (nextId - 1)), cursor : Nat,
                banner : {"NONE", "OPEN", "CLOSED"}, left : SUBSET (1 .. (nextId - 1))]
        /\ tab.cursor \in {0} \cup tab.got
    BY DEF Init
  <2>4. begun \in [messages : 0 .. MaxMessages, closes : Nat, connects : Nat]
    BY SupportAssumption DEF Init
  <2>5. \A S : stored \subseteq S /\ topics \subseteq S /\ stray \subseteq S /\ posts \subseteq S
               /\ late \subseteq S /\ unposted \subseteq S
    BY <2>1
  <2>6. nextId \in Nat \ {0} /\ made \in Nat
    BY <1>2
  <2>8. behind \in BOOLEAN
    BY <2>1, Zenon
  <2>7. \A k \in DOMAIN sub : sub[k].kind = "message" => sub[k].is \in 1 .. (nextId - 1)
    BY <2>2
  <2> QED BY <2>1, <2>2, <2>3, <2>4, <2>5, <2>6, <2>7, <2>8, Zenon DEF DataInv
<1> QED BY <1>3, <1>4, <1>5 DEF TypeInv

-----------------------------------------------------------------------------
(* Ids.                                                                     *)

LEMMA IdFrame ==
    ASSUME TypeInv, IdInv, stored' = stored,
           \A q \in Requests :
               \/ req'[q].id = 0
               \/ /\ req'[q].id = req[q].id /\ req'[q].kind = req[q].kind
                  /\ req'[q].pc = "commit" <=> req[q].pc = "commit"
    PROVE  IdInv'
<1>1. ASSUME NEW q \in Requests, NEW r \in Requests, req'[q].id = req'[r].id, req'[q].id > 0
      PROVE  q = r
  BY <1>1 DEF IdInv
<1>2. ASSUME NEW r \in Requests, req'[r].id > 0
      PROVE  IF req'[r].pc = "commit" THEN \A m \in stored' : m.id # req'[r].id
             ELSE [id |-> req'[r].id, by |-> req'[r].kind] \in stored'
  <2>1. /\ req'[r].id = req[r].id /\ req'[r].kind = req[r].kind /\ req[r].id > 0
        /\ req'[r].pc = "commit" <=> req[r].pc = "commit"
    BY <1>2
  <2> QED BY <2>1 DEF IdInv
<1> QED BY <1>1, <1>2 DEF IdInv

LEMMA IdDrop ==
    ASSUME TypeInv, IdInv, stored' = stored, NEW r \in Requests, Stays(r), req'[r].id = 0
    PROVE  IdInv'
BY IdFrame DEF Stays

LEMMA IdInsert == ASSUME TypeInv, IdInv, NEW r \in Requests, Insert(r) PROVE IdInv'
<1>1. stored' = stored /\ nextId \in Nat \ {0}
  BY DEF Insert, TypeInv, DataInv
<1>2. \A q \in Requests : req[q].id # nextId
  BY <1>1, Typed DEF RequestType
<1>3. \A m \in stored : m.id # nextId
  BY <1>1 DEF TypeInv, DataInv
<1>4. req'[r].id = nextId /\ req'[r].pc = "commit" /\ \A q \in Requests \ {r} : req'[q] = req[q]
  BY InsertMove DEF Stays
<1>5. ASSUME NEW p \in Requests, NEW q \in Requests, req'[p].id = req'[q].id, req'[p].id > 0
      PROVE  p = q
  BY <1>2, <1>4, <1>5 DEF IdInv
<1>6. ASSUME NEW q \in Requests, req'[q].id > 0
      PROVE  IF req'[q].pc = "commit" THEN \A m \in stored' : m.id # req'[q].id
             ELSE [id |-> req'[q].id, by |-> req'[q].kind] \in stored'
  <2>1. CASE q = r
    BY <1>1, <1>3, <1>4, <2>1
  <2>2. CASE q # r
    BY <1>1, <1>4, <1>6, <2>2 DEF IdInv
  <2> QED BY <2>1, <2>2
<1> QED BY <1>1, <1>5, <1>6 DEF IdInv

LEMMA IdCommit ==
    ASSUME TypeInv, IdInv, NEW r \in Requests, CommitMessage(r) \/ CommitReply(r)
    PROVE  IdInv'
<1> DEFINE x == [id |-> req[r].id, by |-> req[r].kind]
<1>1. /\ stored' = stored \cup {x} /\ x.id = req[r].id /\ x.by = req[r].kind
      /\ req[r].pc = "commit" /\ req[r].id > 0 /\ req'[r].pc # "commit"
      /\ req'[r].id = req[r].id /\ req'[r].kind = req[r].kind
      /\ \A q \in Requests \ {r} : req'[q] = req[q]
  BY CommitMove DEF Keeps, Stays
<1>2. x = [id |-> req'[r].id, by |-> req'[r].kind]
  BY <1>1
<1> HIDE DEF x
<1>3. \A m \in stored : m.id # req[r].id
  BY <1>1 DEF IdInv
<1>4. ASSUME NEW p \in Requests, NEW q \in Requests, req'[p].id = req'[q].id, req'[p].id > 0
      PROVE  p = q
  <2>1. req'[p].id = req[p].id /\ req'[q].id = req[q].id
    BY <1>1
  <2> QED BY <1>4, <2>1 DEF IdInv
<1>5. ASSUME NEW m \in stored', NEW n \in stored', m.id = n.id PROVE m = n
  BY <1>1, <1>3, <1>5 DEF IdInv
<1>6. ASSUME NEW q \in Requests, req'[q].id > 0
      PROVE  IF req'[q].pc = "commit" THEN \A m \in stored' : m.id # req'[q].id
             ELSE [id |-> req'[q].id, by |-> req'[q].kind] \in stored'
  <2>1. CASE q = r
    BY <1>1, <1>2, <2>1
  <2>2. CASE q # r
    <3>1. req'[q] = req[q] /\ req[q].id # req[r].id /\ req[q].id > 0
      BY <1>1, <1>6, <2>2 DEF IdInv
    <3>2. CASE req[q].pc = "commit"
      <4>1. \A m \in stored : m.id # req[q].id
        BY <3>1, <3>2 DEF IdInv
      <4> QED BY <1>1, <3>1, <3>2, <4>1
    <3>3. CASE req[q].pc # "commit"
      <4>1. [id |-> req[q].id, by |-> req[q].kind] \in stored
        BY <3>1, <3>3 DEF IdInv
      <4> QED BY <1>1, <3>1, <3>3, <4>1
    <3> QED BY <3>2, <3>3
  <2> QED BY <2>1, <2>2
<1> QED BY <1>4, <1>5, <1>6 DEF IdInv

\* What a step is.
LEMMA Cases ==
    ASSUME [Next]_vars
    PROVE  \/ \E r \in Requests :
                \/ UserWrites(r) \/ OperatorWrites(r) \/ (Shut(r) /\ req[r].pc = "idle")
                \/ CreateTopic(r) \/ ClaimTopic(r) \/ DropTopic(r) \/ Mirror(r) \/ Insert(r)
                \/ CommitMessage(r) \/ CommitReply(r) \/ Relay(r) \/ PublishReply(r)
                \/ Announce(r) \/ Crash(r)
           \/ Age \/ Connect \/ CatchUp \/ GoLive \/ Forward \/ Disconnect \/ UNCHANGED vars
BY Zenon DEF Next, Step, CloseByTopic, CloseIdle

\* The site's steps leave the conversation alone.
LEMMA Quiet ==
    ASSUME Connect \/ CatchUp \/ GoLive \/ Forward \/ Disconnect \/ UNCHANGED vars
    PROVE  UNCHANGED <<conv, nextId, stored, topics, made, posts, req, faults, late, unposted,
                       stray>>
BY DEF Connect, CatchUp, GoLive, Forward, Disconnect, vars, history

LEMMA IdNext == ASSUME TypeInv, IdInv, [Next]_vars PROVE IdInv'
<1>1. ASSUME NEW r \in Requests, UserWrites(r) PROVE IdInv'
  BY <1>1, UserMove, IdDrop DEF UserWrites
<1>2. ASSUME NEW r \in Requests, OperatorWrites(r) PROVE IdInv'
  BY <1>2, OperatorMove, IdDrop DEF OperatorWrites
<1>3. ASSUME NEW r \in Requests, Shut(r) PROVE IdInv'
  <2>1. stored' = stored
    BY <1>3 DEF Shut
  <2> QED BY <1>3, <2>1, ShutMove, IdFrame
<1>4. ASSUME NEW r \in Requests, CreateTopic(r) PROVE IdInv'
  <2>1. Stays(r) /\ req'[r].id = 0
    BY <1>4, CreateMove, DropMove
  <2> QED BY <1>4, <2>1, IdDrop DEF CreateTopic
<1>5. ASSUME NEW r \in Requests, ClaimTopic(r) PROVE IdInv'
  BY <1>5, ClaimMove, IdDrop DEF ClaimTopic
<1>6. ASSUME NEW r \in Requests, DropTopic(r) PROVE IdInv'
  BY <1>6, DropTopicMove, IdDrop DEF DropTopic
<1>7. ASSUME NEW r \in Requests, Mirror(r) PROVE IdInv'
  BY <1>7, MirrorMove, IdDrop DEF Mirror
<1>8. ASSUME NEW r \in Requests, Drop(r), stored' = stored PROVE IdInv'
  BY <1>8, DropMove, IdDrop
<1>9. CASE UNCHANGED <<req, stored>>
  BY <1>9, IdFrame
<1> QED
  BY <1>1, <1>2, <1>3, <1>4, <1>5, <1>6, <1>7, <1>8, <1>9, IdInsert, IdCommit, Cases, Quiet
  DEF Relay, PublishReply, Announce, Crash, Age

-----------------------------------------------------------------------------
(* The topic.                                                               *)

Relaying(r) == req[r].kind = "user" /\ req[r].pc \in {"mirror", "insert", "commit", "relay"}

LEMMA TopicFrame ==
    ASSUME TypeInv, TopicInv, UNCHANGED topics, stray \subseteq stray',
           conv'.topic = conv.topic,
           \A p \in posts' : p \in posts \/ (p.topic = conv.topic /\ conv.topic # 0),
           \A q \in Requests :
               \/ /\ req'[q].made = req[q].made /\ (Making(q)' <=> Making(q))
                  /\ req'[q].pc = "drop" => conv.topic # 0
                  /\ Relaying(q)' => Relaying(q) /\ req'[q].topic = req[q].topic
               \/ /\ req'[q].made = 0 /\ ~Making(q)'
                  /\ Making(q) => req[q].made \in stray'
                  /\ Relaying(q)' => req'[q].topic = conv.topic /\ conv.topic # 0
    PROVE  TopicInv'
<1>1. 0 \notin topics
  BY DEF TypeInv, DataInv
<1>2. OneTopic'
  <2>1. ASSUME NEW t \in topics, t # conv.topic, t \notin stray'
        PROVE  \E r \in Requests : t = req'[r].made
    <3>1. PICK r \in Requests : t = req[r].made
      BY <2>1 DEF TopicInv, OneTopic
    <3>2. Making(r)
      BY <2>1, <3>1 DEF TopicInv
    <3> QED BY <2>1, <3>1, <3>2
  <2>2. \A p \in posts' : p.topic = conv.topic /\ p.topic \in topics
    BY DEF TopicInv, OneTopic
  <2> QED BY <2>1, <2>2 DEF OneTopic
<1>3. ASSUME NEW q \in Requests, NEW r \in Requests, Making(q)', Making(r)',
             req'[q].made = req'[r].made
      PROVE  q = r
  BY <1>3 DEF TopicInv
<1>4. ASSUME NEW r \in Requests
      PROVE  /\ Making(r)' => req'[r].made # conv.topic /\ req'[r].made \in topics
             /\ ~Making(r)' => req'[r].made \notin topics \ ({conv.topic} \cup stray')
             /\ req'[r].pc = "drop" => conv.topic # 0
             /\ Relaying(r)' => req'[r].topic = conv.topic /\ conv.topic # 0
  <2>1. CASE /\ req'[r].made = req[r].made /\ (Making(r)' <=> Making(r))
             /\ req'[r].pc = "drop" => conv.topic # 0
             /\ Relaying(r)' => Relaying(r) /\ req'[r].topic = req[r].topic
    BY <2>1 DEF TopicInv, Relaying
  <2>2. CASE /\ req'[r].made = 0 /\ ~Making(r)'
             /\ Relaying(r)' => req'[r].topic = conv.topic /\ conv.topic # 0
    <3>1. req'[r].pc # "drop"
      BY <2>2 DEF Making
    <3> QED BY <1>1, <2>2, <3>1
  <2> QED BY <2>1, <2>2
<1>5. (conv.topic # 0 => conv.topic \in topics)'
  BY DEF TopicInv
<1> QED BY <1>2, <1>3, <1>4, <1>5 DEF TopicInv, Relaying

LEMMA TopicSame ==
    ASSUME TypeInv, TopicInv, UNCHANGED <<topics, posts>>, stray \subseteq stray',
           conv'.topic = conv.topic,
           \A q \in Requests :
               \/ /\ req'[q].made = req[q].made /\ (Making(q)' <=> Making(q))
                  /\ req'[q].pc = "drop" => conv.topic # 0
                  /\ Relaying(q)' => Relaying(q) /\ req'[q].topic = req[q].topic
               \/ /\ req'[q].made = 0 /\ ~Making(q)'
                  /\ Making(q) => req[q].made \in stray'
                  /\ Relaying(q)' => req'[q].topic = conv.topic /\ conv.topic # 0
    PROVE  TopicInv'
<1>1. \A p \in posts' : p \in posts \/ (p.topic = conv.topic /\ conv.topic # 0)
  OBVIOUS
<1>2. UNCHANGED topics
  OBVIOUS
<1> QED BY <1>1, <1>2, TopicFrame, Zenon

\* Only one request moves.
LEMMA TopicOne ==
    ASSUME TypeInv, TopicInv, NEW r \in Requests, Stays(r), UNCHANGED <<topics, posts>>,
           stray \subseteq stray', conv'.topic = conv.topic,
           \/ /\ req'[r].made = req[r].made /\ (Making(r)' <=> Making(r))
              /\ req'[r].pc = "drop" => conv.topic # 0
              /\ Relaying(r)' => Relaying(r) /\ req'[r].topic = req[r].topic
           \/ /\ req'[r].made = 0 /\ ~Making(r)'
              /\ Making(r) => req[r].made \in stray'
              /\ Relaying(r)' => req'[r].topic = conv.topic /\ conv.topic # 0
    PROVE  TopicInv'
<1>1. \A q \in Requests \ {r} :
          /\ req'[q] = req[q] /\ (req[q].pc = "drop" => conv.topic # 0)
          /\ (Making(q)' <=> Making(q)) /\ (Relaying(q)' <=> Relaying(q))
  BY DEF Stays, Making, Relaying, TopicInv
<1>2. \A q \in Requests :
        \/ /\ req'[q].made = req[q].made /\ (Making(q)' <=> Making(q))
           /\ req'[q].pc = "drop" => conv.topic # 0
           /\ Relaying(q)' => Relaying(q) /\ req'[q].topic = req[q].topic
        \/ /\ req'[q].made = 0 /\ ~Making(q)'
           /\ Making(q) => req[q].made \in stray'
           /\ Relaying(q)' => req'[q].topic = conv.topic /\ conv.topic # 0
  BY <1>1, Zenon
<1> QED BY <1>2, TopicSame

LEMMA TopicCreate == ASSUME TypeInv, TopicInv, NEW r \in Requests, CreateTopic(r) PROVE TopicInv'
<1>1. UNCHANGED <<conv, posts, stray>> /\ req[r].pc = "create" /\ req[r].kind = "user"
  BY DEF CreateTopic, At
<1>2. ~Making(r) /\ ~Relaying(r)
  BY <1>1 DEF Making, Relaying
<1>3. CASE Drop(r) /\ UNCHANGED topics
  BY <1>1, <1>2, <1>3, DropMove, TopicOne DEF Making, Relaying
<1>4. CASE ~Drop(r)
  <2>1. /\ Stays(r) /\ req'[r].pc = "claim" /\ req'[r].made = made' /\ made' = made + 1
        /\ topics' = topics \cup {made'} /\ req'[r].kind = "user"
    BY <1>4, CreateMove
  <2>2. made \in Nat /\ topics \subseteq 1 .. made /\ conv.topic \in 0 .. made
    BY DEF TypeInv, DataInv
  <2>3. made' \notin topics /\ made' # conv.topic /\ made' # 0
    BY <2>1, <2>2
  <2>4. \A q \in Requests : req[q].made # made' /\ req[q].made \in Nat
    <3>1. \A q \in Requests : req[q].made \in Nat /\ req[q].made <= made
      BY Typed DEF RequestType
    <3> QED BY <2>1, <2>2, <3>1
  <2>5. Making(r)' /\ ~Relaying(r)' /\ req'[r].pc # "drop"
    BY <2>1 DEF Making, Relaying
  <2>6. \A q \in Requests \ {r} :
          /\ req'[q] = req[q] /\ (Making(q)' <=> Making(q)) /\ (Relaying(q)' <=> Relaying(q))
    BY <2>1 DEF Stays, Making, Relaying
  <2>7. req[r].made \notin topics \ ({conv.topic} \cup stray)
    BY <1>2 DEF TopicInv
  <2>8. OneTopic'
    <3>1. ASSUME NEW t \in topics', t # conv.topic, t \notin stray
          PROVE  \E q \in Requests : t = req'[q].made
      <4>1. CASE t = made'
        BY <2>1, <4>1
      <4>2. CASE t \in topics
        BY <2>6, <2>7, <3>1, <4>2 DEF TopicInv, OneTopic
      <4> QED BY <2>1, <4>1, <4>2
    <3> QED BY <1>1, <2>1, <3>1 DEF TopicInv, OneTopic
  <2>9. ASSUME NEW p \in Requests, NEW q \in Requests, Making(p)', Making(q)',
               req'[p].made = req'[q].made
        PROVE  p = q
    BY <2>1, <2>4, <2>6, <2>9 DEF TopicInv
  <2>10. ASSUME NEW q \in Requests
         PROVE  /\ Making(q)' => req'[q].made # conv.topic /\ req'[q].made \in topics'
                /\ ~Making(q)' => req'[q].made \notin topics' \ ({conv.topic} \cup stray)
                /\ req'[q].pc = "drop" => conv.topic # 0
                /\ Relaying(q)' => req'[q].topic = conv.topic /\ conv.topic # 0
    <3>1. CASE q = r
      BY <2>1, <2>3, <2>5, <3>1
    <3>2. CASE q # r
      <4>1. /\ Making(q) => req[q].made # conv.topic /\ req[q].made \in topics
            /\ ~Making(q) => req[q].made \notin topics \ ({conv.topic} \cup stray)
            /\ req[q].pc = "drop" => conv.topic # 0
            /\ Relaying(q) => req[q].topic = conv.topic /\ conv.topic # 0
        BY DEF TopicInv, Relaying
      <4> QED BY <2>1, <2>4, <2>6, <3>2, <4>1
    <3> QED BY <3>1, <3>2
  <2>11. conv.topic # 0 => conv.topic \in topics'
    BY <2>1 DEF TopicInv
  <2> QED BY <1>1, <2>8, <2>9, <2>10, <2>11 DEF TopicInv, Relaying
<1> QED
  <2>1. Drop(r) => UNCHANGED topics
    <3>1. Drop(r) => req'[r].pc # "claim"
      BY DropMove
    <3>2. req' = [req EXCEPT ![r].pc = "claim", ![r].made = made'] => req'[r].pc = "claim"
      BY DEF TypeInv, ReqInv, RequestType
    <3> QED BY <3>1, <3>2, Zenon DEF CreateTopic
  <2> QED BY <1>3, <1>4, <2>1

LEMMA TopicClaim == ASSUME TypeInv, TopicInv, NEW r \in Requests, ClaimTopic(r) PROVE TopicInv'
<1>1. UNCHANGED <<topics, posts, stray>> /\ Making(r) /\ ~Relaying(r) /\ Stays(r)
      /\ req'[r].made = req[r].made
  BY ClaimMove DEF ClaimTopic, history, Making, Relaying
<1>2. CASE conv.topic # 0 /\ UNCHANGED conv /\ req'[r].pc = "drop"
  BY <1>1, <1>2, TopicOne DEF Making, Relaying
<1>3. CASE /\ conv.topic = 0 /\ conv' = [conv EXCEPT !.topic = req[r].made]
           /\ req'[r].pc = "mirror" /\ req'[r].topic = req[r].made
  <2>1. conv'.topic = req[r].made /\ req[r].made \in topics /\ 0 \notin topics
    BY <1>1, <1>3 DEF TypeInv, DataInv, TopicInv
  <2>2. posts = {}
    BY <1>3, <2>1 DEF TopicInv, OneTopic
  <2>3. \A q \in Requests \ {r} :
          /\ req'[q] = req[q] /\ (Making(q)' <=> Making(q)) /\ (Relaying(q)' <=> Relaying(q))
    BY <1>1 DEF Stays, Making, Relaying
  <2>4. ~Making(r)' /\ req'[r].pc # "drop"
    BY <1>3 DEF Making
  <2>5. OneTopic'
    <3>1. ASSUME NEW t \in topics, t \notin stray PROVE \E q \in Requests : t = req'[q].made
      <4>1. PICK q \in Requests : t = req[q].made
        BY <1>3, <2>1, <3>1 DEF TopicInv, OneTopic
      <4> QED BY <1>1, <2>3, <4>1
    <3> QED BY <1>1, <2>2, <3>1 DEF OneTopic
  <2>6. ASSUME NEW p \in Requests, NEW q \in Requests, Making(p)', Making(q)',
               req'[p].made = req'[q].made
        PROVE  p = q
    BY <2>3, <2>4, <2>6 DEF TopicInv
  <2>7. ASSUME NEW q \in Requests
        PROVE  /\ Making(q)' => req'[q].made # conv'.topic /\ req'[q].made \in topics
               /\ ~Making(q)' => req'[q].made \notin topics \ ({conv'.topic} \cup stray)
               /\ req'[q].pc = "drop" => conv'.topic # 0
               /\ Relaying(q)' => req'[q].topic = conv'.topic /\ conv'.topic # 0
    <3>1. CASE q = r
      BY <1>1, <1>3, <2>1, <2>4, <3>1
    <3>2. CASE q # r
      <4>1. /\ Making(q) => req[q].made # req[r].made /\ req[q].made \in topics
            /\ ~Making(q) => req[q].made \notin topics \ ({conv.topic} \cup stray)
            /\ req[q].pc # "drop" /\ ~Relaying(q)
        BY <1>1, <1>3, <3>2 DEF TopicInv, Relaying
      <4> QED BY <1>3, <2>1, <2>3, <3>2, <4>1
    <3> QED BY <3>1, <3>2
  <2> QED BY <1>1, <2>1, <2>5, <2>6, <2>7 DEF TopicInv, Relaying
<1> QED BY <1>2, <1>3, ClaimMove

LEMMA TopicDrop == ASSUME TypeInv, TopicInv, NEW r \in Requests, DropTopic(r) PROVE TopicInv'
<1>1. /\ UNCHANGED <<conv, posts>> /\ Making(r) /\ req[r].pc = "drop" /\ Stays(r)
      /\ req'[r].made = req[r].made /\ req'[r].pc = "mirror" /\ req'[r].topic = conv.topic
  BY DropTopicMove DEF DropTopic, Making
<1>2. /\ topics' \subseteq topics /\ topics \ {req[r].made} \subseteq topics'
      /\ stray \subseteq stray'
      /\ req[r].made \notin topics' \ stray'
  BY DEF DropTopic
<1>3. conv.topic # 0 /\ req[r].made # conv.topic
  BY <1>1 DEF TopicInv
<1>4. \A q \in Requests \ {r} :
        /\ req'[q] = req[q] /\ (Making(q)' <=> Making(q)) /\ (Relaying(q)' <=> Relaying(q))
  BY <1>1 DEF Stays, Making, Relaying
<1>5. ~Making(r)' /\ req'[r].pc # "drop"
  BY <1>1 DEF Making
<1>6. OneTopic'
  <2>1. ASSUME NEW t \in topics', t # conv.topic, t \notin stray'
        PROVE  \E q \in Requests : t = req'[q].made
    <3>1. PICK q \in Requests : t = req[q].made
      BY <1>2, <2>1 DEF TopicInv, OneTopic
    <3> QED BY <1>1, <1>4, <3>1
  <2>2. \A p \in posts : p.topic = conv.topic /\ p.topic \in topics'
    BY <1>2, <1>3 DEF TopicInv, OneTopic
  <2> QED BY <1>1, <2>1, <2>2 DEF OneTopic
<1>7. ASSUME NEW p \in Requests, NEW q \in Requests, Making(p)', Making(q)',
             req'[p].made = req'[q].made
      PROVE  p = q
  BY <1>4, <1>5, <1>7 DEF TopicInv
<1>8. ASSUME NEW q \in Requests
      PROVE  /\ Making(q)' => req'[q].made # conv.topic /\ req'[q].made \in topics'
             /\ ~Making(q)' => req'[q].made \notin topics' \ ({conv.topic} \cup stray')
             /\ req'[q].pc = "drop" => conv.topic # 0
             /\ Relaying(q)' => req'[q].topic = conv.topic /\ conv.topic # 0
  <2>1. CASE q = r
    BY <1>1, <1>2, <1>3, <1>5, <2>1
  <2>2. CASE q # r
    <3>1. /\ Making(q) => /\ req[q].made # conv.topic /\ req[q].made \in topics
                          /\ req[q].made # req[r].made
          /\ ~Making(q) => req[q].made \notin topics \ ({conv.topic} \cup stray)
          /\ Relaying(q) => req[q].topic = conv.topic
      BY <1>1, <2>2 DEF TopicInv, Relaying
    <3> QED BY <1>2, <1>3, <1>4, <2>2, <3>1
  <2> QED BY <2>1, <2>2
<1>9. conv.topic \in topics'
  BY <1>2, <1>3 DEF TopicInv
<1> QED BY <1>1, <1>6, <1>7, <1>8, <1>9 DEF TopicInv, Relaying

LEMMA TopicNext == ASSUME TypeInv, TopicInv, [Next]_vars PROVE TopicInv'
<1>1. ASSUME NEW r \in Requests, UserWrites(r) PROVE TopicInv'
  <2>1. conv'.topic = conv.topic /\ UNCHANGED <<topics, posts, stray>>
    BY <1>1 DEF UserWrites, Reopen, TypeInv, DataInv
  <2>2. /\ Stays(r) /\ req[r].pc = "idle" /\ req'[r].made = 0 /\ req'[r].topic = conv.topic
        /\ req'[r].pc = (IF conv.topic = 0 THEN "create" ELSE "mirror")
    BY <1>1, UserMove
  <2>3. ~Making(r) /\ ~Making(r)' /\ (Relaying(r)' => conv.topic # 0)
    BY <2>2 DEF Making, Relaying
  <2> QED BY <2>1, <2>2, <2>3, TopicOne
<1>2. ASSUME NEW r \in Requests, OperatorWrites(r) PROVE TopicInv'
  <2>1. UNCHANGED <<conv, topics, posts, stray>>
    BY <1>2 DEF OperatorWrites, history
  <2>2. Stays(r) /\ req[r].pc = "idle" /\ req'[r].made = 0 /\ req'[r].pc = "insert"
        /\ req'[r].kind = "operator"
    BY <1>2, OperatorMove
  <2>3. ~Making(r) /\ ~Making(r)' /\ ~Relaying(r)'
    BY <2>2 DEF Making, Relaying
  <2> QED BY <2>1, <2>2, <2>3, TopicOne
<1>3. ASSUME NEW r \in Requests, Shut(r), req[r].pc = "idle" PROVE TopicInv'
  <2>1. conv'.topic = conv.topic /\ UNCHANGED <<topics, posts, stray>>
    BY <1>3 DEF Shut, TypeInv, DataInv
  <2>2. req'[r].made = 0 /\ ~Making(r) /\ ~Making(r)' /\ ~Relaying(r)'
    BY <1>3, ShutMove DEF Making, Relaying
  <2>3. ASSUME NEW q \in Requests \ {r}
        PROVE  /\ req'[q].made = req[q].made /\ (Making(q)' <=> Making(q))
               /\ req'[q].pc = "drop" => conv.topic # 0
               /\ Relaying(q)' => Relaying(q) /\ req'[q].topic = req[q].topic
    <3>1. /\ req'[q].pc = req[q].pc /\ req'[q].kind = req[q].kind
          /\ req'[q].topic = req[q].topic /\ req'[q].made = req[q].made
      BY <1>3, ShutMove
    <3> QED BY <3>1 DEF Making, Relaying, TopicInv
  <2>4. \A q \in Requests :
          \/ /\ req'[q].made = req[q].made /\ (Making(q)' <=> Making(q))
             /\ req'[q].pc = "drop" => conv.topic # 0
             /\ Relaying(q)' => Relaying(q) /\ req'[q].topic = req[q].topic
          \/ /\ req'[q].made = 0 /\ ~Making(q)'
             /\ Making(q) => req[q].made \in stray'
             /\ Relaying(q)' => req'[q].topic = conv.topic /\ conv.topic # 0
    BY <2>2, <2>3, Zenon
  <2> QED BY <2>1, <2>4, TopicSame
<1>4. ASSUME NEW r \in Requests, Mirror(r) PROVE TopicInv'
  <2>1. UNCHANGED <<conv, topics, posts, stray>>
    BY <1>4 DEF Mirror
  <2>2. /\ Stays(r) /\ req'[r].made = req[r].made /\ ~Making(r) /\ ~Making(r)'
        /\ req'[r].pc # "drop" /\ Relaying(r) /\ req'[r].topic = req[r].topic
    BY <1>4, MirrorMove DEF Making, Relaying
  <2> QED BY <2>1, <2>2, TopicOne
<1>5. ASSUME NEW r \in Requests, Insert(r) PROVE TopicInv'
  <2>1. UNCHANGED <<conv, topics, posts, stray>>
    BY <1>5 DEF Insert, history
  <2>2. /\ Stays(r) /\ req'[r].made = req[r].made /\ ~Making(r) /\ ~Making(r)'
        /\ req'[r].pc # "drop" /\ (Relaying(r)' => Relaying(r)) /\ req'[r].topic = req[r].topic
    BY <1>5, InsertMove DEF Making, Relaying
  <2> QED BY <2>1, <2>2, TopicOne
<1>6. ASSUME NEW r \in Requests, CommitMessage(r) \/ CommitReply(r) PROVE TopicInv'
  <2>1. UNCHANGED <<topics, posts, stray>> /\ conv'.topic = conv.topic
    BY <1>6 DEF CommitMessage, CommitReply, TypeInv, DataInv
  <2>2. /\ Stays(r) /\ req'[r].made = req[r].made /\ ~Making(r) /\ ~Making(r)'
        /\ req'[r].pc # "drop" /\ (Relaying(r)' => Relaying(r)) /\ req'[r].topic = req[r].topic
    BY <1>6, CommitMove DEF Making, Relaying, Keeps
  <2> QED BY <2>1, <2>2, TopicOne
<1>7. ASSUME NEW r \in Requests, Relay(r) PROVE TopicInv'
  <2>1. UNCHANGED <<conv, topics, stray>> /\ Relaying(r) /\ ~Making(r)
    BY <1>7 DEF Relay, At, Relaying, Making
  <2>2. req[r].topic = conv.topic /\ conv.topic # 0
    BY <2>1 DEF TopicInv, Relaying
  <2>3. \A p \in posts' : p \in posts \/ (p.topic = conv.topic /\ conv.topic # 0)
    BY <1>7, <2>2 DEF Relay
  <2>4. Stays(r) /\ req'[r].made = 0 /\ ~Making(r)' /\ ~Relaying(r)'
    BY <1>7, DropMove DEF Relay, Making, Relaying
  <2>5. \A q \in Requests \ {r} :
          /\ req'[q] = req[q] /\ (req[q].pc = "drop" => conv.topic # 0)
          /\ (Making(q)' <=> Making(q)) /\ (Relaying(q)' <=> Relaying(q))
    BY <2>4 DEF Stays, Making, Relaying, TopicInv
  <2>6. \A q \in Requests :
          \/ /\ req'[q].made = req[q].made /\ (Making(q)' <=> Making(q))
             /\ req'[q].pc = "drop" => conv.topic # 0
             /\ Relaying(q)' => Relaying(q) /\ req'[q].topic = req[q].topic
          \/ /\ req'[q].made = 0 /\ ~Making(q)'
             /\ Making(q) => req[q].made \in stray'
             /\ Relaying(q)' => req'[q].topic = conv.topic /\ conv.topic # 0
    BY <2>1, <2>4, <2>5, Zenon
  <2> QED BY <2>1, <2>3, <2>6, TopicFrame
<1>8. ASSUME NEW r \in Requests, PublishReply(r) \/ Announce(r) PROVE TopicInv'
  <2>1. UNCHANGED <<conv, topics, posts, stray>> /\ ~Making(r) /\ Drop(r)
    BY <1>8 DEF PublishReply, Announce, At, Making
  <2>2. Stays(r) /\ req'[r].made = 0 /\ ~Making(r)' /\ ~Relaying(r)'
    BY <2>1, DropMove DEF Making, Relaying
  <2> QED BY <2>1, <2>2, TopicOne
<1>9. ASSUME NEW r \in Requests, Crash(r) PROVE TopicInv'
  <2>1. UNCHANGED <<conv, topics, posts>> /\ Drop(r) /\ stray \subseteq stray'
        /\ (Making(r) => req[r].made \in stray')
    BY <1>9 DEF Crash, Making
  <2>2. Stays(r) /\ req'[r].made = 0 /\ ~Making(r)' /\ ~Relaying(r)'
    BY <2>1, DropMove DEF Making, Relaying
  <2> QED BY <2>1, <2>2, TopicOne
<1>10. CASE Age \/ (UNCHANGED conv /\ UNCHANGED <<req, topics, posts, stray>>)
  <2>1. conv'.topic = conv.topic /\ UNCHANGED <<req, topics, posts, stray>>
    BY <1>10 DEF Age, history, TypeInv, DataInv
  <2>2. \A q \in Requests :
          /\ req'[q].made = req[q].made /\ (Making(q)' <=> Making(q))
          /\ req'[q].pc = "drop" => conv.topic # 0
          /\ Relaying(q)' => Relaying(q) /\ req'[q].topic = req[q].topic
    BY <2>1 DEF Making, Relaying, TopicInv
  <2> QED BY <2>1, <2>2, TopicSame
<1> QED
  BY <1>1, <1>2, <1>3, <1>4, <1>5, <1>6, <1>7, <1>8, <1>9, <1>10, TopicCreate, TopicClaim,
     TopicDrop, Cases, Quiet

-----------------------------------------------------------------------------
(* What was relayed.                                                        *)

\* A request that is over leaves a message relayed, excused, or not the user's.
LEMMA RelayedFrame ==
    ASSUME TypeInv, IdInv, Relayed, stored' = stored, conv'.topic = conv.topic,
           posts \subseteq posts', unposted \subseteq unposted',
           \A q \in Requests :
               \/ req[q].id = 0 \/ req'[q].id = req[q].id
               \/ (req[q].kind # "user" /\ req[q].pc # "commit") \/ req[q].id \in unposted'
               \/ [topic |-> conv.topic, id |-> req[q].id] \in posts'
    PROVE  Relayed'
<1> SUFFICES ASSUME NEW m \in stored, m.by = "user", \A r \in Requests : req'[r].id # m.id
             PROVE  m.id \in unposted' \/ [topic |-> conv.topic, id |-> m.id] \in posts'
  BY DEF Relayed
<1>1. CASE \A r \in Requests : req[r].id # m.id
  BY <1>1 DEF Relayed
<1>2. ASSUME NEW r \in Requests, req[r].id = m.id
      PROVE  m.id \in unposted' \/ [topic |-> conv.topic, id |-> m.id] \in posts'
  <2>1. req[r].id > 0 /\ req[r].id # 0
    BY <1>2 DEF TypeInv, DataInv
  <2>2. req'[r].id # req[r].id
    BY <1>2
  <2>3. CASE req[r].kind # "user" /\ req[r].pc # "commit"
    <3> DEFINE x == [id |-> req[r].id, by |-> req[r].kind]
    <3>1. x \in stored /\ x.id = m.id /\ x.by = req[r].kind
      BY <1>2, <2>1, <2>3 DEF IdInv
    <3> HIDE DEF x
    <3>2. m = x
      BY <3>1 DEF IdInv
    <3> QED BY <2>3, <3>1, <3>2
  <2> QED BY <1>2, <2>1, <2>2, <2>3
<1> QED BY <1>1, <1>2

LEMMA RelayedNext == ASSUME TypeInv, IdInv, TopicInv, Relayed, [Next]_vars PROVE Relayed'
<1>1. ASSUME NEW r \in Requests, req[r].id = 0, Stays(r), conv'.topic = conv.topic,
             UNCHANGED <<stored, posts, unposted>>
      PROVE  Relayed'
  <2>1. \A q \in Requests : req[q].id = 0 \/ req'[q].id = req[q].id
    BY <1>1 DEF Stays
  <2> QED BY <1>1, <2>1, RelayedFrame
<1>2. ASSUME NEW r \in Requests, UserWrites(r) \/ OperatorWrites(r) PROVE Relayed'
  <2>1. conv'.topic = conv.topic /\ UNCHANGED <<stored, posts, unposted>>
    BY <1>2 DEF UserWrites, OperatorWrites, Reopen, TypeInv, DataInv, history
  <2>2. req[r].pc = "idle" /\ Stays(r)
    BY <1>2, UserMove, OperatorMove
  <2>3. req[r].id = 0
    BY <2>2, Typed DEF Steps, RequestType
  <2> QED BY <1>1, <2>1, <2>2, <2>3
<1>3. ASSUME NEW r \in Requests, Shut(r), req[r].pc = "idle" PROVE Relayed'
  <2>1. conv'.topic = conv.topic /\ UNCHANGED <<stored, posts, unposted>>
    BY <1>3 DEF Shut, TypeInv, DataInv
  <2>2. req[r].id = 0
    BY <1>3, Typed DEF Steps, RequestType
  <2>3. \A q \in Requests : req[q].id = 0 \/ req'[q].id = req[q].id
    BY <1>3, <2>2, ShutMove
  <2> QED BY <2>1, <2>3, RelayedFrame
<1>4. ASSUME NEW r \in Requests, CreateTopic(r) \/ DropTopic(r) \/ Mirror(r) \/ Insert(r)
      PROVE  Relayed'
  <2>1. UNCHANGED <<conv, stored, posts, unposted>>
    BY <1>4 DEF CreateTopic, DropTopic, Mirror, Insert, history
  <2>2. req[r].pc \in {"create", "drop", "mirror", "insert"}
    BY <1>4 DEF CreateTopic, DropTopic, Mirror, Insert, At
  <2>3. req[r].id = 0
    BY <2>2, Typed DEF Steps, RequestType
  <2>4. Stays(r)
    BY <1>4, CreateMove, DropMove, DropTopicMove, MirrorMove, InsertMove
  <2> QED BY <1>1, <2>1, <2>3, <2>4
<1>5. ASSUME NEW r \in Requests, ClaimTopic(r) PROVE Relayed'
  <2>1. Stays(r) /\ UNCHANGED <<stored, posts, unposted>> /\ req[r].pc = "claim"
    BY <1>5, ClaimMove DEF ClaimTopic, history
  <2>2. req[r].id = 0
    BY <2>1, Typed DEF Steps, RequestType
  <2>3. CASE conv.topic # 0 /\ UNCHANGED conv
    BY <1>1, <2>1, <2>2, <2>3
  <2>4. CASE conv.topic = 0
    <3>1. posts = {}
      BY <2>4 DEF TopicInv, OneTopic, TypeInv, DataInv
    <3>2. ASSUME NEW m \in stored, m.by = "user", \A q \in Requests : req'[q].id # m.id
          PROVE  m.id \in unposted
      <4>1. m.id # 0
        BY DEF TypeInv, DataInv
      <4>2. \A q \in Requests : req[q].id # m.id
        BY <2>1, <2>2, <3>2, <4>1 DEF Stays
      <4> QED BY <3>1, <3>2, <4>2 DEF Relayed
    <3> QED BY <2>1, <3>2 DEF Relayed
  <2> QED BY <1>5, <2>3, <2>4, ClaimMove
<1>6. ASSUME NEW r \in Requests, CommitMessage(r) \/ CommitReply(r) PROVE Relayed'
  <2>1. UNCHANGED <<posts, unposted>> /\ conv'.topic = conv.topic
    BY <1>6 DEF CommitMessage, CommitReply, TypeInv, DataInv
  <2>2. \A q \in Requests : req'[q].id = req[q].id
    BY <1>6, CommitMove DEF Stays, Keeps
  <2> DEFINE x == [id |-> req[r].id, by |-> req[r].kind]
  <2>3. stored' = stored \cup {x} /\ x.id = req[r].id
    BY <1>6, CommitMove
  <2> HIDE DEF x
  <2> QED BY <2>1, <2>2, <2>3 DEF Relayed
<1>7. ASSUME NEW r \in Requests, Relay(r) PROVE Relayed'
  <2>1. UNCHANGED <<conv, stored>> /\ Stays(r)
    BY <1>7, DropMove DEF Relay
  <2>2. req[r].topic = conv.topic /\ conv.topic # 0
    BY <1>7 DEF TopicInv, Relay, At
  <2>3. /\ posts \subseteq posts' /\ unposted \subseteq unposted'
        /\ req[r].id \in unposted' \/ [topic |-> conv.topic, id |-> req[r].id] \in posts'
    BY <1>7, <2>2 DEF Relay
  <2>4. \A q \in Requests :
          \/ req'[q].id = req[q].id \/ req[q].id \in unposted'
          \/ [topic |-> conv.topic, id |-> req[q].id] \in posts'
    BY <2>1, <2>3 DEF Stays
  <2> QED BY <2>1, <2>3, <2>4, RelayedFrame
<1>8. ASSUME NEW r \in Requests, PublishReply(r) \/ Announce(r) PROVE Relayed'
  <2>1. UNCHANGED <<conv, stored, posts, unposted>> /\ Drop(r) /\ req[r].kind # "user"
        /\ req[r].pc # "commit"
    BY <1>8 DEF PublishReply, Announce, At
  <2>2. ASSUME NEW q \in Requests
        PROVE  req'[q].id = req[q].id \/ (req[q].kind # "user" /\ req[q].pc # "commit")
    <3>1. Stays(r)
      BY <2>1, DropMove
    <3> QED BY <2>1, <3>1 DEF Stays
  <2> QED BY <2>1, <2>2, RelayedFrame
<1>9. ASSUME NEW r \in Requests, Crash(r) PROVE Relayed'
  <2>1. UNCHANGED <<conv, stored, posts>> /\ Drop(r) /\ unposted \subseteq unposted'
        /\ (req[r].id # 0 => req[r].id \in unposted')
    BY <1>9 DEF Crash
  <2>2. \A q \in Requests : req[q].id = 0 \/ req'[q].id = req[q].id \/ req[q].id \in unposted'
    BY <2>1, DropMove DEF Stays
  <2> QED BY <2>1, <2>2, RelayedFrame
<1>10. CASE Age \/ (UNCHANGED conv /\ UNCHANGED <<req, stored, posts, unposted>>)
  <2>1. conv'.topic = conv.topic /\ UNCHANGED <<req, stored, posts, unposted>>
    BY <1>10 DEF Age, history, TypeInv, DataInv
  <2> QED BY <2>1, RelayedFrame
<1> QED
  BY <1>2, <1>3, <1>4, <1>5, <1>6, <1>7, <1>8, <1>9, <1>10, Cases, Quiet

LEMMA OpenNext == ASSUME TypeInv, OpenInv, [Next]_vars PROVE OpenInv'
<1>1. ASSUME NEW r \in Requests, conv'.status = conv.status, Stays(r),
             req'[r].kind = "user" => req[r].kind = "user" /\ req'[r].shut = req[r].shut
      PROVE  OpenInv'
  BY <1>1 DEF OpenInv, Stays
<1>2. ASSUME NEW r \in Requests, UserWrites(r) PROVE OpenInv'
  <2>1. conv'.status = "OPEN"
    BY <1>2 DEF UserWrites, Reopen, TypeInv, DataInv
  <2> QED BY <2>1 DEF OpenInv
<1>3. ASSUME NEW r \in Requests, Shut(r) PROVE OpenInv'
  BY <1>3, ShutMove DEF OpenInv
<1>4. ASSUME NEW r \in Requests, OperatorWrites(r) PROVE OpenInv'
  BY <1>1, <1>4, OperatorMove DEF OperatorWrites
<1>5. ASSUME NEW r \in Requests, CreateTopic(r) PROVE OpenInv'
  <2>1. req[r].kind = "user" /\ UNCHANGED conv
    BY <1>5 DEF CreateTopic, At
  <2> QED BY <1>1, <1>5, <2>1, CreateMove, DropMove
<1>6. ASSUME NEW r \in Requests, ClaimTopic(r) PROVE OpenInv'
  <2>1. conv'.status = conv.status
    BY <1>6 DEF ClaimTopic, TypeInv, DataInv
  <2> QED BY <1>1, <1>6, <2>1, ClaimMove
<1>7. ASSUME NEW r \in Requests, DropTopic(r) PROVE OpenInv'
  BY <1>1, <1>7, DropTopicMove DEF DropTopic
<1>8. ASSUME NEW r \in Requests, Mirror(r) PROVE OpenInv'
  BY <1>1, <1>8, MirrorMove DEF Mirror
<1>9. ASSUME NEW r \in Requests, Insert(r) PROVE OpenInv'
  BY <1>1, <1>9, InsertMove DEF Insert
<1>10. ASSUME NEW r \in Requests, CommitMessage(r) \/ CommitReply(r) PROVE OpenInv'
  <2>1. conv'.status = conv.status
    BY <1>10 DEF CommitMessage, CommitReply, TypeInv, DataInv
  <2> QED BY <1>1, <1>10, <2>1, CommitMove DEF Keeps
<1>11. ASSUME NEW r \in Requests, Drop(r), UNCHANGED conv PROVE OpenInv'
  BY <1>1, <1>11, DropMove
<1>12. CASE Age \/ (UNCHANGED conv /\ UNCHANGED req)
  <2>1. conv'.status = conv.status /\ UNCHANGED req
    BY <1>12 DEF Age, TypeInv, DataInv
  <2> QED BY <2>1 DEF OpenInv
<1> QED
  BY <1>2, <1>3, <1>4, <1>5, <1>6, <1>7, <1>8, <1>9, <1>10, <1>11, <1>12, Cases, Quiet
  DEF Relay, PublishReply, Announce, Crash

-----------------------------------------------------------------------------
(* What the tab was told of replies.                                        *)

\* A step apart from the site: a request that is over leaves its reply late.
LEMMA ReplyFrame ==
    ASSUME TypeInv, IdInv, ReplyInv, UNCHANGED <<stored, sub, tab>>, late \subseteq late',
           \A q \in Requests :
               \/ req'[q].id = req[q].id
               \/ req[q].id = 0 /\ req'[q].id = nextId
               \/ /\ req'[q].id = 0
                  /\ req[q].id \in late' \/ (req[q].kind # "operator" /\ req[q].pc # "commit")
    PROVE  ReplyInv'
<1>1. \A m \in stored : m.id \in 1 .. (nextId - 1) /\ nextId \in Nat
  BY DEF TypeInv, DataInv
<1>2. ASSUME NEW m \in stored, m.by = "operator", NEW r \in Requests, req[r].id = m.id
      PROVE  m.id \in late' \/ req'[r].id = m.id
  <2>1. req[r].id > 0 /\ req[r].id # 0
    BY <1>1, <1>2
  <2>2. CASE req[r].kind # "operator" /\ req[r].pc # "commit"
    <3> DEFINE x == [id |-> req[r].id, by |-> req[r].kind]
    <3>1. x \in stored /\ x.id = m.id /\ x.by = req[r].kind
      BY <1>2, <2>1, <2>2 DEF IdInv
    <3> HIDE DEF x
    <3>2. m = x
      BY <3>1 DEF IdInv
    <3> QED BY <1>2, <2>2, <3>1, <3>2
  <2> QED BY <1>2, <2>1, <2>2
<1>3. RepliesReachTheSite'
  <2> SUFFICES ASSUME NEW m \in stored, m.by = "operator"
               PROVE  \/ m.id \in tab.got \cup tab.left \/ m.id \in late'
                      \/ Replayed /\ (\/ \E r \in Requests : req'[r].id = m.id
                                      \/ [kind |-> "message", is |-> m.id] \in {sub[i] : i \in DOMAIN sub})
                      \/ ~Replayed /\ m.id > tab.cursor
    BY DEF RepliesReachTheSite, Replayed
  <2>1. \/ m.id \in tab.got \cup tab.left \/ m.id \in late
        \/ Replayed /\ (\/ \E r \in Requests : req[r].id = m.id
                        \/ [kind |-> "message", is |-> m.id] \in {sub[i] : i \in DOMAIN sub})
        \/ ~Replayed /\ m.id > tab.cursor
    BY DEF ReplyInv, RepliesReachTheSite
  <2> QED BY <1>2, <2>1
<1>4. ASSUME NEW n \in stored, NEW r \in Requests, req'[r].id > 0, req'[r].id < n.id
      PROVE  req'[r].id \in late'
  <2>1. req'[r].id = req[r].id
    BY <1>1, <1>4
  <2> QED BY <1>4, <2>1 DEF ReplyInv
<1> QED BY <1>3, <1>4 DEF ReplyInv, Telling

LEMMA ReplyCommit ==
    ASSUME TypeInv, IdInv, ReplyInv, NEW r \in Requests, CommitMessage(r) \/ CommitReply(r)
    PROVE  ReplyInv'
<1> DEFINE x == [id |-> req[r].id, by |-> req[r].kind]
<1>1. /\ stored' = stored \cup {x} /\ x.id = req[r].id /\ late' = late \cup Untold(req[r].id)
      /\ req[r].id > 0 /\ req[r].pc = "commit" /\ \A q \in Requests : req'[q].id = req[q].id
  BY CommitMove DEF Keeps, Stays
<1>2. UNCHANGED <<sub, tab>>
  BY DEF CommitMessage, CommitReply, site
<1> HIDE DEF x
<1>3. \A m \in stored : m.id # req[r].id
  BY <1>1 DEF IdInv
<1>4. \A q \in Requests : req[q].id \in Nat
  BY Typed DEF RequestType
<1>5. RepliesReachTheSite'
  <2> SUFFICES ASSUME NEW m \in stored', m.by = "operator"
               PROVE  \/ m.id \in tab.got \cup tab.left \/ m.id \in late'
                      \/ Replayed /\ (\/ \E q \in Requests : req'[q].id = m.id
                                      \/ [kind |-> "message", is |-> m.id] \in {sub[i] : i \in DOMAIN sub})
                      \/ ~Replayed /\ m.id > tab.cursor
    BY <1>2 DEF RepliesReachTheSite, Replayed
  <2>1. CASE m \in stored
    BY <1>1, <2>1 DEF ReplyInv, RepliesReachTheSite
  <2>2. CASE m = x
    <3>1. CASE tab.cursor = 0
      BY <1>1, <1>4, <2>2, <3>1
    <3>2. CASE tab.cursor # 0
      <4>1. PICK n \in stored : tab.cursor = n.id
        BY <3>2 DEF ReplyInv
      <4>2. n.id # req[r].id /\ (req[r].id < n.id => req[r].id \in late) /\ n.id \in Nat
        BY <1>1, <1>3 DEF ReplyInv, TypeInv, DataInv
      <4> QED BY <1>1, <1>4, <2>2, <4>1, <4>2
    <3> QED BY <3>1, <3>2
  <2> QED BY <1>1, <2>1, <2>2
<1>6. ASSUME NEW n \in stored', NEW q \in Requests, req'[q].id > 0, req'[q].id < n.id
      PROVE  req'[q].id \in late'
  <2>1. CASE n \in stored
    BY <1>1, <1>6, <2>1 DEF ReplyInv
  <2>2. CASE n = x
    <3>1. req[q].id > 0 /\ req[q].id < req[r].id /\ req[q].id \in Nat /\ req[r].id \in Nat
      BY <1>1, <1>4, <1>6, <2>2
    <3>2. req[q].id \in 1 .. (req[r].id - 1)
      BY <3>1
    <3>3. req[q].id \in Untold(req[r].id)
      BY <3>2 DEF Untold
    <3> QED BY <1>1, <3>3
  <2> QED BY <1>1, <2>1, <2>2
<1>7. ASSUME NEW k \in DOMAIN sub, Telling(k)
      PROVE  /\ [id |-> sub[k].is, by |-> "operator"] \in stored'
             /\ sub[k].is <= tab.cursor => sub[k].is \in tab.got \cup tab.left \cup late'
  BY <1>1, <1>7 DEF ReplyInv
<1>8. ASSUME NEW j \in DOMAIN sub, NEW k \in DOMAIN sub, Telling(j), Telling(k), j < k,
             sub[k].is < sub[j].is
      PROVE  sub[k].is \in late'
  BY <1>1, <1>8 DEF ReplyInv
<1>9. tab.got \subseteq {m.id : m \in stored'}
  BY <1>1 DEF ReplyInv
<1> QED BY <1>2, <1>5, <1>6, <1>7, <1>8, <1>9 DEF ReplyInv, Telling

\* Below an id stored, and below the cursor, an id in flight is late.
LEMMA BelowCursor ==
    ASSUME TypeInv, IdInv, ReplyInv, NEW r \in Requests, req[r].id > 0, req[r].pc # "commit",
           req[r].id <= tab.cursor
    PROVE  req[r].id \in tab.got \cup tab.left \cup late
<1>1. req[r].id \in Nat /\ tab.cursor \in Nat /\ tab.cursor # 0
  BY Typed DEF RequestType, TypeInv, DataInv
<1>2. tab.cursor \in tab.got
  BY <1>1 DEF ReplyInv
<1>3. PICK n \in stored : n.id = tab.cursor
  BY <1>2 DEF ReplyInv
<1>4. req[r].id < n.id => req[r].id \in late
  BY DEF ReplyInv
<1> QED BY <1>1, <1>2, <1>3, <1>4

LEMMA ReplyPublish ==
    ASSUME TypeInv, IdInv, ReplyInv, NEW r \in Requests, PublishReply(r) PROVE ReplyInv'
<1> DEFINE e == [kind |-> "message", is |-> req[r].id]
           row == [id |-> req[r].id, by |-> "operator"]
<1>1. /\ UNCHANGED <<stored, tab, nextId>> /\ late \subseteq late' /\ req[r].kind = "operator"
      /\ req[r].pc = "publish" /\ Stays(r) /\ req'[r].id = 0
  BY DropMove DEF PublishReply, At
<1>2. Publish(e) \/ (UNCHANGED sub /\ req[r].id \in late')
  BY DEF PublishReply
<1>3. req[r].id > 0 /\ req[r].id \in Nat /\ req[r].id \in 1 .. (nextId - 1)
  <2>1. req[r].id \in Nat /\ req[r].id > 0 /\ req[r].id < nextId
    BY <1>1, Typed DEF Steps, RequestType
  <2>2. nextId \in Nat
    BY DEF TypeInv, DataInv
  <2> QED BY <2>1, <2>2
<1>4. row \in stored
  BY <1>1, <1>3 DEF IdInv
<1>5. CASE sub' = sub /\ req[r].id \in late'
  <2>1. \A q \in Requests :
          \/ req'[q].id = req[q].id
          \/ /\ req'[q].id = 0
             /\ req[q].id \in late' \/ (req[q].kind # "operator" /\ req[q].pc # "commit")
    BY <1>1, <1>5 DEF Stays
  <2> QED BY <1>1, <1>5, <2>1, ReplyFrame
<1>6. CASE Publish(e)
  <2>1. e \in Events /\ e.kind = "message" /\ e.is = req[r].id /\ e.is \in 1 .. (nextId - 1)
    BY <1>3 DEF Events
  <2>2. /\ \A k \in DOMAIN sub' : \/ k \in DOMAIN sub /\ sub'[k] = sub[k]
                                  \/ k \notin DOMAIN sub /\ sub'[k] = e
        /\ \A k \in DOMAIN sub : k \in DOMAIN sub' /\ sub'[k] = sub[k]
        /\ DOMAIN sub = 1 .. Len(sub) /\ Len(sub) \in Nat
        /\ IF Reaches THEN DOMAIN sub' = 1 .. (Len(sub) + 1) /\ sub'[Len(sub) + 1] = e
           ELSE sub' = sub
    BY <1>6, <2>1, Appended, Zenon
  <2> HIDE DEF e
  <2>3. RepliesReachTheSite'
    <3> SUFFICES ASSUME NEW m \in stored, m.by = "operator"
                 PROVE  \/ m.id \in tab.got \cup tab.left \/ m.id \in late'
                        \/ Replayed /\ (\/ \E q \in Requests : req'[q].id = m.id
                                        \/ [kind |-> "message", is |-> m.id] \in {sub'[i] : i \in DOMAIN sub'})
                        \/ ~Replayed /\ m.id > tab.cursor
      BY <1>1 DEF RepliesReachTheSite, Replayed
    <3>1. \/ m.id \in tab.got \cup tab.left \/ m.id \in late
          \/ Replayed /\ (\/ \E q \in Requests : req[q].id = m.id
                          \/ [kind |-> "message", is |-> m.id] \in {sub[i] : i \in DOMAIN sub})
          \/ ~Replayed /\ m.id > tab.cursor
      BY DEF ReplyInv, RepliesReachTheSite
    <3>2. CASE Replayed /\ \E q \in Requests : req[q].id = m.id
      <4>1. PICK q \in Requests : req[q].id = m.id
        BY <3>2
      <4>2. CASE q # r
        BY <1>1, <3>2, <4>1, <4>2 DEF Stays
      <4>3. CASE q = r
        <5>1. Reaches
          BY <3>2 DEF Reaches, Replayed, Listening
        <5>2. Len(sub) + 1 \in DOMAIN sub' /\ sub'[Len(sub) + 1] = e
          BY <2>2, <5>1
        <5>3. e = [kind |-> "message", is |-> m.id]
          BY <4>1, <4>3 DEF e
        <5> QED BY <3>2, <5>2, <5>3
      <4> QED BY <4>2, <4>3
    <3>3. CASE [kind |-> "message", is |-> m.id] \in {sub[i] : i \in DOMAIN sub}
      BY <1>1, <2>2, <3>1, <3>3
    <3> QED BY <1>1, <3>1, <3>2, <3>3
  <2>4. ASSUME NEW n \in stored, NEW q \in Requests, req'[q].id > 0, req'[q].id < n.id
        PROVE  req'[q].id \in late'
    BY <1>1, <2>4 DEF ReplyInv, Stays
  <2>5. ASSUME NEW k \in DOMAIN sub', Telling(k)'
        PROVE  /\ [id |-> sub'[k].is, by |-> "operator"] \in stored
               /\ sub'[k].is <= tab.cursor => sub'[k].is \in tab.got \cup tab.left \cup late'
    <3>1. CASE k \in DOMAIN sub /\ sub'[k] = sub[k]
      <4>1. Telling(k)
        BY <2>5, <3>1 DEF Telling
      <4>2. /\ [id |-> sub[k].is, by |-> "operator"] \in stored
            /\ sub[k].is <= tab.cursor => sub[k].is \in tab.got \cup tab.left \cup late
        BY <3>1, <4>1 DEF ReplyInv
      <4> QED BY <1>1, <3>1, <4>2
    <3>2. CASE sub'[k] = e
      BY <1>1, <1>3, <1>4, <2>1, <3>2, BelowCursor
    <3> QED BY <2>2, <3>1, <3>2
  <2>6. ASSUME NEW j \in DOMAIN sub', NEW k \in DOMAIN sub', Telling(j)', Telling(k)', j < k,
               sub'[k].is < sub'[j].is
        PROVE  sub'[k].is \in late'
    <3>1. j \in DOMAIN sub /\ sub'[j] = sub[j] /\ Telling(j)
      <4>1. j \in DOMAIN sub
        BY <2>2, <2>6
      <4> QED BY <2>2, <2>6, <4>1 DEF Telling
    <3>2. CASE k \in DOMAIN sub /\ sub'[k] = sub[k]
      <4>1. Telling(k)
        BY <2>6, <3>2 DEF Telling
      <4> QED BY <1>1, <2>6, <3>1, <3>2, <4>1 DEF ReplyInv
    <3>3. CASE sub'[k] = e
      <4>1. [id |-> sub[j].is, by |-> "operator"] \in stored
        BY <3>1 DEF ReplyInv
      <4>2. req[r].id < sub[j].is
        BY <2>1, <2>6, <3>1, <3>3
      <4>3. req[r].id \in late
        BY <1>3, <4>1, <4>2 DEF ReplyInv
      <4> QED BY <1>1, <2>1, <3>3, <4>3
    <3> QED BY <2>2, <3>2, <3>3
  <2>7. tab.pc = "off" => sub' = <<>>
    BY <2>2 DEF Reaches, Listening, ReplyInv
  <2> QED BY <1>1, <2>3, <2>4, <2>5, <2>6, <2>7 DEF ReplyInv
<1> QED BY <1>1, <1>2, <1>5, <1>6

\* An event that is no reply.
LEMMA ReplyOther ==
    ASSUME TypeInv, IdInv, ReplyInv, UNCHANGED <<stored, tab, late>>,
           NEW e \in Events, e.kind # "message", Publish(e) \/ UNCHANGED sub,
           \A q \in Requests : req'[q].id = req[q].id
    PROVE  ReplyInv'
<1>1. CASE UNCHANGED sub
  BY <1>1, ReplyFrame
<1>2. CASE Publish(e)
  <2>1. /\ \A k \in DOMAIN sub' : \/ k \in DOMAIN sub /\ sub'[k] = sub[k]
                                  \/ k \notin DOMAIN sub /\ sub'[k] = e
        /\ \A k \in DOMAIN sub : k \in DOMAIN sub' /\ sub'[k] = sub[k]
        /\ (Reaches \/ sub' = sub)
    BY <1>2, Appended
  <2>2. \A k \in DOMAIN sub' : Telling(k)' => k \in DOMAIN sub /\ sub'[k] = sub[k] /\ Telling(k)
    BY <2>1 DEF Telling
  <2>3. RepliesReachTheSite'
    <3> SUFFICES ASSUME NEW m \in stored, m.by = "operator"
                 PROVE  \/ m.id \in tab.got \cup tab.left \/ m.id \in late
                        \/ Replayed /\ (\/ \E q \in Requests : req'[q].id = m.id
                                        \/ [kind |-> "message", is |-> m.id] \in {sub'[i] : i \in DOMAIN sub'})
                        \/ ~Replayed /\ m.id > tab.cursor
      BY DEF RepliesReachTheSite, Replayed
    <3>1. \/ m.id \in tab.got \cup tab.left \/ m.id \in late
          \/ Replayed /\ (\/ \E q \in Requests : req[q].id = m.id
                          \/ [kind |-> "message", is |-> m.id] \in {sub[i] : i \in DOMAIN sub})
          \/ ~Replayed /\ m.id > tab.cursor
      BY DEF ReplyInv, RepliesReachTheSite
    <3> QED BY <2>1, <3>1
  <2>4. ASSUME NEW n \in stored, NEW q \in Requests, req'[q].id > 0, req'[q].id < n.id
        PROVE  req'[q].id \in late
    BY <2>4 DEF ReplyInv
  <2>5. ASSUME NEW k \in DOMAIN sub', Telling(k)'
        PROVE  /\ [id |-> sub'[k].is, by |-> "operator"] \in stored
               /\ sub'[k].is <= tab.cursor => sub'[k].is \in tab.got \cup tab.left \cup late
    BY <2>2, <2>5 DEF ReplyInv
  <2>6. ASSUME NEW j \in DOMAIN sub', NEW k \in DOMAIN sub', Telling(j)', Telling(k)', j < k,
               sub'[k].is < sub'[j].is
        PROVE  sub'[k].is \in late
    BY <2>2, <2>6 DEF ReplyInv
  <2>7. tab.pc = "off" => sub' = <<>>
    BY <2>1 DEF Reaches, Listening, ReplyInv
  <2> QED BY <2>3, <2>4, <2>5, <2>6, <2>7 DEF ReplyInv
<1> QED BY <1>1, <1>2

LEMMA ReplyCatchUp == ASSUME TypeInv, IdInv, ReplyInv, CatchUp PROVE ReplyInv'
<1>1. UNCHANGED <<stored, req, sub, late>> /\ tab.pc = "subscribed" /\ ~Replayed
  BY DEF CatchUp, Replayed
<1>2. /\ tab'.pc = "replayed" /\ tab'.got = tab.got \cup Missed(tab.cursor) /\ Replayed'
      /\ tab'.left = {i \in tab.left : i <= tab.cursor} \cup (Ids(tab.cursor) \ Missed(tab.cursor))
      /\ Missed(tab.cursor) \subseteq Ids(tab.cursor)
  BY CatchUpMove DEF Replayed
<1>3. \A m \in stored : m.id \in Nat /\ (m.id > tab.cursor => m.id \in Ids(tab.cursor))
  BY DEF Ids, TypeInv, DataInv
<1>4. tab.cursor \in Nat /\ tab'.cursor \in {tab.cursor} \cup Missed(tab.cursor)
  BY CatchUpMove DEF TypeInv, DataInv
<1>5. RepliesReachTheSite'
  <2> SUFFICES ASSUME NEW m \in stored, m.by = "operator", m.id \notin late
               PROVE  m.id \in tab'.got \cup tab'.left
    BY <1>1 DEF RepliesReachTheSite
  <2>1. m.id \in tab.got \cup tab.left \/ m.id > tab.cursor
    BY <1>1 DEF RepliesReachTheSite, ReplyInv
  <2>2. m.id \in Nat /\ (m.id > tab.cursor => m.id \in Ids(tab.cursor))
    BY <1>3
  <2>3. CASE m.id > tab.cursor
    BY <1>2, <2>2, <2>3
  <2>4. CASE m.id <= tab.cursor
    BY <1>2, <1>4, <2>1, <2>2, <2>4
  <2> QED BY <1>4, <2>2, <2>3, <2>4
<1>6. ASSUME NEW k \in DOMAIN sub, Telling(k)
      PROVE  /\ [id |-> sub[k].is, by |-> "operator"] \in stored
             /\ sub[k].is <= tab'.cursor => sub[k].is \in tab'.got \cup tab'.left \cup late
  <2>1. /\ [id |-> sub[k].is, by |-> "operator"] \in stored
        /\ sub[k].is <= tab.cursor => sub[k].is \in tab.got \cup tab.left \cup late
    BY <1>6 DEF ReplyInv
  <2> DEFINE x == [id |-> sub[k].is, by |-> "operator"]
  <2>2. x \in stored /\ x.id = sub[k].is
    BY <2>1
  <2> HIDE DEF x
  <2>3. sub[k].is \in Nat /\ (sub[k].is > tab.cursor => sub[k].is \in Ids(tab.cursor))
    BY <1>3, <2>2
  <2> QED BY <1>2, <1>4, <2>1, <2>3
<1>7. tab'.got \subseteq {m.id : m \in stored}
  BY <1>2 DEF Ids, ReplyInv
<1>8. tab'.cursor # 0 => tab'.cursor \in tab'.got
  BY <1>2, <1>4 DEF ReplyInv
<1>9. ASSUME NEW n \in stored, NEW q \in Requests, req[q].id > 0, req[q].id < n.id
      PROVE  req[q].id \in late
  BY <1>9 DEF ReplyInv
<1>10. ASSUME NEW j \in DOMAIN sub, NEW k \in DOMAIN sub, Telling(j), Telling(k), j < k,
              sub[k].is < sub[j].is
       PROVE  sub[k].is \in late
  BY <1>10 DEF ReplyInv
<1> QED BY <1>1, <1>2, <1>5, <1>6, <1>7, <1>8, <1>9, <1>10 DEF ReplyInv, Telling

LEMMA ReplyForward == ASSUME TypeInv, IdInv, ReplyInv, Forward PROVE ReplyInv'
<1>1. UNCHANGED <<stored, req, late>>
  BY DEF Forward, history
<1>2. /\ Len(sub) \in Nat /\ Len(sub) >= 1 /\ DOMAIN sub = 1 .. Len(sub)
      /\ DOMAIN sub' = 1 .. (Len(sub) - 1)
      /\ \A k \in DOMAIN sub' : k + 1 \in DOMAIN sub /\ sub'[k] = sub[k + 1]
      /\ tab.pc = "live" /\ tab'.pc = "live" /\ 1 \in DOMAIN sub
  BY ForwardMove
<1>3. CASE /\ sub[1].kind = "message" /\ sub[1].is \in 1 .. (nextId - 1)
           /\ tab'.got = tab.got \cup {sub[1].is} /\ tab'.cursor = sub[1].is
           /\ tab'.left = tab.left
  <2>1. Telling(1) /\ [id |-> sub[1].is, by |-> "operator"] \in stored /\ sub[1].is \in Nat
        /\ sub[1].is # 0
    BY <1>2, <1>3 DEF Telling, ReplyInv, TypeInv, DataInv
  <2>2. sub[1].is \in {m.id : m \in stored}
    BY <2>1
  <2>3. ASSUME NEW k \in DOMAIN sub', Telling(k)'
        PROVE  /\ Telling(k + 1)
               /\ [id |-> sub'[k].is, by |-> "operator"] \in stored
               /\ sub'[k].is <= tab'.cursor => sub'[k].is \in tab'.got \cup tab'.left \cup late
    <3>1. Telling(k + 1) /\ sub'[k] = sub[k + 1] /\ k + 1 \in DOMAIN sub /\ 1 < k + 1
      BY <1>2, <2>3 DEF Telling
    <3>2. [id |-> sub'[k].is, by |-> "operator"] \in stored /\ sub'[k].is \in Nat
      BY <3>1 DEF ReplyInv, TypeInv, DataInv, Telling
    <3>3. sub'[k].is < sub[1].is => sub'[k].is \in late
      BY <1>2, <2>1, <3>1 DEF ReplyInv
    <3> QED BY <1>3, <2>1, <3>1, <3>2, <3>3
  <2>4. RepliesReachTheSite'
    <3> SUFFICES ASSUME NEW m \in stored, m.by = "operator", m.id \notin tab'.got, m.id \notin late,
                        m.id \notin tab.left
                 PROVE  \/ \E q \in Requests : req[q].id = m.id
                        \/ [kind |-> "message", is |-> m.id] \in {sub'[i] : i \in DOMAIN sub'}
      BY <1>1, <1>2, <1>3 DEF RepliesReachTheSite, Replayed
    <3>1. \/ \E q \in Requests : req[q].id = m.id
          \/ [kind |-> "message", is |-> m.id] \in {sub[i] : i \in DOMAIN sub}
      BY <1>2, <1>3 DEF ReplyInv, RepliesReachTheSite, Replayed
    <3>2. ASSUME NEW i \in DOMAIN sub, sub[i] = [kind |-> "message", is |-> m.id]
          PROVE  [kind |-> "message", is |-> m.id] \in {sub'[k] : k \in DOMAIN sub'}
      <4>1. sub[i].is = m.id
        BY <3>2
      <4>2. i # 1
        BY <1>3, <4>1
      <4>3. i - 1 \in DOMAIN sub' /\ sub'[i - 1] = sub[(i - 1) + 1] /\ (i - 1) + 1 = i
        BY <1>2, <4>2
      <4> QED BY <3>2, <4>3
    <3> QED BY <3>1, <3>2
  <2>5. ASSUME NEW j \in DOMAIN sub', NEW k \in DOMAIN sub', Telling(j)', Telling(k)', j < k,
               sub'[k].is < sub'[j].is
        PROVE  sub'[k].is \in late
    <3>1. /\ Telling(j + 1) /\ Telling(k + 1) /\ j + 1 < k + 1 /\ sub'[k] = sub[k + 1]
          /\ sub'[j] = sub[j + 1] /\ j + 1 \in DOMAIN sub /\ k + 1 \in DOMAIN sub
      <4>1. Telling(j + 1) /\ Telling(k + 1)
        BY <2>3, <2>5
      <4>2. j \in Int /\ k \in Int
        BY <1>2
      <4> QED BY <1>2, <2>5, <4>1, <4>2
    <3> QED BY <2>5, <3>1 DEF ReplyInv
  <2> QED BY <1>1, <1>2, <1>3, <2>1, <2>2, <2>3, <2>4, <2>5 DEF ReplyInv
<1>4. CASE /\ sub[1].kind = "status" /\ tab'.got = tab.got /\ tab'.cursor = tab.cursor
           /\ tab'.left = tab.left
  <2>1. \A k \in DOMAIN sub' : Telling(k)' => Telling(k + 1)
    BY <1>2 DEF Telling
  <2>2. RepliesReachTheSite'
    <3> SUFFICES ASSUME NEW m \in stored, m.by = "operator", m.id \notin tab.got, m.id \notin late,
                        m.id \notin tab.left
                 PROVE  \/ \E q \in Requests : req[q].id = m.id
                        \/ [kind |-> "message", is |-> m.id] \in {sub'[i] : i \in DOMAIN sub'}
      BY <1>1, <1>2, <1>4 DEF RepliesReachTheSite, Replayed
    <3>1. \/ \E q \in Requests : req[q].id = m.id
          \/ [kind |-> "message", is |-> m.id] \in {sub[i] : i \in DOMAIN sub}
      BY <1>2 DEF ReplyInv, RepliesReachTheSite, Replayed
    <3>2. ASSUME NEW i \in DOMAIN sub, sub[i] = [kind |-> "message", is |-> m.id]
          PROVE  [kind |-> "message", is |-> m.id] \in {sub'[k] : k \in DOMAIN sub'}
      <4>1. sub[i].kind = "message"
        BY <3>2
      <4>2. i # 1
        BY <1>4, <4>1
      <4>3. i - 1 \in DOMAIN sub' /\ sub'[i - 1] = sub[(i - 1) + 1] /\ (i - 1) + 1 = i
        BY <1>2, <4>2
      <4> QED BY <3>2, <4>3
    <3> QED BY <3>1, <3>2
  <2>3. ASSUME NEW k \in DOMAIN sub', Telling(k)'
        PROVE  /\ [id |-> sub'[k].is, by |-> "operator"] \in stored
               /\ sub'[k].is <= tab'.cursor => sub'[k].is \in tab'.got \cup tab'.left \cup late
    BY <1>2, <1>4, <2>1, <2>3 DEF ReplyInv
  <2>4. ASSUME NEW j \in DOMAIN sub', NEW k \in DOMAIN sub', Telling(j)', Telling(k)', j < k,
               sub'[k].is < sub'[j].is
        PROVE  sub'[k].is \in late
    <3>1. /\ Telling(j + 1) /\ Telling(k + 1) /\ j + 1 < k + 1 /\ sub'[k] = sub[k + 1]
          /\ sub'[j] = sub[j + 1] /\ j + 1 \in DOMAIN sub /\ k + 1 \in DOMAIN sub
      BY <1>2, <2>1, <2>4
    <3> QED BY <2>4, <3>1 DEF ReplyInv
  <2> QED BY <1>1, <1>2, <1>4, <2>2, <2>3, <2>4 DEF ReplyInv
<1> QED BY <1>3, <1>4, ForwardMove

\* The stream opens, goes live or closes: what the tab shows stays.
LEMMA ReplyStream ==
    ASSUME TypeInv, IdInv, ReplyInv, Connect \/ GoLive \/ Disconnect PROVE ReplyInv'
<1>1. UNCHANGED <<stored, req, late>> /\ tab'.got = tab.got /\ tab'.cursor = tab.cursor
      /\ tab'.left = tab.left
  BY DEF Connect, GoLive, Disconnect, history, TypeInv, DataInv
<1>2. CASE GoLive
  <2>1. UNCHANGED sub /\ Replayed /\ Replayed' /\ tab'.pc = "live"
    BY <1>2 DEF GoLive, Replayed, TypeInv, DataInv
  <2> QED BY <1>1, <2>1 DEF ReplyInv, RepliesReachTheSite, Telling
<1>3. CASE Connect \/ Disconnect
  <2>1. sub' = <<>> /\ ~Replayed' /\ DOMAIN sub' = {}
    <3>1. sub' = <<>> /\ tab'.pc \in {"off", "subscribed"}
      BY <1>3 DEF Connect, Disconnect, TypeInv, DataInv
    <3> QED BY <3>1 DEF Replayed
  <2>2. RepliesReachTheSite'
    <3> SUFFICES ASSUME NEW m \in stored, m.by = "operator", m.id \notin tab.got, m.id \notin late,
                        m.id \notin tab.left
                 PROVE  m.id > tab.cursor
      BY <1>1, <2>1 DEF RepliesReachTheSite, Replayed
    <3>1. m.id \in Nat /\ m.id > 0 /\ tab.cursor \in Nat
      BY DEF TypeInv, DataInv
    <3>2. ASSUME NEW r \in Requests, req[r].id = m.id PROVE m.id > tab.cursor
      <4>1. req[r].pc # "commit" /\ req[r].id > 0
        BY <3>1, <3>2 DEF IdInv
      <4> QED BY <3>1, <3>2, <4>1, BelowCursor
    <3>3. ASSUME NEW i \in DOMAIN sub, sub[i] = [kind |-> "message", is |-> m.id]
          PROVE  m.id > tab.cursor
      <4>1. Telling(i) /\ sub[i].is = m.id
        BY <3>3 DEF Telling
      <4>2. sub[i].is <= tab.cursor => sub[i].is \in tab.got \cup tab.left \cup late
        BY <4>1 DEF ReplyInv
      <4> QED BY <3>1, <4>1, <4>2
    <3> QED BY <3>2, <3>3 DEF ReplyInv, RepliesReachTheSite
  <2> QED BY <1>1, <2>1, <2>2 DEF ReplyInv
<1> QED BY <1>2, <1>3

LEMMA ReplyNext == ASSUME TypeInv, IdInv, ReplyInv, [Next]_vars PROVE ReplyInv'
<1>1. ASSUME NEW r \in Requests, req[r].id = 0, req'[r].id \in {0, nextId}, Stays(r),
             UNCHANGED <<stored, sub, tab, late>>
      PROVE  ReplyInv'
  <2>1. \A q \in Requests : req'[q].id = req[q].id \/ (req[q].id = 0 /\ req'[q].id = nextId)
    BY <1>1 DEF Stays
  <2> QED BY <1>1, <2>1, ReplyFrame
<1>2. ASSUME NEW r \in Requests, UserWrites(r) \/ OperatorWrites(r) PROVE ReplyInv'
  <2>1. UNCHANGED <<stored, sub, tab, late>>
    BY <1>2 DEF UserWrites, OperatorWrites, site, history
  <2>2. req[r].pc = "idle" /\ req'[r].id = 0 /\ Stays(r)
    BY <1>2, UserMove, OperatorMove
  <2>3. req[r].id = 0
    BY <2>2, Typed DEF Steps, RequestType
  <2> QED BY <1>1, <2>1, <2>2, <2>3
<1>3. ASSUME NEW r \in Requests, Shut(r), req[r].pc = "idle" PROVE ReplyInv'
  <2>1. UNCHANGED <<stored, sub, tab, late>>
    BY <1>3 DEF Shut, site
  <2>2. req[r].id = 0
    BY <1>3, Typed DEF Steps, RequestType
  <2>3. \A q \in Requests : req'[q].id = req[q].id
    BY <1>3, <2>2, ShutMove
  <2> QED BY <2>1, <2>3, ReplyFrame
<1>4. ASSUME NEW r \in Requests, CreateTopic(r) \/ ClaimTopic(r) \/ DropTopic(r) \/ Insert(r)
      PROVE  ReplyInv'
  <2>1. UNCHANGED <<stored, sub, tab, late>>
    BY <1>4 DEF CreateTopic, ClaimTopic, DropTopic, Insert, site, history
  <2>2. req[r].pc \in {"create", "claim", "drop", "insert"}
    BY <1>4 DEF CreateTopic, ClaimTopic, DropTopic, Insert, At
  <2>3. req[r].id = 0
    BY <2>2, Typed DEF Steps, RequestType
  <2>4. Stays(r) /\ req'[r].id \in {0, nextId}
    BY <1>4, CreateMove, DropMove, ClaimMove, DropTopicMove, InsertMove
  <2> QED BY <1>1, <2>1, <2>3, <2>4
<1>5. ASSUME NEW r \in Requests, Mirror(r) PROVE ReplyInv'
  <2> DEFINE e == [kind |-> "status", is |-> "OPEN"]
  <2>1. e \in Events /\ e.kind # "message"
    BY DEF Events
  <2>2. (Publish(e) \/ UNCHANGED sub) /\ UNCHANGED <<stored, tab, late>>
    BY <1>5 DEF Mirror
  <2>3. req[r].pc = "mirror" /\ req'[r].id = 0 /\ Stays(r)
    BY <1>5, MirrorMove
  <2>4. \A q \in Requests : req'[q].id = req[q].id
    <3>1. req[r].id = 0
      BY <2>3, Typed DEF Steps, RequestType
    <3> QED BY <2>3, <3>1 DEF Stays
  <2> HIDE DEF e
  <2> QED BY <2>1, <2>2, <2>4, ReplyOther
<1>6. ASSUME NEW r \in Requests, Announce(r) PROVE ReplyInv'
  <2> DEFINE e == [kind |-> "status", is |-> "CLOSED"]
  <2>1. e \in Events /\ e.kind # "message"
    BY DEF Events
  <2>2. (Publish(e) \/ UNCHANGED sub) /\ UNCHANGED <<stored, tab, late>> /\ Drop(r)
        /\ req[r].pc = "announce"
    BY <1>6 DEF Announce, At
  <2>3. \A q \in Requests : req'[q].id = req[q].id
    <3>1. req[r].id = 0
      BY <2>2, Typed DEF Steps, RequestType
    <3> QED BY <2>2, <3>1, DropMove DEF Stays
  <2> HIDE DEF e
  <2> QED BY <2>1, <2>2, <2>3, ReplyOther
<1>7. ASSUME NEW r \in Requests, Relay(r) PROVE ReplyInv'
  <2>1. /\ UNCHANGED <<stored, sub, tab, late>> /\ Drop(r) /\ req[r].kind # "operator"
        /\ req[r].pc # "commit"
    BY <1>7 DEF Relay, At, site
  <2>2. Stays(r) /\ req'[r].id = 0
    BY <2>1, DropMove
  <2>3. \A q \in Requests :
          \/ req'[q].id = req[q].id
          \/ req'[q].id = 0 /\ req[q].kind # "operator" /\ req[q].pc # "commit"
    BY <2>1, <2>2 DEF Stays
  <2> QED BY <2>1, <2>3, ReplyFrame
<1>8. ASSUME NEW r \in Requests, Crash(r) PROVE ReplyInv'
  <2>1. /\ UNCHANGED <<stored, sub, tab>> /\ Drop(r) /\ late \subseteq late'
        /\ (req[r].id # 0 => req[r].id \in late')
    BY <1>8 DEF Crash, site
  <2>2. Stays(r) /\ req'[r].id = 0
    BY <2>1, DropMove
  <2>3. \A q \in Requests :
          req'[q].id = req[q].id \/ (req'[q].id = 0 /\ req[q].id \in late')
    BY <2>1, <2>2 DEF Stays
  <2> QED BY <2>1, <2>3, ReplyFrame
<1>9. CASE Age \/ UNCHANGED vars
  <2>1. UNCHANGED <<stored, sub, tab, late, req>>
    BY <1>9 DEF Age, vars, site, history
  <2> QED BY <2>1, ReplyFrame
<1> QED
  BY <1>2, <1>3, <1>4, <1>5, <1>6, <1>7, <1>8, <1>9, ReplyCommit, ReplyPublish, ReplyCatchUp,
     ReplyForward, ReplyStream, Cases

-----------------------------------------------------------------------------
(* What the tab was told of the status.                                     *)

LEMMA BannerFrame ==
    ASSUME TypeInv, BannerInv, UNCHANGED <<sub, tab>>, conv'.status = conv.status,
           behind => behind', Announcing' = Announcing,
           \A r \in Announcing : req'[r].kind = req[r].kind
    PROVE  BannerInv'
<1>1. ASSUME conv.status = "NONE"
      PROVE  /\ tab.banner = "NONE" /\ Announcing' = {}
             /\ \A k \in DOMAIN sub : ~Changing(k)
  BY <1>1 DEF BannerInv
<1>2. ASSUME ~behind
      PROVE  /\ \A q, r \in Announcing : q = r
             /\ \A r \in Announcing : req'[r].kind = "close" <=> conv.status = "CLOSED"
             /\ Announcing = {} =>
                 /\ \A k \in DOMAIN sub : IsLast(k) => (sub[k].is = "CLOSED" <=> conv.status = "CLOSED")
                 /\ Replayed /\ (\A k \in DOMAIN sub : ~Changing(k))
                      => (tab.banner = "CLOSED" <=> conv.status = "CLOSED")
  BY <1>2 DEF BannerInv
<1> QED BY <1>1, <1>2 DEF BannerInv, Replayed, IsLast, Changing

\* A request that announces nothing before and after.
LEMMA Announced ==
    ASSUME NEW r \in Requests, Stays(r),
           r \in Announcing' <=> r \in Announcing
    PROVE  Announcing' = Announcing
BY DEF Announcing, Stays

\* The change announced is the last of the subscription, if the tab listens.
LEMMA BannerTold ==
    ASSUME TypeInv, ReplyInv, BannerInv, NEW r \in Announcing, NEW is \in {"OPEN", "CLOSED"},
           Publish([kind |-> "status", is |-> is]), UNCHANGED <<tab, conv>>, behind => behind',
           ~behind => (is = "CLOSED" <=> conv.status = "CLOSED"),
           Announcing' \subseteq Announcing \ {r},
           \A q \in Announcing' : req'[q].kind = req[q].kind
    PROVE  BannerInv'
<1> DEFINE e == [kind |-> "status", is |-> is]
<1>1. e \in Events /\ e.kind = "status" /\ e.is = is
  BY DEF Events
<1>2. Publish(e)
  OBVIOUS
<1>3. /\ DOMAIN sub = 1 .. Len(sub) /\ Len(sub) \in Nat
      /\ IF Reaches THEN DOMAIN sub' = 1 .. (Len(sub) + 1) /\ sub'[Len(sub) + 1] = e
         ELSE sub' = sub
  <2>1. e.kind # "message"
    BY <1>1
  <2> HIDE DEF e
  <2> QED BY <1>1, <1>2, <2>1, Appended
<1> HIDE DEF e
<1>4. conv.status # "NONE"
  BY DEF BannerInv
<1>5. ASSUME ~behind
      PROVE  /\ Announcing' = {}
             /\ \A k \in DOMAIN sub' : IsLast(k)' => (sub'[k].is = "CLOSED" <=> conv.status = "CLOSED")
             /\ ~(Replayed' /\ \A k \in DOMAIN sub' : ~Changing(k)')
  <2>1. Announcing = {r}
    BY <1>5 DEF BannerInv
  <2>2. CASE Reaches
    <3>1. PICK n \in Nat : n = Len(sub) + 1
      BY <1>3
    <3>2. DOMAIN sub' = 1 .. n /\ sub'[n] = e /\ n >= 1
      BY <1>3, <2>2, <3>1
    <3>3. n \in DOMAIN sub' /\ Changing(n)'
      BY <1>1, <3>2 DEF Changing
    <3>4. ASSUME NEW k \in DOMAIN sub', IsLast(k)' PROVE k = n
      BY <3>2, <3>3, <3>4 DEF IsLast
    <3>5. sub'[n].is = is
      BY <1>1, <3>2
    <3> QED BY <1>5, <2>1, <3>3, <3>4, <3>5
  <2>3. CASE ~Reaches
    <3>1. sub = <<>> /\ sub' = sub /\ ~Replayed'
      BY <1>3, <2>3 DEF Reaches, Listening, Replayed, ReplyInv
    <3> QED BY <2>1, <3>1
  <2> QED BY <2>2, <2>3
<1> QED BY <1>4, <1>5 DEF BannerInv

\* A reply is no change of status.
LEMMA BannerReply == ASSUME TypeInv, BannerInv, NEW r \in Requests, PublishReply(r) PROVE BannerInv'
<1> DEFINE e == [kind |-> "message", is |-> req[r].id]
<1>1. UNCHANGED <<tab, conv, behind>> /\ req[r].pc = "publish" /\ Drop(r)
  BY DEF PublishReply, At
<1>2. Stays(r) /\ req'[r].pc = "idle" /\ ~req'[r].reopened /\ ~req[r].reopened
  BY <1>1, DropMove, Typed DEF Steps
<1>3. Announcing' = Announcing /\ \A q \in Announcing : req'[q].kind = req[q].kind
  <2>1. r \notin Announcing /\ r \notin Announcing'
    BY <1>1, <1>2 DEF Announcing
  <2>2. Announcing' = Announcing
    BY <1>2, <2>1, Announced
  <2> QED BY <1>2, <2>1, <2>2 DEF Stays, Announcing
<1>4. CASE UNCHANGED sub
  BY <1>1, <1>3, <1>4, BannerFrame
<1>5. CASE Publish(e)
  <2>1. e \in Events /\ e.kind = "message" /\ e.is \in 1 .. (nextId - 1)
    <3>1. req[r].id \in Nat /\ req[r].id > 0 /\ req[r].id < nextId /\ nextId \in Nat
      BY <1>1, Typed DEF Steps, RequestType, TypeInv, DataInv
    <3> QED BY <3>1 DEF Events
  <2> HIDE DEF e
  <2>2. /\ \A k \in DOMAIN sub' : \/ k \in DOMAIN sub /\ sub'[k] = sub[k]
                                  \/ k \notin DOMAIN sub /\ sub'[k] = e
        /\ \A k \in DOMAIN sub : k \in DOMAIN sub' /\ sub'[k] = sub[k]
    BY <1>5, <2>1, Appended, Zenon
  <2>3. \A k : Changing(k)' <=> Changing(k)
    BY <2>1, <2>2 DEF Changing
  <2>4. \A k \in DOMAIN sub' : IsLast(k)' => IsLast(k) /\ sub'[k] = sub[k] /\ k \in DOMAIN sub
    BY <2>2, <2>3 DEF IsLast, Changing
  <2>5. ASSUME conv.status = "NONE"
        PROVE  tab.banner = "NONE" /\ Announcing' = {} /\ \A k \in DOMAIN sub' : ~Changing(k)'
    BY <1>3, <2>3, <2>5 DEF BannerInv, Changing
  <2>6. ASSUME ~behind
        PROVE  /\ \A p, q \in Announcing' : p = q
               /\ \A q \in Announcing' : req'[q].kind = "close" <=> conv.status = "CLOSED"
               /\ Announcing' = {} =>
                   /\ \A k \in DOMAIN sub' : IsLast(k)' => (sub'[k].is = "CLOSED" <=> conv.status = "CLOSED")
                   /\ Replayed /\ (\A k \in DOMAIN sub' : ~Changing(k)')
                        => (tab.banner = "CLOSED" <=> conv.status = "CLOSED")
    BY <1>3, <2>2, <2>3, <2>4, <2>6 DEF BannerInv
  <2> QED BY <1>1, <2>5, <2>6 DEF BannerInv, Replayed
<1> QED BY <1>4, <1>5 DEF PublishReply

LEMMA BannerForward == ASSUME TypeInv, BannerInv, Forward PROVE BannerInv'
<1>1. UNCHANGED <<conv, req, behind>> /\ Announcing' = Announcing
  BY DEF Forward, history, Announcing
<1>2. /\ Len(sub) \in Nat /\ Len(sub) >= 1 /\ DOMAIN sub = 1 .. Len(sub)
      /\ DOMAIN sub' = 1 .. (Len(sub) - 1)
      /\ \A k \in DOMAIN sub' : k + 1 \in DOMAIN sub /\ sub'[k] = sub[k + 1]
      /\ tab.pc = "live" /\ tab'.pc = "live" /\ 1 \in DOMAIN sub
  BY ForwardMove
<1>3. \A k \in DOMAIN sub' : Changing(k)' <=> Changing(k + 1)
  BY <1>2 DEF Changing
<1>4. \A k \in DOMAIN sub : k # 1 => k - 1 \in DOMAIN sub' /\ (k - 1) + 1 = k
  BY <1>2
<1>5. ASSUME NEW k \in DOMAIN sub', IsLast(k)' PROVE IsLast(k + 1) /\ k + 1 \in DOMAIN sub
  <2>1. Changing(k + 1) /\ k + 1 \in DOMAIN sub /\ k \in Nat
    BY <1>2, <1>3, <1>5 DEF IsLast
  <2>2. ASSUME NEW j \in DOMAIN sub, j > k + 1 PROVE ~Changing(j)
    <3>1. j # 1 /\ j \in Nat
      BY <1>2, <2>1, <2>2
    <3>2. j - 1 \in DOMAIN sub' /\ (j - 1) + 1 = j /\ j - 1 > k
      BY <1>2, <1>4, <2>1, <2>2, <3>1
    <3>3. ~Changing(j - 1)'
      BY <1>5, <3>2 DEF IsLast
    <3> QED BY <1>3, <3>2, <3>3
  <2> QED BY <2>1, <2>2 DEF IsLast
<1>6. (\A k \in DOMAIN sub' : ~Changing(k)') => \A k \in DOMAIN sub : k # 1 => ~Changing(k)
  BY <1>3, <1>4
<1>7. CASE sub[1].kind = "message" /\ tab'.banner = tab.banner
  <2>1. ~Changing(1)
    BY <1>7 DEF Changing
  <2>2. ASSUME conv.status = "NONE"
        PROVE  tab'.banner = "NONE" /\ Announcing = {} /\ \A k \in DOMAIN sub' : ~Changing(k)'
    BY <1>2, <1>3, <1>7, <2>2 DEF BannerInv
  <2>3. ASSUME ~behind, Announcing = {}
        PROVE  /\ \A k \in DOMAIN sub' : IsLast(k)' => (sub'[k].is = "CLOSED" <=> conv.status = "CLOSED")
               /\ (\A k \in DOMAIN sub' : ~Changing(k)')
                    => (tab'.banner = "CLOSED" <=> conv.status = "CLOSED")
    <3>1. Replayed
      BY <1>2 DEF Replayed
    <3> QED BY <1>2, <1>5, <1>6, <1>7, <2>1, <2>3, <3>1 DEF BannerInv
  <2> QED BY <1>1, <2>2, <2>3 DEF BannerInv
<1>8. CASE sub[1].kind = "status" /\ tab'.banner = sub[1].is
  <2>1. Changing(1)
    BY <1>2, <1>8 DEF Changing
  <2>2. conv.status # "NONE"
    BY <1>2, <2>1 DEF BannerInv
  <2>3. ASSUME ~behind, Announcing = {}
        PROVE  /\ \A k \in DOMAIN sub' : IsLast(k)' => (sub'[k].is = "CLOSED" <=> conv.status = "CLOSED")
               /\ (\A k \in DOMAIN sub' : ~Changing(k)')
                    => (tab'.banner = "CLOSED" <=> conv.status = "CLOSED")
    <3>1. ASSUME \A k \in DOMAIN sub' : ~Changing(k)' PROVE IsLast(1)
      BY <1>6, <2>1, <3>1 DEF IsLast
    <3> QED BY <1>2, <1>5, <1>8, <2>3, <3>1 DEF BannerInv
  <2> QED BY <1>1, <2>2, <2>3 DEF BannerInv
<1> QED BY <1>7, <1>8, ForwardMove

LEMMA BannerCatchUp == ASSUME TypeInv, BannerInv, CatchUp PROVE BannerInv'
<1>1. UNCHANGED <<conv, req, sub>> /\ Announcing' = Announcing /\ (behind' => behind)
      /\ (~behind' => ~behind \/ (Announcing = {} /\ sub = <<>>))
  BY DEF CatchUp, Announcing
<1>2. tab'.banner = (IF conv.status = "NONE" THEN tab.banner ELSE conv.status)
  BY CatchUpMove
<1>3. conv.status = "NONE" => tab'.banner = "NONE" /\ Announcing = {} /\ \A k \in DOMAIN sub : ~Changing(k)
  BY <1>2 DEF BannerInv
<1>4. tab'.banner = "CLOSED" <=> conv.status = "CLOSED"
  BY <1>2, <1>3
<1>5. ASSUME ~behind'
      PROVE  /\ \A q, r \in Announcing : q = r
             /\ \A r \in Announcing : req[r].kind = "close" <=> conv.status = "CLOSED"
             /\ Announcing = {} =>
                  \A k \in DOMAIN sub : IsLast(k) => (sub[k].is = "CLOSED" <=> conv.status = "CLOSED")
  <2>1. CASE ~behind
    BY <2>1 DEF BannerInv
  <2>2. CASE Announcing = {} /\ sub = <<>>
    BY <2>2
  <2> QED BY <1>1, <1>5, <2>1, <2>2
<1> QED BY <1>1, <1>3, <1>4, <1>5 DEF BannerInv, IsLast, Changing

LEMMA BannerStream == ASSUME TypeInv, BannerInv, Connect \/ GoLive \/ Disconnect PROVE BannerInv'
<1>1. UNCHANGED <<conv, req, behind>> /\ Announcing' = Announcing /\ tab'.banner = tab.banner
  BY DEF Connect, GoLive, Disconnect, history, Announcing, TypeInv, DataInv
<1>2. CASE GoLive
  <2>1. UNCHANGED sub /\ Replayed
    BY <1>2 DEF GoLive, Replayed
  <2> QED BY <1>1, <2>1 DEF BannerInv, IsLast, Changing
<1>3. CASE Connect \/ Disconnect
  <2>1. sub' = <<>> /\ ~Replayed'
    BY <1>3 DEF Connect, Disconnect, Replayed, TypeInv, DataInv
  <2>2. DOMAIN sub' = {}
    BY <2>1
  <2> QED BY <1>1, <2>1, <2>2 DEF BannerInv
<1> QED BY <1>2, <1>3

LEMMA BannerUser == ASSUME TypeInv, BannerInv, NEW r \in Requests, UserWrites(r) PROVE BannerInv'
<1>1. /\ UNCHANGED <<sub, tab>> /\ conv'.status = "OPEN"
      /\ (~behind' => ~behind /\ (conv.status = "CLOSED" => Announcing = {}))
  <2>1. UNCHANGED <<sub, tab>> /\ conv'.status = "OPEN"
    BY DEF UserWrites, Reopen, site, TypeInv, DataInv
  <2>2. behind' = (behind \/ (conv.status = "CLOSED" /\ Announcing # {}))
    BY DEF UserWrites
  <2> QED BY <2>1, <2>2, Zenon
<1>2. /\ Stays(r) /\ req[r].pc = "idle" /\ req'[r].pc # "announce" /\ req'[r].kind = "user"
      /\ req'[r].reopened = (conv.status = "CLOSED")
  BY UserMove
<1>3. r \notin Announcing
  BY <1>2, Typed DEF Announcing, Steps
<1>4. Announcing' = IF conv.status = "CLOSED" THEN Announcing \cup {r} ELSE Announcing
  BY <1>2, <1>3 DEF Announcing, Stays
<1>5. \A q \in Announcing : req'[q] = req[q]
  BY <1>2, <1>3 DEF Stays, Announcing
<1>6. ASSUME ~behind'
      PROVE  /\ \A p, q \in Announcing' : p = q
             /\ \A q \in Announcing' : req'[q].kind # "close"
             /\ Announcing' = {} =>
                 /\ \A k \in DOMAIN sub : IsLast(k) => sub[k].is # "CLOSED"
                 /\ Replayed /\ (\A k \in DOMAIN sub : ~Changing(k)) => tab.banner # "CLOSED"
  <2>1. CASE conv.status = "CLOSED"
    BY <1>1, <1>2, <1>4, <1>6, <2>1
  <2>2. CASE conv.status # "CLOSED"
    BY <1>1, <1>4, <1>5, <1>6, <2>2 DEF BannerInv
  <2> QED BY <2>1, <2>2
<1> QED BY <1>1, <1>6 DEF BannerInv, Replayed, IsLast, Changing

LEMMA BannerShut ==
    ASSUME TypeInv, BannerInv, NEW r \in Requests, Shut(r), req[r].pc = "idle" PROVE BannerInv'
<1>1. /\ UNCHANGED <<sub, tab>> /\ conv'.status = "CLOSED" /\ (~behind' => Announcing = {})
  BY DEF Shut, site, TypeInv, DataInv
<1>2. req'[r].kind = "close" /\ req'[r].pc = "announce"
      /\ \A q \in Requests \ {r} : req'[q].pc = req[q].pc /\ req'[q].reopened = req[q].reopened
  BY ShutMove
<1>3. Announcing' = Announcing \cup {r}
  BY <1>2 DEF Announcing
<1> QED BY <1>1, <1>2, <1>3 DEF BannerInv

LEMMA BannerNext == ASSUME TypeInv, ReplyInv, BannerInv, [Next]_vars PROVE BannerInv'
<1>1. ASSUME NEW r \in Requests, Stays(r), UNCHANGED <<sub, tab>>, conv'.status = conv.status,
             behind => behind', r \in Announcing' <=> r \in Announcing,
             r \in Announcing => req'[r].kind = req[r].kind
      PROVE  BannerInv'
  <2>1. Announcing' = Announcing
    BY <1>1, Announced
  <2>2. \A q \in Announcing : req'[q].kind = req[q].kind
    BY <1>1 DEF Stays, Announcing
  <2> QED BY <1>1, <2>1, <2>2, BannerFrame
\* The request leaves without a word, or its failure is noted.
<1>2. ASSUME NEW r \in Requests, Drop(r), UNCHANGED <<sub, tab, conv>>, behind => behind',
             r \in Announcing => behind'
      PROVE  BannerInv'
  <2>1. Stays(r) /\ req'[r].pc = "idle" /\ ~req'[r].reopened
    BY <1>2, DropMove
  <2>2. r \notin Announcing' /\ Announcing' \subseteq Announcing
    BY <2>1 DEF Announcing, Stays
  <2>3. CASE r \notin Announcing
    BY <1>1, <1>2, <2>1, <2>2, <2>3
  <2>4. CASE r \in Announcing
    BY <1>2, <2>2, <2>4 DEF BannerInv, Changing
  <2> QED BY <2>3, <2>4
<1>3. ASSUME NEW r \in Requests, OperatorWrites(r) PROVE BannerInv'
  <2>1. UNCHANGED <<sub, tab, conv, behind>>
    BY <1>3 DEF OperatorWrites, site, history
  <2>2. Stays(r) /\ req[r].pc = "idle" /\ req'[r].pc = "insert" /\ ~req'[r].reopened
    BY <1>3, OperatorMove
  <2>3. r \notin Announcing /\ r \notin Announcing'
    BY <2>2, Typed DEF Announcing, Steps
  <2> QED BY <1>1, <2>1, <2>2, <2>3
<1>4. ASSUME NEW r \in Requests, CreateTopic(r) PROVE BannerInv'
  <2>1. UNCHANGED <<sub, tab, conv>> /\ req[r].pc = "create" /\ req[r].kind = "user"
    BY <1>4 DEF CreateTopic, At, site
  <2>2. CASE ~Drop(r)
    <3>1. Stays(r) /\ UNCHANGED behind /\ req'[r].pc = "claim" /\ req'[r].kind = "user"
          /\ req'[r].reopened = req[r].reopened
      BY <1>4, <2>2, CreateMove
    <3>2. r \in Announcing' <=> r \in Announcing
      BY <2>1, <3>1 DEF Announcing
    <3> QED BY <1>1, <2>1, <3>1, <3>2
  <2>3. CASE Drop(r)
    <3>1. req'[r].pc # "claim" /\ req \in [Requests -> RequestType]
      BY <2>3, DropMove DEF TypeInv, ReqInv
    <3>2. ~(req' = [req EXCEPT ![r].pc = "claim", ![r].made = made'])
      BY <3>1 DEF RequestType
    <3>3. behind' = (behind \/ req[r].reopened)
      BY <1>4, <3>2, Zenon DEF CreateTopic
    <3>4. r \in Announcing => req[r].reopened
      BY <2>1 DEF Announcing
    <3> QED BY <1>2, <2>1, <2>3, <3>3, <3>4
  <2> QED BY <2>2, <2>3
<1>5. ASSUME NEW r \in Requests, ClaimTopic(r) PROVE BannerInv'
  <2>1. UNCHANGED <<sub, tab, behind>> /\ conv'.status = conv.status
    BY <1>5 DEF ClaimTopic, site, history, TypeInv, DataInv
  <2>2. /\ Stays(r) /\ req[r].pc = "claim" /\ req'[r].pc # "announce"
        /\ req'[r].reopened = req[r].reopened /\ req'[r].kind = req[r].kind
    BY <1>5, ClaimMove
  <2>3. r \in Announcing' <=> r \in Announcing
    BY <2>2 DEF Announcing
  <2> QED BY <1>1, <2>1, <2>2, <2>3
<1>6. ASSUME NEW r \in Requests, DropTopic(r) PROVE BannerInv'
  <2>1. UNCHANGED <<sub, tab, behind, conv>>
    BY <1>6 DEF DropTopic, site
  <2>2. /\ Stays(r) /\ req[r].pc = "drop" /\ req'[r].pc # "announce"
        /\ req'[r].reopened = req[r].reopened /\ req'[r].kind = req[r].kind
    BY <1>6, DropTopicMove
  <2>3. r \in Announcing' <=> r \in Announcing
    BY <2>2 DEF Announcing
  <2> QED BY <1>1, <2>1, <2>2, <2>3
<1>7. ASSUME NEW r \in Requests, Insert(r) PROVE BannerInv'
  <2>1. UNCHANGED <<sub, tab, behind, conv>>
    BY <1>7 DEF Insert, site, history
  <2>2. /\ Stays(r) /\ req[r].pc = "insert" /\ req'[r].pc = "commit"
        /\ ~req'[r].reopened /\ ~req[r].reopened
    BY <1>7, InsertMove
  <2>3. r \notin Announcing' /\ r \notin Announcing
    BY <2>2 DEF Announcing
  <2> QED BY <1>1, <2>1, <2>2, <2>3
<1>8. ASSUME NEW r \in Requests, CommitMessage(r) \/ CommitReply(r) PROVE BannerInv'
  <2>1. UNCHANGED <<sub, tab, behind>> /\ conv'.status = conv.status
    BY <1>8 DEF CommitMessage, CommitReply, site, TypeInv, DataInv
  <2>2. /\ Stays(r) /\ req[r].pc = "commit" /\ req'[r].pc \in {"relay", "publish"}
        /\ req'[r].reopened = req[r].reopened
    BY <1>8, CommitMove DEF Keeps
  <2>3. r \notin Announcing' /\ r \notin Announcing
    BY <2>2, Typed DEF Announcing, Steps
  <2> QED BY <1>1, <2>1, <2>2, <2>3
<1>9. ASSUME NEW r \in Requests, Relay(r) PROVE BannerInv'
  <2>1. UNCHANGED <<sub, tab, behind, conv>> /\ Drop(r) /\ req[r].pc = "relay"
    BY <1>9 DEF Relay, At, site
  <2>2. r \notin Announcing
    BY <2>1, Typed DEF Announcing, Steps
  <2> QED BY <1>2, <2>1, <2>2
<1>10. ASSUME NEW r \in Requests, Crash(r) PROVE BannerInv'
  <2>1. UNCHANGED <<sub, tab, conv>> /\ Drop(r) /\ behind' = (behind \/ r \in Announcing)
    BY <1>10, Zenon DEF Crash, site
  <2> QED BY <1>2, <2>1
<1>11. ASSUME NEW r \in Requests, Announce(r) PROVE BannerInv'
  <2>1. UNCHANGED <<tab, conv>> /\ Drop(r) /\ req[r].pc = "announce" /\ req[r].kind = "close"
        /\ r \in Announcing
    BY <1>11 DEF Announce, At, Announcing
  <2>2. CASE Publish([kind |-> "status", is |-> "CLOSED"]) /\ UNCHANGED behind
    <3>1. Stays(r) /\ r \notin Announcing'
      BY <2>1, DropMove DEF Announcing
    <3>2. Announcing' \subseteq Announcing \ {r} /\ \A q \in Announcing' : req'[q].kind = req[q].kind
      BY <3>1 DEF Announcing, Stays
    <3>3. ~behind => conv.status = "CLOSED"
      BY <2>1 DEF BannerInv
    <3> QED BY <2>1, <2>2, <3>2, <3>3, BannerTold
  <2>3. CASE behind' /\ UNCHANGED sub
    BY <1>2, <2>1, <2>3
  <2> QED BY <1>11, <2>2, <2>3 DEF Announce
<1>12. ASSUME NEW r \in Requests, Mirror(r) PROVE BannerInv'
  <2>1. /\ UNCHANGED <<tab, conv>> /\ Stays(r) /\ req[r].pc = "mirror" /\ req[r].kind = "user"
        /\ req'[r].pc = "insert" /\ ~req'[r].reopened
    BY <1>12, MirrorMove DEF Mirror
  <2>2. r \notin Announcing'
    BY <2>1 DEF Announcing
  <2>3. Announcing' \subseteq Announcing \ {r} /\ \A q \in Announcing' : req'[q].kind = req[q].kind
    BY <2>1, <2>2 DEF Announcing, Stays
  <2>4. CASE ~req[r].reopened /\ UNCHANGED <<sub, behind>>
    <3>1. r \notin Announcing
      BY <2>1, <2>4 DEF Announcing
    <3> QED BY <1>1, <2>1, <2>2, <2>4, <3>1
  <2>5. CASE req[r].reopened /\ Publish([kind |-> "status", is |-> "OPEN"]) /\ UNCHANGED behind
    <3>1. r \in Announcing
      BY <2>5 DEF Announcing
    <3>2. ~behind => conv.status # "CLOSED"
      BY <2>1, <3>1 DEF BannerInv
    <3> QED BY <2>1, <2>3, <2>5, <3>1, <3>2, BannerTold
  <2>6. CASE req[r].reopened /\ behind' /\ UNCHANGED sub
    <3>1. r \in Announcing
      BY <2>6 DEF Announcing
    <3> QED BY <2>1, <2>6, <3>1 DEF BannerInv
  <2> QED BY <1>12, <2>4, <2>5, <2>6, Zenon DEF Mirror
<1>13. CASE Age \/ UNCHANGED vars
  <2>1. UNCHANGED <<sub, tab, behind, req>> /\ conv'.status = conv.status
    BY <1>13 DEF Age, vars, site, history, TypeInv, DataInv
  <2> QED BY <2>1, BannerFrame DEF Announcing
<1> QED
  BY <1>3, <1>4, <1>5, <1>6, <1>7, <1>8, <1>9, <1>10, <1>11, <1>12, <1>13, BannerUser, BannerShut,
     BannerReply, BannerCatchUp, BannerForward, BannerStream, Cases

-----------------------------------------------------------------------------
(* The specification.                                                       *)

LEMMA InitIInv == Init => IInv
<1> SUFFICES ASSUME Init PROVE IInv OBVIOUS
<1>1. TypeInv
  BY TypeInit
<1>2. /\ stored = {} /\ topics = {} /\ posts = {} /\ stray = {} /\ sub = <<>>
      /\ conv.topic = 0 /\ conv.status = "NONE" /\ tab.pc = "off" /\ tab.got = {}
      /\ tab.cursor = 0 /\ tab.banner = "NONE"
  BY DEF Init
<1>3. \A r \in Requests :
        /\ req[r].pc = "idle" /\ req[r].kind = "none" /\ req[r].made = 0 /\ req[r].id = 0
        /\ ~req[r].reopened
  BY DEF Init, Idle
<1>4. DOMAIN sub = {}
  BY <1>2
<1>5. IdInv
  BY <1>2, <1>3 DEF IdInv
<1>6. TopicInv
  BY <1>2, <1>3 DEF TopicInv, OneTopic, Making
<1>7. Relayed /\ OpenInv
  BY <1>2, <1>3 DEF Relayed, OpenInv
<1>8. ReplyInv
  BY <1>2, <1>3, <1>4 DEF ReplyInv, RepliesReachTheSite
<1>9. BannerInv
  BY <1>2, <1>3, <1>4 DEF BannerInv, Announcing, Replayed
<1> QED BY <1>1, <1>5, <1>6, <1>7, <1>8, <1>9 DEF IInv

LEMMA TypeNext == ASSUME TypeInv, TopicInv, [Next]_vars PROVE TypeInv'
<1>1. CASE UNCHANGED vars
  BY <1>1 DEF vars, TypeInv, DataInv, ReqInv, CountInv, Unnumbered, Untopiced, Numbered
<1> QED
  BY <1>1, Cases, UserType, OperatorType, ShutType, CreateType, ClaimType, DropTopicType,
     MirrorType, InsertType, CommitType, RelayType, PublishType, AnnounceType, CrashType, TabType,
     CatchUpType

\* In every state the conversation keeps the topic that was claimed first, ids are given
\* once, what is stored was relayed or is about to be, and what the site has yet to be told
\* is on its way to it, behind its cursor, or late (SupportService, support_stream).
THEOREM Invariant == Spec => []IInv
<1>1. IInv /\ [Next]_vars => IInv'
  BY TypeNext, IdNext, TopicNext, RelayedNext, OpenNext, ReplyNext, BannerNext DEF IInv
<1> QED BY InitIInv, <1>1, PTL DEF Spec

\* The operators see every message of the user, in one topic: topics made by first
\* messages that arrive together are deleted but for one (ingest_from_user), and a stored
\* message was relayed to it unless Telegram refused the relay or the process died.
THEOREM OperatorsSee == Spec => []OperatorsSeeAll
<1>1. IInv => OperatorsSeeAll
  BY TypeParts DEF IInv, TopicInv, OperatorsSeeAll
<1> QED BY Invariant, <1>1, PTL

\* A message of the user is stored in an open conversation, unless an operator or the
\* sweep closed it between the two transactions of ingest_from_user.
THEOREM HeardOpen == Spec => HeardWhileOpen
<1>1. IInv /\ [Next]_vars
      => [\A r \in Requests : CommitMessage(r) => conv'.status = "OPEN" \/ req[r].shut]_vars
  <2> SUFFICES ASSUME IInv, NEW r \in Requests, CommitMessage(r)
               PROVE  conv'.status = "OPEN" \/ req[r].shut
    OBVIOUS
  <2>1. conv'.status = conv.status /\ req[r].kind = "user"
    BY DEF CommitMessage, At, IInv, TypeInv, DataInv
  <2> QED BY <2>1 DEF IInv, OpenInv
<1> QED BY Invariant, <1>1, PTL DEF Spec, HeardWhileOpen

\* The tab shows every answer of the operators, or is behind it with its cursor, over any
\* number of reconnections (support_stream), unless the answer was published after one of
\* a higher id, or never; and its banner agrees once every change was told in order.
THEOREM SiteIsTold == Spec => []SiteFollows
<1>1. IInv => SiteFollows
  <2> SUFFICES ASSUME IInv PROVE SiteFollows OBVIOUS
  <2>1. RepliesReachTheSite
    BY DEF IInv, ReplyInv
  <2>2. ASSUME sub = <<>> PROVE \A k \in DOMAIN sub : ~Changing(k)
    BY <2>2
  <2>3. BannerAgrees
    BY <2>2 DEF IInv, BannerInv, BannerAgrees
  <2> QED BY <2>1, <2>3 DEF SiteFollows
<1> QED BY Invariant, <1>1, PTL

-----------------------------------------------------------------------------
(*                                PanelSync                                 *)

(***************************************************************************)
(* The inductive invariant: the types; what the webhooks on their way say; *)
(* what an operation knows that no other has disturbed; and what is still  *)
(* to come for the current row, and for the user the shop made.            *)
(***************************************************************************)

Statuses == {"ACTIVE", "DISABLED", "DELETED"}

RowType  == [remna : Nat, term : 1 .. MaxTerm, status : Statuses, tag : BOOLEAN]
PanelUserType == [alive : BOOLEAN, own : BOOLEAN, term : 1 .. MaxTerm, status : Statuses,
             tag : BOOLEAN]
HookType == [kind : {"created", "modified", "status", "deleted"}, id : Nat, sub : Subs]

Locals ==
    [pc : {"idle", "lock", "panel", "commit", "look", "sync", "gone", "recreate", "ids"},
     kind : Kinds \cup {"none"}, of : Nat, row : Nat, remna : Nat, sub : Subs,
     ids : SUBSET Nat, seen : SUBSET [kind : {"seen"}, id : Nat, sub : Subs], whole : BOOLEAN]

StoreInv ==
    /\ account \in Nat /\ accounts \in Nat /\ account <= accounts
    /\ rows \in Seq(RowType) /\ Len(rows) <= MaxRows
    /\ \A r \in 1 .. Len(rows) : rows[r].remna <= Len(panel)
    /\ current \in 0 .. Len(rows)
    /\ current # None => account # None /\ rows[current].remna # None

PanelInv ==
    /\ panel \in Seq(PanelUserType) /\ Len(panel) <= MaxPanel
    /\ hooks \in Seq(HookType)
    /\ \A k \in 1 .. Len(hooks) : hooks[k].id \in 1 .. Len(panel)
    /\ handler \in 0 .. Len(panel)

\* Each kind of operation has its own steps.
StepsOf(q) ==
    /\ q.kind = "none" <=> q.pc = "idle"
    /\ q.kind # "register"
    /\ q.kind \in {"extend", "change"} => q.pc \in {"lock", "panel", "commit"}
    /\ q.kind \in {"toggle", "delete", "buy"} => q.pc \in {"panel", "commit"}
    /\ q.kind = "pull" => q.pc \in {"look", "sync", "gone"}
    /\ q.kind = "push" => q.pc \in {"look", "panel", "recreate", "commit"}
    /\ q.kind = "pullall" => q.pc \in {"look", "sync"}
    /\ q.kind = "erase" => q.pc \in {"ids", "panel"}

\* What it has read: the account it is of, its subscription and its user of the panel.
HasRead(q) ==
    /\ q.kind \notin {"none", "pullall"} => q.of # None
    /\ q.kind \in {"extend", "change", "toggle", "delete"} => q.row # None
    /\ q.row # None => q.remna # None
    /\ q.kind = "buy" => q.row = None /\ q.sub.status = "ACTIVE" /\ ~q.sub.tag
    /\ q.kind = "change" => q.sub.status = "ACTIVE"
    /\ q.kind \in {"buy", "push"} /\ q.pc = "commit" => q.remna # None
    /\ q.kind = "push" /\ q.pc \in {"panel", "recreate"} => q.row # None
    /\ q.kind = "pull" /\ q.pc = "sync" => q.remna # None
    /\ q.kind = "pull" /\ q.pc = "gone" => q.row # None

Within(q) ==
    /\ q.of <= accounts /\ q.row <= Len(rows) /\ q.remna <= Len(panel)
    /\ \A p \in q.ids : p <= Len(panel)
    /\ \A h \in q.seen : h.id \in 1 .. Len(panel)

OpOK(q) == StepsOf(q) /\ HasRead(q) /\ Within(q)

OpsInv == op \in [Workers -> Locals] /\ \A w \in Workers : OpOK(op[w])

BegunInv == started \in 0 .. MaxBegun /\ mishaps \subseteq Mishaps

SyncTypeInv == StoreInv /\ PanelInv /\ OpsInv /\ BegunInv

-----------------------------------------------------------------------------
(* What a step does to the panel, and what it may not undo.                 *)

Tells(p, x) ==
    /\ Update(p, x)
    /\ \E kind \in {"modified", "status"} : hooks' = Append(hooks, Hook(kind, p, x))

PanelStep ==
    \/ UNCHANGED <<panel, hooks>>
    \/ \E p \in Alive, x \in Subs : Tells(p, x)
    \/ \E own \in BOOLEAN, x \in Subs : Create(own, x)
    \/ \E p \in Alive : RemovePanelUser(p)

Grows ==
    /\ Len(panel) <= Len(panel')
    /\ \A p \in 1 .. Len(panel) : panel'[p].own = panel[p].own /\ (panel'[p].alive => panel[p].alive)

LEMMA DataType ==
    /\ \A x \in Subs : Data(x) = x /\ Asked(x) \in Subs
    /\ \A x \in RowType \cup PanelUserType : Data(x) \in Subs
    /\ \A p \in Nat, x \in Subs : Row(p, x) \in RowType
    /\ Free.sub \in Subs
BY PanelSyncAssumption DEF PanelSyncAssumption, Data, Subs, Asked, Row, RowType, PanelUserType,
   Statuses, Free

LEMMA OneUserSet ==
    ASSUME NEW p \in 1 .. Len(panel), NEW u \in PanelUserType, panel \in Seq(PanelUserType),
           panel' = [panel EXCEPT ![p] = u], u.own = panel[p].own,
           u.alive => panel[p].alive
    PROVE  panel' \in Seq(PanelUserType) /\ Len(panel') = Len(panel) /\ Grows
<1>1. panel' \in Seq(PanelUserType) /\ Len(panel') = Len(panel)
  OBVIOUS
<1>2. \A q \in 1 .. Len(panel) : panel'[q] = IF q = p THEN u ELSE panel[q]
  OBVIOUS
<1>3. Len(panel) \in Nat
  OBVIOUS
<1> QED BY <1>1, <1>2, <1>3 DEF Grows

LEMMA PanelTypes ==
    ASSUME PanelInv, PanelStep, handler' = handler
    PROVE  PanelInv' /\ Grows
<1>1. CASE UNCHANGED <<panel, hooks>>
  BY <1>1 DEF PanelInv, Grows
<1>2. ASSUME NEW p \in Alive, NEW x \in Subs, Tells(p, x)
      PROVE  PanelInv' /\ Grows
  <2>1. p \in 1 .. Len(panel) /\ panel[p].alive
    BY DEF Alive
  <2>2. PICK kind \in {"modified", "status"} : hooks' = Append(hooks, Hook(kind, p, x))
    BY <1>2 DEF Tells
  <2>3. panel' \in Seq(PanelUserType) /\ Len(panel') = Len(panel) /\ Grows
    <3> DEFINE u == [alive |-> TRUE, own |-> panel[p].own, term |-> x.term,
                     status |-> x.status, tag |-> x.tag]
    <3>1. panel' = [panel EXCEPT ![p] = u]
      BY <1>2 DEF Tells, Update
    <3>2. panel[p] \in PanelUserType
      BY <2>1 DEF PanelInv
    <3>3. u \in PanelUserType
      BY <3>2 DEF PanelUserType, Subs, Statuses
    <3>4. u.own = panel[p].own
      OBVIOUS
    <3> HIDE DEF u
    <3> QED BY <2>1, <3>1, <3>3, <3>4, OneUserSet DEF PanelInv
  <2>4. Hook(kind, p, x) \in HookType
    BY <2>1, DataType DEF Hook, HookType, PanelInv
  <2>5. hooks' \in Seq(HookType) /\ \A k \in 1 .. Len(hooks') : hooks'[k].id \in 1 .. Len(panel)
    BY <2>1, <2>2, <2>4 DEF PanelInv, Hook
  <2> QED BY <2>3, <2>5 DEF PanelInv
<1>3. ASSUME NEW own \in BOOLEAN, NEW x \in Subs, Create(own, x)
      PROVE  PanelInv' /\ Grows
  <2> DEFINE u == [alive |-> TRUE, own |-> own, term |-> x.term, status |-> x.status,
                   tag |-> x.tag]
             h == Hook("created", Len(panel) + 1, x)
  <2>1. u \in PanelUserType /\ panel' = Append(panel, u) /\ Len(panel) < MaxPanel
    BY <1>3 DEF Create, PanelUserType, Subs, Statuses
  <2>2. h \in HookType /\ hooks' = Append(hooks, h) /\ h.id = Len(panel) + 1
    BY <1>3, DataType DEF Create, Hook, HookType, PanelInv
  <2> HIDE DEF u, h
  <2>3. panel' \in Seq(PanelUserType) /\ Len(panel') = Len(panel) + 1 /\ Grows
    BY <2>1 DEF PanelInv, Grows
  <2>4. Len(panel') <= MaxPanel
    BY <2>1, <2>3, PanelSyncAssumption DEF PanelInv, PanelSyncAssumption
  <2>5. hooks' \in Seq(HookType) /\ \A k \in 1 .. Len(hooks') : hooks'[k].id \in 1 .. Len(panel')
    BY <2>2, <2>3 DEF PanelInv
  <2> QED BY <2>3, <2>4, <2>5 DEF PanelInv
<1>4. ASSUME NEW p \in Alive, RemovePanelUser(p)
      PROVE  PanelInv' /\ Grows
  <2>1. p \in 1 .. Len(panel)
    BY DEF Alive
  <2>2. panel' \in Seq(PanelUserType) /\ Len(panel') = Len(panel) /\ Grows
    <3> DEFINE u == [panel[p] EXCEPT !.alive = FALSE]
    <3>1. panel' = [panel EXCEPT ![p] = u]
      BY <1>4 DEF RemovePanelUser
    <3>2. panel[p] \in PanelUserType
      BY <2>1 DEF PanelInv
    <3>3. u \in PanelUserType /\ u.own = panel[p].own /\ ~u.alive
      BY <3>2 DEF PanelUserType
    <3> HIDE DEF u
    <3> QED BY <2>1, <3>1, <3>3, OneUserSet DEF PanelInv
  <2>3. Hook("deleted", p, panel[p]) \in HookType
    BY <2>1, DataType DEF Hook, HookType, PanelInv
  <2>4. hooks' \in Seq(HookType) /\ \A k \in 1 .. Len(hooks') : hooks'[k].id \in 1 .. Len(panel)
    BY <1>4, <2>1, <2>3 DEF RemovePanelUser, PanelInv, Hook
  <2> QED BY <2>2, <2>4 DEF PanelInv
<1> QED BY <1>1, <1>2, <1>3, <1>4 DEF PanelStep

-----------------------------------------------------------------------------
(* What a step does to an operation, and what it may not undo.              *)

StoreGrows == accounts <= accounts' /\ Len(rows) <= Len(rows')

Moves(w) == op' \in [Workers -> Locals] /\ \A v \in Workers \ {w} : op'[v] = op[v]

\* A step of an operation under way: the next one, or its end.
WorkStep(w) ==
    /\ Busy(w) /\ Moves(w)
    /\ \/ op'[w] = Free
       \/ /\ op'[w].kind = op[w].kind /\ op'[w].pc # "idle" /\ op'[w].of = op[w].of
          /\ op'[w].row = op[w].row /\ op'[w].whole = op[w].whole

\* The first step of one.
Starts(kind, pc, x) ==
    /\ <<kind, pc>> \in
         {<<"extend", "lock">>, <<"change", "lock">>, <<"toggle", "panel">>, <<"delete", "panel">>,
          <<"buy", "panel">>, <<"pull", "look">>, <<"push", "look">>, <<"pullall", "look">>,
          <<"erase", "ids">>}
    /\ kind # "pullall" => account # None
    /\ kind \in {"extend", "change", "toggle", "delete"} => current # None
    /\ kind = "buy" => current = None /\ x.status = "ACTIVE" /\ ~x.tag
    /\ kind = "change" => x.status = "ACTIVE"

Begins(w) == \E kind \in Kinds, pc \in {"lock", "panel", "look", "ids"}, x \in Subs :
                Starts(kind, pc, x) /\ Begin(w, kind, pc, x)

LEMMA OpsMove ==
    ASSUME SyncTypeInv, NEW w \in Workers, Moves(w), OpOK(op[w])', StoreGrows,
           StoreInv', Len(panel) <= Len(panel'), Len(panel') \in Nat
    PROVE  OpsInv'
<1> SUFFICES ASSUME NEW v \in Workers, v # w PROVE OpOK(op[v])'
  BY DEF OpsInv, Moves
<1>1. op'[v] = op[v] /\ OpOK(op[v]) /\ op[v] \in Locals
  BY DEF Moves, SyncTypeInv, OpsInv
<1>2. /\ accounts \in Nat /\ accounts' \in Nat /\ Len(rows) \in Nat /\ Len(rows') \in Nat
      /\ Len(panel) \in Nat
  BY DEF SyncTypeInv, StoreInv, PanelInv
<1>3. Within(op[v])'
  BY <1>1, <1>2 DEF OpOK, Within, StoreGrows, Locals
<1> QED BY <1>1, <1>3 DEF OpOK, StepsOf, HasRead

LEMMA FreeType == Free \in Locals
BY DataType DEF Free, Locals, None

LEMMA FreeOK ==
    ASSUME SyncTypeInv, StoreInv', Len(panel') \in Nat
    PROVE  Free \in Locals /\ OpOK(Free) /\ OpOK(Free)'
<1>1. Free \in Locals
  BY FreeType
<1> QED BY <1>1 DEF Free, OpOK, StepsOf, HasRead, Within, SyncTypeInv, StoreInv, PanelInv, None

LEMMA Ends ==
    ASSUME SyncTypeInv, NEW w \in Workers, Finish(w), StoreInv', Len(panel') \in Nat
    PROVE  Moves(w) /\ op'[w] = Free /\ OpOK(op[w])'
<1>1. Moves(w) /\ op'[w] = Free
  BY FreeOK DEF Finish, Moves, SyncTypeInv, OpsInv
<1> QED BY <1>1, FreeOK DEF OpOK, StepsOf, HasRead, Within

LEMMA Going ==
    ASSUME SyncTypeInv, NEW w \in Workers, Busy(w),
           NEW pc \in {"lock", "panel", "commit", "look", "sync", "gone", "recreate", "ids"},
           Goto(w, pc)
    PROVE  /\ WorkStep(w) /\ op'[w] = [op[w] EXCEPT !.pc = pc]
           /\ op'[w].pc = pc /\ op'[w].kind = op[w].kind /\ op'[w].of = op[w].of
           /\ op'[w].row = op[w].row /\ op'[w].remna = op[w].remna /\ op'[w].sub = op[w].sub
           /\ op'[w].ids = op[w].ids /\ op'[w].seen = op[w].seen /\ op'[w].whole = op[w].whole
<1>1. op[w] \in Locals /\ op \in [Workers -> Locals]
  BY DEF SyncTypeInv, OpsInv
<1>2. op'[w] = [op[w] EXCEPT !.pc = pc] /\ \A v \in Workers \ {w} : op'[v] = op[v]
  BY <1>1 DEF Goto
<1>3. [op[w] EXCEPT !.pc = pc] \in Locals
  BY <1>1 DEF Locals
<1>4. op' \in [Workers -> Locals]
  BY <1>1, <1>2, <1>3 DEF Goto
<1> QED BY <1>1, <1>2, <1>4 DEF WorkStep, Moves, Locals

LEMMA CurrentType == ASSUME SyncTypeInv PROVE Current \in Subs
<1>1. CASE current = None
  BY <1>1, DataType DEF Current
<1>2. CASE current # None
  <2>1. rows[current] \in RowType
    BY <1>2 DEF SyncTypeInv, StoreInv, None
  <2> QED BY <1>2, <2>1, DataType DEF Current
<1> QED BY <1>1, <1>2

LEMMA BeginKinds ==
    ASSUME SyncTypeInv, NEW w \in Workers,
           \/ Extend(w) \/ Change(w) \/ Toggle(w) \/ Delete(w) \/ Buy(w)
           \/ Pull(w) \/ Push(w) \/ PullAll(w) \/ Erase(w)
    PROVE  Begins(w)
<1>1. Current \in Subs /\ Free.sub \in Subs
  BY CurrentType, DataType
<1>2. ASSUME NEW t \in 1 .. MaxTerm
      PROVE  /\ [Current EXCEPT !.term = t] \in Subs
             /\ [term |-> t, status |-> "ACTIVE", tag |-> FALSE] \in Subs
  BY <1>1 DEF Subs
<1>3. [Current EXCEPT !.status = IF @ = "ACTIVE" THEN "DISABLED" ELSE "ACTIVE"] \in Subs
  BY <1>1 DEF Subs
<1>4. current # None => account # None
  BY DEF SyncTypeInv, StoreInv
<1>5. CASE Extend(w)
  <2>1. PICK t \in 1 .. MaxTerm :
          current # None /\ Begin(w, "extend", "lock", [Current EXCEPT !.term = t])
    BY <1>5 DEF Extend
  <2>2. "extend" \in Kinds
    BY <2>1 DEF Begin
  <2>3. Starts("extend", "lock", [Current EXCEPT !.term = t])
    BY <1>4, <2>1 DEF Starts
  <2> QED BY <1>2, <2>1, <2>2, <2>3 DEF Begins
<1>6. CASE Change(w)
  BY <1>2, <1>4, <1>6 DEF Change, Begins, Starts, Begin
<1>7. CASE Toggle(w)
  BY <1>3, <1>4, <1>7 DEF Toggle, Begins, Starts, Begin
<1>8. CASE Delete(w)
  BY <1>1, <1>4, <1>8 DEF Delete, Begins, Starts, Begin
<1>9. CASE Buy(w)
  <2>1. PICK t \in 1 .. MaxTerm :
          /\ account # None /\ current = None
          /\ Begin(w, "buy", "panel", [term |-> t, status |-> "ACTIVE", tag |-> FALSE])
    BY <1>9 DEF Buy
  <2>2. "buy" \in Kinds
    BY <2>1 DEF Begin
  <2>3. Starts("buy", "panel", [term |-> t, status |-> "ACTIVE", tag |-> FALSE])
    BY <2>1 DEF Starts
  <2> QED BY <1>2, <2>1, <2>2, <2>3 DEF Begins
<1>10. CASE Pull(w)
  BY <1>1, <1>10 DEF Pull, Begins, Starts, Begin
<1>11. CASE Push(w)
  BY <1>1, <1>11 DEF Push, Begins, Starts, Begin
<1>12. CASE PullAll(w)
  BY <1>1, <1>12 DEF PullAll, Begins, Starts, Begin
<1>13. CASE Erase(w)
  BY <1>1, <1>13 DEF Erase, Begins, Starts, Begin
<1> QED BY <1>5, <1>6, <1>7, <1>8, <1>9, <1>10, <1>11, <1>12, <1>13

\* What a beginning makes of its worker and of the others.
LEMMA BeginSets ==
    ASSUME SyncTypeInv, NEW w \in Workers, NEW kind \in Kinds,
           NEW pc \in {"lock", "panel", "look", "ids"}, NEW x \in Subs, Begin(w, kind, pc, x)
    PROVE  /\ op' \in [Workers -> Locals]
           /\ ~Busy(w) /\ UNCHANGED <<store, panel, hooks, handler, hand, mishaps>>
           /\ op'[w].pc = pc /\ op'[w].kind = kind /\ op'[w].of = account
           /\ op'[w].row = current /\ op'[w].sub = x /\ op'[w].ids = {} /\ op'[w].seen = {}
           /\ op'[w].remna = (IF current = None THEN None ELSE rows[current].remna)
           /\ op'[w].whole <=> \A v \in Workers : ~Busy(v)
           /\ \A v \in Workers \ {w} : op'[v] = [op[v] EXCEPT !.whole = FALSE]
           /\ marks \subseteq marks' /\ ("clash" \notin marks' => \A v \in Workers : ~Busy(v))
           /\ started' \in 0 .. MaxBegun
<1> DEFINE others == {v \in Workers : Busy(v)}
           q == [Free EXCEPT !.pc = pc, !.kind = kind, !.of = account, !.row = current,
                             !.sub = x,
                             !.remna = IF current = None THEN None ELSE rows[current].remna,
                             !.whole = others = {}]
<1>1. /\ op \in [Workers -> Locals] /\ ~Busy(w) /\ started < MaxBegun /\ started' = started + 1
      /\ op' = [v \in Workers |-> IF v = w THEN q ELSE [op[v] EXCEPT !.whole = FALSE]]
      /\ marks' = marks \cup (IF others = {} THEN {} ELSE {"clash"})
      /\ UNCHANGED <<store, panel, hooks, handler, hand, mishaps>>
  BY DEF Begin, SyncTypeInv, OpsInv
<1>2. /\ account \in Nat /\ current \in Nat
      /\ (IF current = None THEN None ELSE rows[current].remna) \in Nat
  <2>1. rows \in Seq(RowType) /\ current \in 0 .. Len(rows) /\ account \in Nat
    BY DEF SyncTypeInv, StoreInv
  <2>2. current # None => rows[current] \in RowType
    BY <2>1 DEF None
  <2> QED BY <2>1, <2>2 DEF RowType, None
<1>3. /\ q \in Locals
      /\ q.pc = pc /\ q.kind = kind /\ q.of = account /\ q.row = current /\ q.sub = x
      /\ q.remna = (IF current = None THEN None ELSE rows[current].remna)
      /\ q.ids = {} /\ q.seen = {} /\ q.whole = (others = {})
  <2>1. PICK remna \in Nat : remna = IF current = None THEN None ELSE rows[current].remna
    BY <1>2
  <2>2. PICK whole \in BOOLEAN : whole = (others = {})
    OBVIOUS
  <2>3. q = [Free EXCEPT !.pc = pc, !.kind = kind, !.of = account, !.row = current,
                         !.sub = x, !.remna = remna, !.whole = whole]
    BY <2>1, <2>2
  <2>4. Free \in Locals /\ Free.ids = {} /\ Free.seen = {}
    BY FreeType DEF Free
  <2> HIDE DEF q, others
  <2>5. /\ q \in Locals /\ q.pc = pc /\ q.kind = kind /\ q.of = account /\ q.row = current
        /\ q.sub = x /\ q.remna = remna /\ q.ids = {} /\ q.seen = {} /\ q.whole = whole
    BY <1>2, <2>3, <2>4 DEF Locals
  <2> QED BY <2>1, <2>2, <2>5
<1>4. q \in Locals
  BY <1>3
<1>5. \A v \in Workers : [op[v] EXCEPT !.whole = FALSE] \in Locals
  BY <1>1 DEF Locals
<1>6. op'[w] = q /\ op' \in [Workers -> Locals]
  BY <1>1, <1>4, <1>5
<1>7. started' \in 0 .. MaxBegun
  <2>1. MaxBegun \in Nat
    BY PanelSyncAssumption DEF PanelSyncAssumption
  <2>2. started < MaxBegun /\ started' = started + 1
    BY DEF Begin
  <2>3. started \in 0 .. MaxBegun
    BY DEF SyncTypeInv, BegunInv
  <2> QED BY <2>1, <2>2, <2>3
<1>8. marks \subseteq marks' /\ ("clash" \notin marks' => \A v \in Workers : ~Busy(v))
  BY <1>1
<1>9. (others = {}) <=> \A v \in Workers : ~Busy(v)
  OBVIOUS
<1> HIDE DEF others
<1> QED BY <1>1, <1>3, <1>6, <1>7, <1>8, <1>9

LEMMA BeginTypes ==
    ASSUME SyncTypeInv, NEW w \in Workers, Begins(w)
    PROVE  SyncTypeInv'
<1>1. PICK kind \in Kinds, pc \in {"lock", "panel", "look", "ids"}, x \in Subs :
        Starts(kind, pc, x) /\ Begin(w, kind, pc, x)
  BY DEF Begins
<1>2. /\ op' \in [Workers -> Locals]
      /\ UNCHANGED <<store, panel, hooks, handler, mishaps>>
      /\ op'[w].pc = pc /\ op'[w].kind = kind /\ op'[w].of = account
      /\ op'[w].row = current /\ op'[w].sub = x /\ op'[w].ids = {} /\ op'[w].seen = {}
      /\ op'[w].remna = (IF current = None THEN None ELSE rows[current].remna)
      /\ \A v \in Workers \ {w} : op'[v] = [op[v] EXCEPT !.whole = FALSE]
      /\ started' \in 0 .. MaxBegun
  BY <1>1, BeginSets
<1>3. /\ account \in Nat /\ accounts \in Nat /\ account <= accounts
      /\ current \in 0 .. Len(rows) /\ Len(rows) \in Nat /\ Len(panel) \in Nat
      /\ current # None => rows[current].remna # None /\ rows[current].remna <= Len(panel)
  BY DEF SyncTypeInv, StoreInv, PanelInv, None
<1>4. StoreInv' /\ PanelInv' /\ BegunInv'
  BY <1>2 DEF store, SyncTypeInv, StoreInv, PanelInv, BegunInv
<1>5. StepsOf(op'[w])
  BY <1>1, <1>2 DEF Starts, StepsOf
<1>6. HasRead(op'[w])
  BY <1>1, <1>2, <1>3 DEF Starts, HasRead
<1>7. Within(op[w])'
  BY <1>2, <1>3 DEF Within, store, None
<1>8. OpOK(op[w])'
  BY <1>5, <1>6, <1>7 DEF OpOK, StepsOf, HasRead
<1>9. ASSUME NEW v \in Workers, v # w PROVE OpOK(op[v])'
  <2>1. OpOK(op[v]) /\ op'[v] = [op[v] EXCEPT !.whole = FALSE] /\ op[v] \in Locals
    BY <1>2, <1>9 DEF SyncTypeInv, OpsInv
  <2>2. /\ op'[v].pc = op[v].pc /\ op'[v].kind = op[v].kind /\ op'[v].of = op[v].of
        /\ op'[v].row = op[v].row /\ op'[v].remna = op[v].remna /\ op'[v].sub = op[v].sub
        /\ op'[v].ids = op[v].ids /\ op'[v].seen = op[v].seen
    BY <2>1 DEF Locals
  <2> QED BY <1>2, <2>1, <2>2 DEF OpOK, StepsOf, HasRead, Within, store
<1> QED BY <1>2, <1>4, <1>8, <1>9 DEF SyncTypeInv, OpsInv

-----------------------------------------------------------------------------
(* The panel after each of its calls.                                       *)

LEMMA TellsAlive ==
    ASSUME PanelInv, NEW p \in Alive, NEW x \in Subs, Tells(p, x)
    PROVE  /\ Alive' = Alive /\ Len(panel') = Len(panel)
           /\ Data(panel'[p]) = x /\ panel'[p].own = panel[p].own
           /\ \A q \in 1 .. Len(panel) : q # p => panel'[q] = panel[q]
           /\ \E kind \in {"modified", "status"} : hooks' = Append(hooks, Hook(kind, p, x))
<1> DEFINE u == [alive |-> TRUE, own |-> panel[p].own, term |-> x.term, status |-> x.status,
                 tag |-> x.tag]
<1>1. p \in 1 .. Len(panel) /\ panel[p].alive /\ panel \in Seq(PanelUserType)
  BY DEF Alive, PanelInv
<1>2. panel' = [panel EXCEPT ![p] = u]
  BY DEF Tells, Update
<1>3. u.alive /\ u.own = panel[p].own /\ Data(u) = x
  BY DEF Data, Subs
<1> HIDE DEF u
<1>4. /\ Len(panel') = Len(panel) /\ panel'[p] = u
      /\ \A q \in 1 .. Len(panel) : q # p => panel'[q] = panel[q]
  BY <1>1, <1>2
<1>5. Alive' = Alive
  BY <1>1, <1>3, <1>4 DEF Alive
<1>6. Data(panel'[p]) = x
  BY <1>3, <1>4
<1> QED BY <1>3, <1>4, <1>5, <1>6 DEF Tells

LEMMA CreateAlive ==
    ASSUME PanelInv, NEW own \in BOOLEAN, NEW x \in Subs, Create(own, x)
    PROVE  /\ Len(panel') = Len(panel) + 1 /\ Alive' = Alive \cup {Len(panel')}
           /\ Data(panel'[Len(panel')]) = x /\ panel'[Len(panel')].own = own
           /\ (own => ~NameHeld)
           /\ \A q \in 1 .. Len(panel) : panel'[q] = panel[q]
           /\ hooks' = Append(hooks, Hook("created", Len(panel'), x))
<1> DEFINE u == [alive |-> TRUE, own |-> own, term |-> x.term, status |-> x.status,
                 tag |-> x.tag]
<1>1. panel' = Append(panel, u) /\ panel \in Seq(PanelUserType) /\ (own => ~NameHeld)
  BY DEF Create, PanelInv
<1>2. u.alive /\ u.own = own /\ Data(u) = x
  BY DEF Data, Subs
<1> HIDE DEF u
<1>3. /\ Len(panel') = Len(panel) + 1 /\ panel'[Len(panel')] = u /\ Len(panel) \in Nat
      /\ \A q \in 1 .. Len(panel) : panel'[q] = panel[q]
  BY <1>1
<1>4. Alive' = Alive \cup {Len(panel')}
  BY <1>2, <1>3 DEF Alive
<1>5. hooks' = Append(hooks, Hook("created", Len(panel'), x))
  BY <1>3 DEF Create
<1>6. Data(panel'[Len(panel')]) = x
  BY <1>2, <1>3
<1> QED BY <1>1, <1>2, <1>3, <1>4, <1>5, <1>6

LEMMA RemoveAlive ==
    ASSUME PanelInv, NEW p \in Alive, RemovePanelUser(p)
    PROVE  /\ Len(panel') = Len(panel) /\ Alive' = Alive \ {p} /\ panel'[p].own = panel[p].own
           /\ \A q \in 1 .. Len(panel) : q # p => panel'[q] = panel[q]
           /\ hooks' = Append(hooks, Hook("deleted", p, Data(panel[p])))
           /\ Data(panel[p]) \in Subs
<1>1. p \in 1 .. Len(panel) /\ panel \in Seq(PanelUserType) /\ panel[p] \in PanelUserType
  BY DEF Alive, PanelInv
<1>2. panel' = [panel EXCEPT ![p] = [panel[p] EXCEPT !.alive = FALSE]]
  BY DEF RemovePanelUser
<1>3. PICK u : u = [panel[p] EXCEPT !.alive = FALSE]
  OBVIOUS
<1>4. u \in PanelUserType /\ ~u.alive /\ u.own = panel[p].own
  BY <1>1, <1>3 DEF PanelUserType
<1>5. /\ Len(panel') = Len(panel) /\ panel'[p] = u
      /\ \A q \in 1 .. Len(panel) : q # p => panel'[q] = panel[q]
  <2>1. panel' = [panel EXCEPT ![p] = u]
    BY <1>2, <1>3
  <2> QED BY <1>1, <1>4, <2>1
<1>6. Alive' = Alive \ {p}
  BY <1>1, <1>4, <1>5 DEF Alive
<1>7. Data(panel[p]) \in Subs
  BY <1>1, DataType
<1>8. hooks' = Append(hooks, Hook("deleted", p, Data(panel[p])))
  BY <1>7, DataType DEF RemovePanelUser, Hook
<1> QED BY <1>4, <1>5, <1>6, <1>7, <1>8

\* An update with a whole user is one with its data.
LEMMA TellsData ==
    ASSUME PanelInv, NEW p, NEW x \in Subs \cup PanelUserType, Update(p, x),
           NEW kind \in {"modified", "status"}, hooks' = Append(hooks, Hook(kind, p, x))
    PROVE  p \in Alive /\ Data(x) \in Subs /\ Tells(p, Data(x))
<1>1. Data(x) \in Subs /\ Data(Data(x)) = Data(x)
  <2>1. Data(x) \in Subs
    BY DataType
  <2> QED BY <2>1, DataType
<1>2. Data(x).term = x.term /\ Data(x).status = x.status /\ Data(x).tag = x.tag
  BY DEF Data
<1> QED BY <1>1, <1>2 DEF Tells, Update, Hook

-----------------------------------------------------------------------------
(* The steps of an operation that write nothing to the database.            *)

\* The panel has what the operation is to record.
Has(w) == op[w].remna \in Alive /\ Data(panel[op[w].remna]) = op[w].sub

\* What an operation that nothing disturbs knows of the panel.
Aware(w) ==
    /\ op[w].kind \in {"change", "buy", "push"} /\ op[w].pc = "commit" => Has(w)
    /\ op[w].kind \in {"buy", "push"} /\ op[w].pc = "commit" => panel[op[w].remna].own
    /\ During(w, "extend", "commit") =>
         op[w].remna \in Alive /\ panel[op[w].remna].term = op[w].sub.term
    /\ During(w, "toggle", "commit") =>
         op[w].remna \in Alive /\ panel[op[w].remna].status = op[w].sub.status
    /\ During(w, "delete", "commit") \/ During(w, "pull", "gone") => op[w].remna \notin Alive
    /\ During(w, "pull", "sync") => Has(w)
    /\ During(w, "pullall", "sync") =>
         \A h \in op[w].seen : h.id \in Alive /\ h.sub = Data(panel[h.id])

InnerStep(w) ==
    /\ PanelStep /\ WorkStep(w) /\ UNCHANGED <<store, handler, started, hand, marks>>
    /\ mishaps \subseteq mishaps' /\ mishaps' \subseteq Mishaps

Inner(w) ==
    \/ Lock(w) \/ CallUpdate(w) \/ CallDelete(w) \/ CallCreate(w) \/ NotCreated(w)
    \/ LookPull(w) \/ LookPush(w) \/ LookPullAll(w) \/ CollectIds(w) \/ CallErase(w)
    \/ Killed(w)

LEMMA MishapGrows ==
    ASSUME SyncTypeInv, NEW kind, Mishap(kind)
    PROVE  kind \in mishaps' /\ mishaps \subseteq mishaps' /\ mishaps' \subseteq Mishaps
BY DEF SyncTypeInv, BegunInv, Mishap

LEMMA StoreSame ==
    ASSUME SyncTypeInv, UNCHANGED store, Len(panel) <= Len(panel'), Len(panel') \in Nat
    PROVE  StoreInv' /\ StoreGrows
<1>1. /\ rows \in Seq(RowType) /\ Len(rows) \in Nat /\ accounts \in Nat /\ Len(panel) \in Nat
      /\ \A r \in 1 .. Len(rows) : rows[r].remna \in Nat /\ rows[r].remna <= Len(panel)
  <2>1. rows \in Seq(RowType) /\ Len(rows) \in Nat /\ accounts \in Nat /\ Len(panel) \in Nat
    BY DEF SyncTypeInv, StoreInv, PanelInv
  <2>2. \A r \in 1 .. Len(rows) : rows[r] \in RowType
    BY <2>1
  <2>3. \A r \in 1 .. Len(rows) : rows[r].remna <= Len(panel)
    BY DEF SyncTypeInv, StoreInv
  <2> QED BY <2>1, <2>2, <2>3 DEF RowType
<1>2. /\ account' = account /\ accounts' = accounts /\ rows' = rows /\ current' = current
  BY DEF store
<1>3. \A r \in 1 .. Len(rows) : rows[r].remna <= Len(panel')
  BY <1>1
<1> QED BY <1>1, <1>2, <1>3 DEF SyncTypeInv, StoreInv, StoreGrows

\* An operation that ends, whatever it does to the panel.
LEMMA InnerEnds ==
    ASSUME SyncTypeInv, NEW w \in Workers, Busy(w), Finish(w), PanelStep,
           UNCHANGED <<store, handler, started, hand, marks>>,
           mishaps \subseteq mishaps', mishaps' \subseteq Mishaps
    PROVE  InnerStep(w) /\ OpOK(op[w])' /\ ~Busy(w)'
<1>1. PanelInv' /\ Len(panel) <= Len(panel') /\ Len(panel') \in Nat
  BY PanelTypes DEF SyncTypeInv, PanelInv, Grows
<1>2. StoreInv'
  BY <1>1, StoreSame
<1>3. Moves(w) /\ op'[w] = Free /\ OpOK(op[w])'
  BY <1>1, <1>2, Ends
<1> QED BY <1>3 DEF InnerStep, WorkStep, Busy, Free

\* One that goes on: its next locals are known.
LEMMA InnerGoes ==
    ASSUME SyncTypeInv, NEW w \in Workers, Busy(w), PanelStep, WorkStep(w),
           UNCHANGED <<store, handler, started, hand, marks>>,
           mishaps \subseteq mishaps', mishaps' \subseteq Mishaps
    PROVE  /\ InnerStep(w) /\ StoreInv' /\ PanelInv' /\ StoreGrows
           /\ Len(panel) \in Nat /\ Len(panel') \in Nat /\ Len(panel) <= Len(panel')
<1>1. PanelInv' /\ Len(panel) <= Len(panel') /\ Len(panel') \in Nat /\ Len(panel) \in Nat
  BY PanelTypes DEF SyncTypeInv, PanelInv, Grows
<1>2. StoreInv' /\ StoreGrows
  BY <1>1, StoreSame
<1> QED BY <1>1, <1>2 DEF InnerStep

LEMMA RefusedEnds ==
    ASSUME SyncTypeInv, NEW w \in Workers, Busy(w), Refused(w), Call(w)
    PROVE  InnerStep(w) /\ OpOK(op[w])' /\ ~Busy(w)'
<1>1. mishaps \subseteq mishaps' /\ mishaps' \subseteq Mishaps
  BY MishapGrows DEF Refused
<1>2. PanelStep /\ Finish(w)
  BY DEF PanelStep, Refused
<1> QED BY <1>1, <1>2, InnerEnds DEF Call

LEMMA OpFacts ==
    ASSUME SyncTypeInv, NEW w \in Workers
    PROVE  /\ op[w] \in Locals /\ OpOK(op[w]) /\ op \in [Workers -> Locals]
           /\ op[w].kind \in {"none", "buy", "change", "extend", "toggle", "delete", "pull",
                             "push", "pullall", "erase"}
<1>1. op[w] \in Locals /\ OpOK(op[w]) /\ op \in [Workers -> Locals]
  BY DEF SyncTypeInv, OpsInv
<1>2. op[w].kind \in Kinds \cup {"none"} /\ op[w].kind # "register"
  BY <1>1 DEF OpOK, StepsOf, Locals
<1> QED BY <1>1, <1>2, PanelSyncAssumption DEF PanelSyncAssumption

LEMMA LocksInner ==
    ASSUME SyncTypeInv, NEW w \in Workers, Lock(w)
    PROVE  InnerStep(w) /\ OpOK(op[w])' /\ Aware(w)'
<1>1. Busy(w) /\ Goto(w, "panel") /\ op[w].pc = "lock"
  BY DEF Lock, Busy
<1>2. PanelStep /\ mishaps' \subseteq Mishaps
  BY DEF Lock, PanelStep, SyncTypeInv, BegunInv
<1>3. InnerStep(w) /\ StoreInv' /\ Len(panel') = Len(panel)
  BY <1>1, <1>2, Going, InnerGoes DEF Lock
<1>4. OpOK(op[w]) /\ op[w].kind \in {"extend", "change"}
  BY <1>1, OpFacts DEF OpOK, StepsOf
<1>5. OpOK(op[w])'
  BY <1>1, <1>4, Going DEF Lock, OpOK, StepsOf, HasRead, Within, store
<1>6. Aware(w)'
  BY <1>1, <1>4, Going DEF Aware, During
<1> QED BY <1>3, <1>5, <1>6

LEMMA CallUpdateInner ==
    ASSUME SyncTypeInv, NEW w \in Workers, CallUpdate(w)
    PROVE  InnerStep(w) /\ OpOK(op[w])' /\ (Busy(w)' => Aware(w)')
<1> DEFINE kind == IF op[w].kind = "toggle" THEN "status" ELSE "modified"
<1>1. /\ Busy(w) /\ op[w].pc = "panel" /\ op[w].kind \in {"extend", "change", "toggle", "push"}
      /\ UNCHANGED <<store, handler, started, hand, marks>>
      /\ mishaps \subseteq Mishaps
  BY DEF CallUpdate, Busy, Call, SyncTypeInv, BegunInv
<1>2. op[w] \in Locals /\ OpOK(op[w]) /\ PanelInv /\ panel \in Seq(PanelUserType)
  BY DEF SyncTypeInv, OpsInv, PanelInv
<1>3. CASE Missing(w)
  <2>1. PanelStep /\ Finish(w) /\ mishaps' = mishaps
    BY <1>3 DEF Missing, PanelStep
  <2> QED BY <1>1, <2>1, InnerEnds
<1>4. CASE Refused(w)
  BY <1>1, <1>4, RefusedEnds DEF CallUpdate
<1>5. CASE /\ op[w].remna \in Alive /\ PushTo(w, Pushed(w), kind)
           /\ Applied(w, IF op[w].kind = "push" THEN Finish(w) ELSE Goto(w, "commit"))
  <2>1. Pushed(w) \in Subs \cup PanelUserType
    <3>1. op[w].remna \in 1 .. Len(panel)
      BY <1>5 DEF Alive
    <3>2. op[w].sub \in Subs /\ panel[op[w].remna] \in PanelUserType
      BY <1>2, <3>1 DEF Locals
    <3>3. Asked(op[w].sub) \in Subs
      BY <3>2, DataType
    <3>4. PICK x \in Statuses : x = op[w].sub.status
      BY <3>2 DEF Subs, Statuses
    <3>5. [panel[op[w].remna] EXCEPT !.status = x] \in PanelUserType
      BY <3>2 DEF PanelUserType
    <3> QED BY <3>3, <3>4, <3>5 DEF Pushed
  <2>2. /\ op[w].remna \in Alive /\ Data(Pushed(w)) \in Subs
        /\ Tells(op[w].remna, Data(Pushed(w)))
    BY <1>2, <1>5, <2>1, TellsData DEF PushTo
  <2>3. PanelStep
    BY <2>2 DEF PanelStep
  <2>4. Alive' = Alive /\ Data(panel'[op[w].remna]) = Data(Pushed(w))
    BY <1>2, <2>2, TellsAlive
  <2>5. CASE Mishap("unanswered") /\ Finish(w)
    BY <1>1, <2>3, <2>5, InnerEnds, MishapGrows
  <2>6. CASE UNCHANGED mishaps /\ op[w].kind = "push" /\ Finish(w)
    BY <1>1, <2>3, <2>6, InnerEnds
  <2>7. CASE UNCHANGED mishaps /\ op[w].kind # "push" /\ Goto(w, "commit")
    <3>1. InnerStep(w) /\ StoreInv' /\ Len(panel) \in Nat /\ Len(panel') \in Nat
          /\ Len(panel) <= Len(panel')
      BY <1>1, <2>3, <2>7, Going, InnerGoes
    <3>2. /\ op'[w].pc = "commit" /\ op'[w].kind = op[w].kind /\ op'[w].of = op[w].of
          /\ op'[w].row = op[w].row /\ op'[w].remna = op[w].remna /\ op'[w].sub = op[w].sub
          /\ op'[w].ids = op[w].ids /\ op'[w].seen = op[w].seen
      BY <1>1, <2>7, Going
    <3>3. OpOK(op[w])'
      BY <1>1, <1>2, <2>7, <3>1, <3>2 DEF OpOK, StepsOf, HasRead, Within, store, Locals
    <3>4. Aware(w)'
      <4>1. op'[w].remna \in Alive'
        BY <2>2, <2>4, <3>2
      <4>2. CASE op[w].kind = "extend"
        <5>1. Pushed(w) = Asked(op[w].sub) /\ Asked(op[w].sub).term = op[w].sub.term
          BY <1>2, <4>2 DEF Pushed, Asked, Locals, Subs
        <5>2. panel'[op[w].remna].term = op[w].sub.term
          BY <2>4, <5>1 DEF Data
        <5> QED BY <3>2, <4>1, <4>2, <5>2 DEF Aware, During
      <4>3. CASE op[w].kind = "change"
        <5>1. op[w].sub.status = "ACTIVE" /\ op[w].sub \in Subs
          BY <1>2, <4>3 DEF OpOK, HasRead, Locals
        <5>2. Asked(op[w].sub) = op[w].sub
          BY <5>1 DEF Asked, Subs
        <5>3. Data(Pushed(w)) = op[w].sub
          BY <4>3, <5>1, <5>2, DataType DEF Pushed
        <5> QED BY <2>4, <3>2, <4>1, <4>3, <5>3 DEF Aware, During, Has
      <4>4. CASE op[w].kind = "toggle"
        <5>1. panel[op[w].remna] \in PanelUserType
          BY <1>2, <2>2 DEF Alive
        <5>2. Pushed(w).status = op[w].sub.status
          BY <4>4, <5>1 DEF Pushed, PanelUserType
        <5>3. panel'[op[w].remna].status = op[w].sub.status
          BY <2>4, <5>2 DEF Data
        <5> QED BY <3>2, <4>1, <4>4, <5>3 DEF Aware, During
      <4> QED BY <1>1, <2>7, <4>2, <4>3, <4>4
    <3> QED BY <3>1, <3>3, <3>4
  <2> QED BY <1>5, <2>5, <2>6, <2>7 DEF Applied
<1> QED BY <1>3, <1>4, <1>5 DEF CallUpdate

LEMMA CallDeleteInner ==
    ASSUME SyncTypeInv, NEW w \in Workers, CallDelete(w)
    PROVE  InnerStep(w) /\ OpOK(op[w])' /\ (Busy(w)' => Aware(w)')
<1>1. /\ Busy(w) /\ op[w].pc = "panel" /\ op[w].kind = "delete"
      /\ UNCHANGED <<store, handler, started, hand, marks>>
      /\ mishaps \subseteq Mishaps
  BY DEF CallDelete, During, Busy, Call, SyncTypeInv, BegunInv
<1>2. op[w] \in Locals /\ OpOK(op[w]) /\ PanelInv
  BY OpFacts DEF SyncTypeInv
<1>3. CASE Refused(w)
  BY <1>1, <1>3, RefusedEnds DEF CallDelete
<1>4. ASSUME PanelStep, UNCHANGED mishaps, Goto(w, "commit"), op[w].remna \notin Alive'
      PROVE  InnerStep(w) /\ OpOK(op[w])' /\ (Busy(w)' => Aware(w)')
  <2>1. InnerStep(w) /\ StoreInv' /\ Len(panel) \in Nat /\ Len(panel') \in Nat
        /\ Len(panel) <= Len(panel')
    BY <1>1, <1>4, Going, InnerGoes
  <2>2. /\ op'[w].pc = "commit" /\ op'[w].kind = op[w].kind /\ op'[w].of = op[w].of
        /\ op'[w].row = op[w].row /\ op'[w].remna = op[w].remna /\ op'[w].sub = op[w].sub
        /\ op'[w].ids = op[w].ids /\ op'[w].seen = op[w].seen
    BY <1>1, <1>4, Going
  <2>3. OpOK(op[w])'
    BY <1>1, <1>2, <2>1, <2>2 DEF OpOK, StepsOf, HasRead, Within, store, Locals
  <2>4. Aware(w)'
    BY <1>1, <1>4, <2>2 DEF Aware, During
  <2> QED BY <2>1, <2>3, <2>4
<1>5. CASE op[w].remna \notin Alive /\ Goto(w, "commit") /\ UNCHANGED <<panel, hooks, mishaps>>
  BY <1>4, <1>5 DEF PanelStep, Alive
<1>6. CASE RemovePanelUser(op[w].remna) /\ Applied(w, Goto(w, "commit"))
  <2>1. op[w].remna \in Alive /\ PanelStep
    BY <1>6 DEF RemovePanelUser, PanelStep
  <2>2. Alive' = Alive \ {op[w].remna}
    BY <1>2, <1>6, <2>1, RemoveAlive
  <2>3. CASE Mishap("unanswered") /\ Finish(w)
    BY <1>1, <2>1, <2>3, InnerEnds, MishapGrows
  <2>4. CASE UNCHANGED mishaps /\ Goto(w, "commit")
    BY <1>4, <2>1, <2>2, <2>4
  <2> QED BY <1>6, <2>3, <2>4 DEF Applied
<1> QED BY <1>3, <1>5, <1>6 DEF CallDelete

LEMMA CallCreateInner ==
    ASSUME SyncTypeInv, NEW w \in Workers, CallCreate(w)
    PROVE  InnerStep(w) /\ OpOK(op[w])' /\ (Busy(w)' => Aware(w)')
<1>1. /\ Busy(w) /\ op[w].kind \in {"buy", "push"} /\ op[w].pc \in {"panel", "recreate"}
      /\ Create(TRUE, Made(w)) /\ UNCHANGED <<store, handler, started, hand, marks>>
      /\ op[w].kind = "push" => op[w].pc = "recreate"
      /\ mishaps \subseteq Mishaps
  BY DEF CallCreate, During, Busy, Call, SyncTypeInv, BegunInv
<1>2. op[w] \in Locals /\ OpOK(op[w]) /\ PanelInv /\ op \in [Workers -> Locals]
  BY OpFacts DEF SyncTypeInv
<1>3. PICK x \in Subs : x = Made(w) /\ x.status = "ACTIVE" /\ x.tag = op[w].sub.tag
  <2>1. op[w].sub \in Subs
    BY <1>2 DEF Locals
  <2>2. PICK s \in Subs : s = op[w].sub
    BY <2>1
  <2>3. PICK x : x = [s EXCEPT !.status = "ACTIVE"]
    OBVIOUS
  <2>4. x \in Subs /\ x.status = "ACTIVE" /\ x.tag = s.tag
    BY <2>3 DEF Subs
  <2> QED BY <2>2, <2>3, <2>4 DEF Made
<1>4. PanelStep
  BY <1>1, <1>3 DEF PanelStep
<1>5. /\ Len(panel') = Len(panel) + 1 /\ Alive' = Alive \cup {Len(panel')}
      /\ Data(panel'[Len(panel')]) = x /\ panel'[Len(panel')].own
  BY <1>1, <1>2, <1>3, CreateAlive
<1>6. CASE Mishap("unanswered") /\ Finish(w)
  BY <1>1, <1>4, <1>6, InnerEnds, MishapGrows
<1>7. CASE /\ op' = [op EXCEPT ![w].pc = "commit", ![w].remna = Len(panel'), ![w].sub = Made(w)]
           /\ UNCHANGED mishaps
  <2>1. PICK p \in Nat : p = Len(panel') /\ p > 0
    BY <1>2, <1>5 DEF PanelInv
  <2>2. op'[w] = [op[w] EXCEPT !.pc = "commit", !.remna = p, !.sub = x]
        /\ \A v \in Workers \ {w} : op'[v] = op[v]
    BY <1>2, <1>3, <1>7, <2>1
  <2>3. /\ op'[w] \in Locals /\ op'[w].pc = "commit" /\ op'[w].kind = op[w].kind
        /\ op'[w].of = op[w].of /\ op'[w].row = op[w].row /\ op'[w].remna = p
        /\ op'[w].sub = x /\ op'[w].ids = op[w].ids /\ op'[w].seen = op[w].seen
        /\ op'[w].whole = op[w].whole
    <3>1. PICK q \in Locals : q = op[w]
      BY <1>2
    <3>2. PICK r : r = [q EXCEPT !.pc = "commit", !.remna = p, !.sub = x]
      OBVIOUS
    <3>3. op'[w] = r
      BY <2>2, <3>1, <3>2
    <3>4. /\ r \in Locals /\ r.pc = "commit" /\ r.kind = q.kind /\ r.of = q.of
          /\ r.row = q.row /\ r.remna = p /\ r.sub = x /\ r.ids = q.ids /\ r.seen = q.seen
          /\ r.whole = q.whole
      BY <3>2 DEF Locals
    <3> QED BY <3>1, <3>3, <3>4
  <2>4. Moves(w)
    <3>1. op' \in [Workers -> Locals]
      <4>1. DOMAIN op' = Workers /\ op' = [v \in Workers |-> op'[v]]
        BY <1>2, <1>7
      <4> QED BY <1>2, <2>2, <2>3, <4>1
    <3> QED BY <2>2, <3>1 DEF Moves
  <2>5. WorkStep(w)
    BY <1>1, <2>3, <2>4 DEF WorkStep
  <2>6. InnerStep(w) /\ StoreInv' /\ Len(panel) \in Nat /\ Len(panel') \in Nat
        /\ Len(panel) <= Len(panel')
    BY <1>1, <1>4, <1>7, <2>5, InnerGoes
  <2>7. OpOK(op[w])'
    BY <1>1, <1>2, <1>3, <2>1, <2>3, <2>6
       DEF OpOK, StepsOf, HasRead, Within, store, Locals, None
  <2>8. Aware(w)'
    BY <1>1, <1>5, <2>1, <2>3 DEF Aware, During, Has
  <2> QED BY <2>6, <2>7, <2>8
<1> QED BY <1>6, <1>7 DEF CallCreate

LEMMA NotCreatedInner ==
    ASSUME SyncTypeInv, NEW w \in Workers, NotCreated(w)
    PROVE  InnerStep(w) /\ OpOK(op[w])' /\ ~Busy(w)'
<1>1. Busy(w) /\ UNCHANGED <<store, handler, started, hand, marks>> /\ mishaps \subseteq Mishaps
  BY DEF NotCreated, During, Busy, Call, SyncTypeInv, BegunInv
<1>2. CASE Finish(w) /\ UNCHANGED <<panel, hooks, mishaps>>
  BY <1>1, <1>2, InnerEnds DEF PanelStep
<1>3. CASE Refused(w)
  BY <1>1, <1>3, RefusedEnds DEF NotCreated
<1> QED BY <1>2, <1>3 DEF NotCreated

LEMMA KilledInner ==
    ASSUME SyncTypeInv, NEW w \in Workers, Killed(w)
    PROVE  InnerStep(w) /\ OpOK(op[w])' /\ ~Busy(w)'
BY InnerEnds, MishapGrows DEF Killed, PanelStep

\* One that goes on with other locals.
LEMMA OpGoes ==
    ASSUME SyncTypeInv, NEW w \in Workers, Busy(w), NEW r \in Locals,
           op' = [op EXCEPT ![w] = r], r.pc # "idle", r.kind = op[w].kind, r.of = op[w].of,
           r.row = op[w].row, r.whole = op[w].whole
    PROVE  WorkStep(w) /\ op'[w] = r
<1>1. op \in [Workers -> Locals]
  BY DEF SyncTypeInv, OpsInv
<1>2. op' \in [Workers -> Locals] /\ op'[w] = r /\ \A v \in Workers \ {w} : op'[v] = op[v]
  BY <1>1
<1> QED BY <1>2 DEF WorkStep, Moves

LEMMA AliveFacts ==
    ASSUME SyncTypeInv
    PROVE  /\ \A p \in Alive : /\ p \in 1 .. Len(panel) /\ panel[p] \in PanelUserType
                               /\ Data(panel[p]) \in Subs
           /\ Len(panel) \in Nat
<1>1. panel \in Seq(PanelUserType)
  BY DEF SyncTypeInv, PanelInv
<1>2. \A p \in Alive : p \in 1 .. Len(panel) /\ panel[p] \in PanelUserType
  BY <1>1 DEF Alive
<1> QED BY <1>1, <1>2, DataType

LEMMA LookPullInner ==
    ASSUME SyncTypeInv, NEW w \in Workers, LookPull(w)
    PROVE  InnerStep(w) /\ OpOK(op[w])' /\ (Busy(w)' => Aware(w)')
<1>1. /\ Busy(w) /\ op[w].pc = "look" /\ op[w].kind = "pull" /\ PanelStep
      /\ UNCHANGED <<store, handler, started, hand, marks>> /\ UNCHANGED <<panel, mishaps>>
      /\ mishaps \subseteq Mishaps
  BY DEF LookPull, During, Busy, PanelStep, SyncTypeInv, BegunInv
<1>2. op[w] \in Locals /\ OpOK(op[w]) /\ op \in [Workers -> Locals]
  BY OpFacts
<1>3. CASE Finish(w)
  BY <1>1, <1>3, InnerEnds
<1>4. CASE op[w].row # None /\ op[w].remna \notin Alive /\ Goto(w, "gone")
  <2>1. InnerStep(w) /\ StoreInv' /\ Len(panel') \in Nat /\ Len(panel') = Len(panel)
    BY <1>1, <1>4, Going, InnerGoes
  <2>2. /\ op'[w].pc = "gone" /\ op'[w].kind = op[w].kind /\ op'[w].of = op[w].of
        /\ op'[w].row = op[w].row /\ op'[w].remna = op[w].remna /\ op'[w].sub = op[w].sub
        /\ op'[w].ids = op[w].ids /\ op'[w].seen = op[w].seen
    BY <1>1, <1>4, Going
  <2>3. OpOK(op[w])'
    BY <1>1, <1>2, <1>4, <2>1, <2>2 DEF OpOK, StepsOf, HasRead, Within, store
  <2>4. Aware(w)'
    BY <1>1, <1>4, <2>2 DEF Aware, During, Alive
  <2> QED BY <2>1, <2>3, <2>4
<1>5. ASSUME NEW p \in Alive,
             op' = [op EXCEPT ![w].pc = "sync", ![w].remna = p, ![w].sub = Snapshot(w, p)]
      PROVE  InnerStep(w) /\ OpOK(op[w])' /\ (Busy(w)' => Aware(w)')
  <2>1. PICK x \in Subs : x = Data(panel[p])
    BY AliveFacts
  <2>2. PICK q \in Locals : q = op[w]
    BY <1>2
  <2>3. PICK n \in Nat : n = p /\ n # None
    BY AliveFacts DEF None
  <2>4. PICK r : r = [q EXCEPT !.pc = "sync", !.remna = n, !.sub = x]
    OBVIOUS
  <2>5. /\ r \in Locals /\ r.pc = "sync" /\ r.kind = q.kind /\ r.of = q.of /\ r.row = q.row
        /\ r.remna = n /\ r.sub = x /\ r.ids = q.ids /\ r.seen = q.seen /\ r.whole = q.whole
    BY <2>4 DEF Locals
  <2>6. op' = [op EXCEPT ![w] = r]
    BY <1>2, <1>5, <2>1, <2>2, <2>3, <2>4 DEF Snapshot
  <2>7. WorkStep(w) /\ op'[w] = r
    BY <1>1, <2>2, <2>5, <2>6, OpGoes
  <2>8. InnerStep(w) /\ StoreInv' /\ Len(panel') \in Nat /\ Len(panel') = Len(panel)
    BY <1>1, <2>7, InnerGoes
  <2>9. OpOK(op[w])'
    <3>1. n <= Len(panel)
      BY <2>3, AliveFacts
    <3> QED BY <1>1, <1>2, <2>2, <2>3, <2>5, <2>7, <2>8, <3>1
               DEF OpOK, StepsOf, HasRead, Within, store
  <2>10. Aware(w)'
    BY <1>1, <2>1, <2>2, <2>3, <2>5, <2>7 DEF Aware, During, Has, Alive
  <2> QED BY <2>8, <2>9, <2>10
<1> QED BY <1>3, <1>4, <1>5 DEF LookPull

LEMMA LookPushInner ==
    ASSUME SyncTypeInv, NEW w \in Workers, LookPush(w)
    PROVE  InnerStep(w) /\ OpOK(op[w])' /\ (Busy(w)' => Aware(w)')
<1>1. /\ Busy(w) /\ op[w].pc = "look" /\ op[w].kind = "push"
      /\ UNCHANGED <<store, handler, started, hand, marks>> /\ mishaps' = mishaps
      /\ mishaps \subseteq Mishaps
  BY DEF LookPush, During, Busy, SyncTypeInv, BegunInv
<1>2. op[w] \in Locals /\ OpOK(op[w])
  BY OpFacts
<1>3. CASE Finish(w) /\ PanelStep
  BY <1>1, <1>3, InnerEnds
<1>4. ASSUME NEW pc \in {"panel", "recreate"}, op[w].row # None, Goto(w, pc),
             UNCHANGED <<panel, hooks>>
      PROVE  InnerStep(w) /\ OpOK(op[w])' /\ Aware(w)'
  <2>1. InnerStep(w) /\ StoreInv' /\ Len(panel') \in Nat /\ Len(panel') = Len(panel)
    BY <1>1, <1>4, Going, InnerGoes DEF PanelStep
  <2>2. /\ op'[w].pc = pc /\ op'[w].kind = op[w].kind /\ op'[w].of = op[w].of
        /\ op'[w].row = op[w].row /\ op'[w].remna = op[w].remna /\ op'[w].sub = op[w].sub
        /\ op'[w].ids = op[w].ids /\ op'[w].seen = op[w].seen
    BY <1>1, <1>4, Going
  <2>3. OpOK(op[w])'
    BY <1>1, <1>2, <1>4, <2>1, <2>2 DEF OpOK, StepsOf, HasRead, Within, store
  <2>4. Aware(w)'
    BY <1>1, <2>2 DEF Aware, During
  <2> QED BY <2>1, <2>3, <2>4
<1>5. \/ Finish(w) /\ PanelStep
      \/ \E pc \in {"panel", "recreate"} :
           op[w].row # None /\ Goto(w, pc) /\ UNCHANGED <<panel, hooks>>
  BY DEF LookPush, PanelStep
<1> QED BY <1>3, <1>4, <1>5

LEMMA LookPullAllInner ==
    ASSUME SyncTypeInv, NEW w \in Workers, LookPullAll(w)
    PROVE  InnerStep(w) /\ OpOK(op[w])' /\ Aware(w)'
<1>1. /\ Busy(w) /\ op[w].pc = "look" /\ op[w].kind = "pullall" /\ PanelStep
      /\ UNCHANGED <<store, handler, started, hand, marks>> /\ UNCHANGED <<panel, mishaps>>
      /\ mishaps \subseteq Mishaps
  BY DEF LookPullAll, During, Busy, PanelStep, SyncTypeInv, BegunInv
<1>2. op[w] \in Locals /\ OpOK(op[w]) /\ op \in [Workers -> Locals]
  BY OpFacts
<1> DEFINE S == {Hook("seen", p, panel[p]) : p \in Alive}
<1>3. /\ \A h \in S : h \in [kind : {"seen"}, id : Nat, sub : Subs]
      /\ \A h \in S : h.id \in Alive /\ h.sub = Data(panel[h.id])
  BY AliveFacts DEF Hook
<1>4. PICK s : s = S
  OBVIOUS
<1>5. PICK q \in Locals : q = op[w]
  BY <1>2
<1>6. PICK r : r = [q EXCEPT !.pc = "sync", !.seen = s]
  OBVIOUS
<1>7. s \in SUBSET [kind : {"seen"}, id : Nat, sub : Subs]
  BY <1>3, <1>4
<1>8. op' = [op EXCEPT ![w] = r]
  BY <1>2, <1>4, <1>5, <1>6 DEF LookPullAll
<1> HIDE DEF S
<1>9. /\ r \in Locals /\ r.pc = "sync" /\ r.kind = q.kind /\ r.of = q.of /\ r.row = q.row
      /\ r.remna = q.remna /\ r.sub = q.sub /\ r.ids = q.ids /\ r.seen = s /\ r.whole = q.whole
  BY <1>6, <1>7 DEF Locals
<1>10. WorkStep(w) /\ op'[w] = r
  BY <1>1, <1>5, <1>8, <1>9, OpGoes
<1>11. InnerStep(w) /\ StoreInv' /\ Len(panel') \in Nat /\ Len(panel') = Len(panel)
  BY <1>1, <1>10, InnerGoes
<1>12. OpOK(op[w])'
  <2>1. \A h \in s : h.id \in 1 .. Len(panel)
    BY <1>3, <1>4, AliveFacts
  <2> QED BY <1>1, <1>2, <1>5, <1>9, <1>10, <1>11, <2>1
             DEF OpOK, StepsOf, HasRead, Within, store
<1>13. Aware(w)'
  BY <1>1, <1>3, <1>4, <1>5, <1>9, <1>10 DEF Aware, During, Alive
<1> QED BY <1>11, <1>12, <1>13

LEMMA CollectIdsInner ==
    ASSUME SyncTypeInv, NEW w \in Workers, CollectIds(w)
    PROVE  InnerStep(w) /\ OpOK(op[w])' /\ Aware(w)' /\ op'[w].ids = PanelIds
<1>1. /\ Busy(w) /\ op[w].pc = "ids" /\ op[w].kind = "erase" /\ PanelStep
      /\ UNCHANGED <<store, handler, started, hand, marks>> /\ UNCHANGED <<panel, mishaps>>
      /\ mishaps \subseteq Mishaps
  BY DEF CollectIds, During, Busy, PanelStep, SyncTypeInv, BegunInv
<1>2. op[w] \in Locals /\ OpOK(op[w]) /\ op \in [Workers -> Locals]
  BY OpFacts
<1>3. \A p \in PanelIds : p \in Nat /\ p <= Len(panel)
  <2>1. \A r \in 1 .. Len(rows) : rows[r] \in RowType /\ rows[r].remna <= Len(panel)
    BY DEF SyncTypeInv, StoreInv
  <2> QED BY <2>1 DEF PanelIds, RowType
<1>4. PICK s \in SUBSET Nat : s = PanelIds
  BY <1>3
<1>5. PICK q \in Locals : q = op[w]
  BY <1>2
<1>6. PICK r : r = [q EXCEPT !.pc = "panel", !.ids = s]
  OBVIOUS
<1>8. op' = [op EXCEPT ![w] = r]
  BY <1>2, <1>4, <1>5, <1>6 DEF CollectIds
<1>9. /\ r \in Locals /\ r.pc = "panel" /\ r.kind = q.kind /\ r.of = q.of /\ r.row = q.row
      /\ r.remna = q.remna /\ r.sub = q.sub /\ r.ids = s /\ r.seen = q.seen /\ r.whole = q.whole
  BY <1>4, <1>6 DEF Locals
<1>10. WorkStep(w) /\ op'[w] = r
  BY <1>1, <1>5, <1>8, <1>9, OpGoes
<1>11. InnerStep(w) /\ StoreInv' /\ Len(panel') \in Nat /\ Len(panel') = Len(panel)
  BY <1>1, <1>10, InnerGoes
<1>12. OpOK(op[w])'
  BY <1>1, <1>2, <1>3, <1>4, <1>5, <1>9, <1>10, <1>11 DEF OpOK, StepsOf, HasRead, Within, store
<1>13. Aware(w)'
  BY <1>1, <1>5, <1>9, <1>10 DEF Aware, During
<1> QED BY <1>4, <1>9, <1>10, <1>11, <1>12, <1>13

LEMMA CallEraseInner ==
    ASSUME SyncTypeInv, NEW w \in Workers, CallErase(w)
    PROVE  InnerStep(w) /\ OpOK(op[w])' /\ (Busy(w)' => Aware(w)')
<1>1. /\ Busy(w) /\ op[w].pc = "panel" /\ op[w].kind = "erase"
      /\ UNCHANGED <<store, handler, started, hand, marks>>
      /\ mishaps \subseteq Mishaps
  BY DEF CallErase, During, Busy, Call, SyncTypeInv, BegunInv
<1>2. op[w] \in Locals /\ OpOK(op[w]) /\ op \in [Workers -> Locals]
  BY OpFacts
<1>3. PICK p \in op[w].ids :
        \/ /\ RemovePanelUser(p)
           /\ \/ op' = [op EXCEPT ![w].ids = @ \ {p}] /\ mishaps' = mishaps
              \/ Mishap("unanswered") /\ Finish(w)
        \/ /\ p \notin Alive /\ op' = [op EXCEPT ![w].ids = @ \ {p}]
           /\ UNCHANGED <<panel, hooks, mishaps>>
        \/ Refused(w)
  BY DEF CallErase, Applied
<1>4. CASE Refused(w)
  BY <1>1, <1>4, RefusedEnds DEF CallErase
<1>5. (RemovePanelUser(p) \/ UNCHANGED <<panel, hooks>>) => PanelStep
  BY DEF PanelStep, RemovePanelUser
<1>6. CASE Mishap("unanswered") /\ Finish(w) /\ RemovePanelUser(p)
  BY <1>1, <1>5, <1>6, InnerEnds, MishapGrows
<1>7. ASSUME PanelStep, op' = [op EXCEPT ![w].ids = @ \ {p}], mishaps' = mishaps
      PROVE  InnerStep(w) /\ OpOK(op[w])' /\ Aware(w)'
  <2>1. PICK q \in Locals : q = op[w]
    BY <1>2
  <2>2. PICK s \in SUBSET Nat : s = q.ids \ {p}
    BY DEF Locals
  <2>3. PICK r : r = [q EXCEPT !.ids = s]
    OBVIOUS
  <2>4. op' = [op EXCEPT ![w] = r]
    BY <1>2, <1>7, <2>1, <2>2, <2>3
  <2>5. /\ r \in Locals /\ r.pc = q.pc /\ r.kind = q.kind /\ r.of = q.of /\ r.row = q.row
        /\ r.remna = q.remna /\ r.sub = q.sub /\ r.ids = s /\ r.seen = q.seen
        /\ r.whole = q.whole
    BY <2>2, <2>3 DEF Locals
  <2>6. WorkStep(w) /\ op'[w] = r
    BY <1>1, <2>1, <2>4, <2>5, OpGoes
  <2>7. InnerStep(w) /\ StoreInv' /\ Len(panel') \in Nat /\ Len(panel) <= Len(panel')
        /\ Len(panel) \in Nat
    BY <1>1, <1>7, <2>6, InnerGoes
  <2>8. Within(op[w])'
    BY <1>2, <2>1, <2>2, <2>5, <2>6, <2>7, <1>1 DEF OpOK, Within, Locals, store
  <2>9. OpOK(op[w])'
    BY <1>1, <1>2, <2>1, <2>5, <2>6, <2>8 DEF OpOK, StepsOf, HasRead
  <2>10. Aware(w)'
    BY <1>1, <2>1, <2>5, <2>6 DEF Aware, During
  <2> QED BY <2>7, <2>9, <2>10
<1> QED BY <1>3, <1>4, <1>5, <1>6, <1>7

LEMMA InnerKept ==
    ASSUME SyncTypeInv, NEW w \in Workers, Inner(w)
    PROVE  InnerStep(w) /\ OpOK(op[w])' /\ (Busy(w)' => Aware(w)')
BY LocksInner, CallUpdateInner, CallDeleteInner, CallCreateInner, NotCreatedInner,
   LookPullInner, LookPushInner, LookPullAllInner, CollectIdsInner, CallEraseInner,
   KilledInner DEF Inner

LEMMA InnerTypes ==
    ASSUME SyncTypeInv, NEW w \in Workers, Inner(w)
    PROVE  SyncTypeInv' /\ Grows
<1>1. InnerStep(w) /\ OpOK(op[w])'
  BY InnerKept
<1>2. PanelInv' /\ Grows /\ Len(panel) <= Len(panel') /\ Len(panel') \in Nat
  BY <1>1, PanelTypes DEF InnerStep, SyncTypeInv, PanelInv, Grows
<1>3. StoreInv' /\ StoreGrows
  BY <1>1, <1>2, StoreSame DEF InnerStep
<1>4. OpsInv'
  BY <1>1, <1>2, <1>3, OpsMove DEF InnerStep, WorkStep
<1>5. BegunInv'
  BY <1>1 DEF InnerStep, SyncTypeInv, BegunInv
<1> QED BY <1>2, <1>3, <1>4, <1>5 DEF SyncTypeInv

-----------------------------------------------------------------------------
(* What the steps do that write to the database.                            *)

\* A synchronisation leaves the account with a current row of the user of the panel.
SyncedTo(p, x) ==
    /\ account' # None /\ account' \in Nat /\ accounts' \in Nat
    /\ account' <= accounts' /\ accounts <= accounts'
    /\ account # None => account' = account /\ accounts' = accounts
    /\ rows' \in Seq(RowType) /\ Len(rows') <= MaxRows
    /\ current' \in 1 .. Len(rows') /\ rows'[current'] = Row(p, x)
    /\ \A r \in 1 .. Len(rows) : r # current' => rows'[r] = rows[r]
    /\ current = None => current' = Len(rows) + 1 /\ Len(rows') = Len(rows) + 1
    /\ current # None => current' = current /\ ~Held /\ Len(rows') = Len(rows)

LEMMA SyncEffect ==
    ASSUME SyncTypeInv, NEW p \in Nat, NEW x \in Subs, NEW creating \in BOOLEAN, NEW of \in Nat,
           Sync(p, x, creating, of)
    PROVE  \/ UNCHANGED store /\ ((of # None /\ of # account) \/ (account = None /\ ~creating))
           \/ SyncedTo(p, x) /\ of \in {None, account}
<1>1. /\ rows \in Seq(RowType) /\ Len(rows) \in Nat /\ account \in Nat /\ accounts \in Nat
      /\ current \in 0 .. Len(rows) /\ account <= accounts /\ Row(p, x) \in RowType
      /\ Len(rows) <= MaxRows /\ MaxRows \in Nat
  BY DataType, PanelSyncAssumption DEF SyncTypeInv, StoreInv, PanelSyncAssumption
<1>2. CASE UNCHANGED store /\ ((of # None /\ of # account) \/ (account = None /\ ~creating))
  BY <1>2
<1>3. ASSUME of \in {None, account},
             IF account = None THEN account' = accounts + 1 /\ accounts' = accounts + 1
                               ELSE UNCHANGED <<account, accounts>>,
             \/ current = None /\ Imported(p, x)
             \/ current # None /\ ~Held /\ rows' = Synced(p, x) /\ UNCHANGED current
      PROVE  SyncedTo(p, x)
  <2>1. /\ account' # None /\ account' \in Nat /\ accounts' \in Nat
        /\ account' <= accounts' /\ accounts <= accounts'
        /\ account # None => account' = account /\ accounts' = accounts
    BY <1>1, <1>3 DEF None
  <2>2. PICK y \in RowType : y = Row(p, x)
    BY <1>1
  <2>3. CASE current = None /\ Imported(p, x)
    <3>1. rows' = Append(rows, y) /\ current' = Len(rows) + 1 /\ Len(rows) < MaxRows
      BY <2>2, <2>3 DEF Imported
    <3>2. /\ rows' \in Seq(RowType) /\ Len(rows') = Len(rows) + 1 /\ rows'[current'] = y
          /\ \A r \in 1 .. Len(rows) : rows'[r] = rows[r]
      BY <1>1, <3>1
    <3> QED BY <1>1, <2>1, <2>2, <2>3, <3>1, <3>2 DEF SyncedTo
  <2>4. CASE current # None /\ ~Held /\ rows' = Synced(p, x) /\ UNCHANGED current
    <3>1. rows' = [rows EXCEPT ![current] = y] /\ current \in 1 .. Len(rows)
      BY <1>1, <2>2, <2>4 DEF Synced, None
    <3>2. /\ rows' \in Seq(RowType) /\ Len(rows') = Len(rows) /\ rows'[current] = y
          /\ \A r \in 1 .. Len(rows) : r # current => rows'[r] = rows[r]
      BY <1>1, <3>1
    <3> QED BY <1>1, <2>1, <2>2, <2>4, <3>1, <3>2 DEF SyncedTo
  <2> QED BY <1>3, <2>3, <2>4
<1> QED BY <1>2, <1>3 DEF Sync

LEMMA RowFacts ==
    ASSUME SyncTypeInv
    PROVE  /\ rows \in Seq(RowType) /\ Len(rows) \in Nat /\ Len(panel) \in Nat
           /\ \A r \in 1 .. Len(rows) : /\ rows[r] \in RowType /\ rows[r].remna \in Nat
                                        /\ rows[r].remna <= Len(panel)
           /\ current \in 0 .. Len(rows) /\ current \in Nat
           /\ account \in Nat /\ accounts \in Nat
           /\ current # None => current \in 1 .. Len(rows) /\ account # None
<1>1. /\ rows \in Seq(RowType) /\ Len(rows) \in Nat /\ Len(panel) \in Nat
      /\ current \in 0 .. Len(rows) /\ current \in Nat /\ account \in Nat /\ accounts \in Nat
      /\ current # None => current \in 1 .. Len(rows) /\ account # None
  BY DEF SyncTypeInv, StoreInv, PanelInv, None
<1>2. \A r \in 1 .. Len(rows) : rows[r] \in RowType
  BY <1>1
<1>3. \A r \in 1 .. Len(rows) : rows[r].remna <= Len(panel)
  BY DEF SyncTypeInv, StoreInv
<1> QED BY <1>1, <1>2, <1>3 DEF RowType

LEMMA SyncedTypes ==
    ASSUME SyncTypeInv, NEW p \in 1 .. Len(panel), NEW x \in Subs, SyncedTo(p, x), panel' = panel
    PROVE  StoreInv' /\ StoreGrows
<1>1. Row(p, x).remna = p /\ p # None
  BY DEF Row, None
<1>2. ASSUME NEW r \in 1 .. Len(rows') PROVE rows'[r].remna <= Len(panel')
  <2>1. Len(panel') = Len(panel) /\ rows'[current'].remna = p
    BY <1>1 DEF SyncedTo
  <2>2. r = current' \/ (r \in 1 .. Len(rows) /\ rows'[r] = rows[r])
    BY RowFacts DEF SyncedTo
  <2>3. CASE r = current'
    BY <2>1, <2>3, RowFacts
  <2>4. CASE r \in 1 .. Len(rows) /\ rows'[r] = rows[r]
    BY <2>1, <2>4, RowFacts
  <2> QED BY <2>2, <2>3, <2>4
<1>3. rows'[current'].remna # None /\ current' \in 0 .. Len(rows')
  BY <1>1 DEF SyncedTo
<1>4. Len(rows) <= Len(rows')
  BY RowFacts DEF SyncedTo
<1> QED BY <1>2, <1>3, <1>4 DEF StoreInv, StoreGrows, SyncedTo

\* A row that is written keeps the user of the panel it is of.
OneRow(r, y) ==
    /\ rows' = [rows EXCEPT ![r] = y] /\ y.remna = rows[r].remna
    /\ account' = account /\ accounts' = accounts

LEMMA OneRowTypes ==
    ASSUME SyncTypeInv, NEW r \in 1 .. Len(rows), NEW y \in RowType, OneRow(r, y),
           current' \in {current, None}, panel' = panel
    PROVE  /\ StoreInv' /\ StoreGrows /\ Len(rows') = Len(rows) /\ rows'[r] = y
           /\ \A s \in 1 .. Len(rows) : /\ s # r => rows'[s] = rows[s]
                                        /\ rows'[s].remna = rows[s].remna
<1>1. /\ rows' \in Seq(RowType) /\ Len(rows') = Len(rows) /\ rows'[r] = y
      /\ \A s \in 1 .. Len(rows) : s # r => rows'[s] = rows[s]
  BY RowFacts DEF OneRow
<1>2. \A s \in 1 .. Len(rows) : rows'[s].remna = rows[s].remna
  BY <1>1 DEF OneRow
<1>3. current' \in 0 .. Len(rows') /\ (current' # None => current' = current)
  BY <1>1, RowFacts DEF None
<1>4. current # None => account # None /\ rows[current].remna # None
  BY DEF SyncTypeInv, StoreInv
<1>5. StoreInv'
  BY <1>1, <1>2, <1>3, <1>4, RowFacts DEF StoreInv, OneRow, SyncTypeInv
<1>6. StoreGrows
  BY <1>1, RowFacts DEF StoreGrows, OneRow
<1> QED BY <1>1, <1>2, <1>5, <1>6

LEMMA RowWrites ==
    ASSUME SyncTypeInv, NEW r \in 1 .. Len(rows), NEW s \in Statuses, NEW t \in 1 .. MaxTerm
    PROVE  /\ [rows[r] EXCEPT !.status = s] \in RowType
           /\ [rows[r] EXCEPT !.status = s].remna = rows[r].remna
           /\ [rows[r] EXCEPT !.term = t] \in RowType
           /\ [rows[r] EXCEPT !.term = t].remna = rows[r].remna
<1>1. rows[r] \in RowType
  BY RowFacts
<1> QED BY <1>1 DEF RowType

\* A commit ends the operation and leaves the panel alone.
Commits(w) ==
    /\ Busy(w) /\ Finish(w) /\ UNCHANGED <<panel, hooks, handler, started, hand, mishaps>>

LEMMA CommitTypes ==
    ASSUME SyncTypeInv, NEW w \in Workers, Commits(w), StoreInv', StoreGrows
    PROVE  SyncTypeInv'
<1>1. PanelInv' /\ BegunInv' /\ Len(panel') \in Nat /\ Len(panel) <= Len(panel')
  BY DEF Commits, SyncTypeInv, PanelInv, BegunInv
<1>2. Moves(w) /\ OpOK(op[w])'
  BY <1>1, Ends DEF Commits
<1>3. OpsInv'
  BY <1>1, <1>2, OpsMove
<1> QED BY <1>1, <1>3 DEF SyncTypeInv

LEMMA UpdateEffect ==
    ASSUME SyncTypeInv, NEW w \in Workers, CommitUpdate(w)
    PROVE  /\ Commits(w) /\ StoreInv' /\ StoreGrows
           /\ UNCHANGED <<account, accounts, current, marks>> /\ Len(rows') = Len(rows)
           /\ \A r \in 1 .. Len(rows) :
                /\ rows'[r].remna = rows[r].remna
                /\ rows'[r] = rows[r] \/ (r = op[w].row /\ Kept(w))
                /\ r = op[w].row /\ Kept(w) =>
                     rows'[r] = IF op[w].kind = "extend"
                                THEN [rows[r] EXCEPT !.term = op[w].sub.term]
                                ELSE [rows[r] EXCEPT !.status = op[w].sub.status]
<1>1. /\ Commits(w) /\ UNCHANGED <<account, accounts, current, marks>>
      /\ op[w].kind \in {"extend", "toggle"} /\ panel' = panel
  BY DEF CommitUpdate, Commits, Busy
<1>2. CASE ~Kept(w)
  <2>1. rows' = rows
    BY <1>2 DEF CommitUpdate
  <2>2. StoreInv' /\ StoreGrows
    BY <1>1, <2>1, StoreSame DEF store, SyncTypeInv, PanelInv
  <2> QED BY <1>1, <1>2, <2>1, <2>2
<1>3. CASE Kept(w)
  <2>1. op[w] \in Locals /\ OpOK(op[w])
    BY OpFacts
  <2>2. PICK r \in 1 .. Len(rows) : r = op[w].row
    BY <1>1, <2>1, RowFacts DEF OpOK, HasRead, Within, Locals, None
  <2>3. PICK s \in Statuses, t \in 1 .. MaxTerm : s = op[w].sub.status /\ t = op[w].sub.term
    BY <2>1 DEF Locals, Subs, Statuses
  <2>4. PICK y : y = IF op[w].kind = "extend" THEN [rows[r] EXCEPT !.term = t]
                                              ELSE [rows[r] EXCEPT !.status = s]
    OBVIOUS
  <2>5. y \in RowType /\ y.remna = rows[r].remna
    BY <2>4, RowWrites
  <2>6. rows' = [rows EXCEPT ![r] = y]
    BY <1>1, <1>3, <2>2, <2>3, <2>4 DEF CommitUpdate
  <2>7. /\ StoreInv' /\ StoreGrows /\ Len(rows') = Len(rows) /\ rows'[r] = y
        /\ \A q \in 1 .. Len(rows) : /\ q # r => rows'[q] = rows[q]
                                     /\ rows'[q].remna = rows[q].remna
    BY <1>1, <2>5, <2>6, OneRowTypes DEF OneRow
  <2> QED BY <1>1, <1>3, <2>2, <2>3, <2>4, <2>7
<1> QED BY <1>2, <1>3

LEMMA InsertEffect ==
    ASSUME SyncTypeInv, NEW w \in Workers, CommitInsert(w)
    PROVE  /\ Commits(w) /\ StoreInv' /\ StoreGrows /\ UNCHANGED <<account, accounts, marks>>
           /\ \/ UNCHANGED store /\ ~Kept(w)
              \/ /\ Kept(w) /\ current' = Len(rows) + 1 /\ Len(rows') = Len(rows) + 1
                 /\ rows'[current'] = Row(op[w].remna, op[w].sub)
                 /\ \A r \in 1 .. Len(rows) : rows'[r].remna = rows[r].remna
<1>1. /\ Commits(w) /\ UNCHANGED <<account, accounts, marks>>
      /\ op[w].kind \in {"change", "buy"} /\ op[w].pc = "commit" /\ panel' = panel
  BY DEF CommitInsert, Commits, Busy
<1>2. CASE ~Kept(w) /\ UNCHANGED <<rows, current>>
  <2>1. StoreInv' /\ StoreGrows
    BY <1>1, <1>2, StoreSame DEF store, SyncTypeInv, PanelInv
  <2> QED BY <1>1, <1>2, <2>1 DEF store
<1>3. CASE /\ Kept(w) /\ Len(rows) < MaxRows /\ current' = Len(rows) + 1
           /\ rows' = Append(IF op[w].kind = "buy" THEN rows
                             ELSE [rows EXCEPT ![op[w].row].status = "DELETED"],
                             Row(op[w].remna, op[w].sub))
  <2>1. op[w] \in Locals /\ OpOK(op[w])
    BY OpFacts
  <2>2. op[w].remna # None /\ op[w].remna \in Nat /\ op[w].remna <= Len(panel)
    BY <1>1, <2>1 DEF OpOK, HasRead, Within, Locals
  <2>3. PICK z \in RowType : z = Row(op[w].remna, op[w].sub) /\ z.remna = op[w].remna
    <3>1. op[w].sub \in Subs
      BY <2>1 DEF Locals
    <3> QED BY <2>2, <3>1, DataType DEF Row
  <2>4. PICK s : s = IF op[w].kind = "buy" THEN rows
                     ELSE [rows EXCEPT ![op[w].row].status = "DELETED"]
    OBVIOUS
  <2>5. /\ s \in Seq(RowType) /\ Len(s) = Len(rows)
        /\ \A r \in 1 .. Len(rows) : s[r].remna = rows[r].remna
    <3>1. CASE op[w].kind = "buy"
      BY <2>4, <3>1, RowFacts
    <3>2. CASE op[w].kind = "change"
      <4>1. PICK r \in 1 .. Len(rows) : r = op[w].row
        BY <2>1, <3>2, RowFacts DEF OpOK, HasRead, Within, Locals, None
      <4>2. PICK y : y = [rows[r] EXCEPT !.status = "DELETED"]
        OBVIOUS
      <4>3. y \in RowType /\ y.remna = rows[r].remna
        BY <4>2, RowFacts DEF RowType, Statuses
      <4>4. s = [rows EXCEPT ![r] = y]
        BY <2>4, <3>2, <4>1, <4>2
      <4> QED BY <4>3, <4>4, RowFacts
    <3> QED BY <1>1, <3>1, <3>2
  <2>6. rows' = Append(s, z)
    BY <1>3, <2>3, <2>4
  <2>7. /\ rows' \in Seq(RowType) /\ Len(rows') = Len(rows) + 1 /\ rows'[current'] = z
        /\ \A r \in 1 .. Len(rows) : rows'[r].remna = rows[r].remna
    <3>1. /\ rows' \in Seq(RowType) /\ Len(rows') = Len(s) + 1 /\ rows'[Len(s) + 1] = z
          /\ \A r \in 1 .. Len(s) : rows'[r] = s[r]
      BY <2>5, <2>6
    <3> QED BY <1>3, <2>5, <3>1
  <2>8. account # None
    BY <1>1, <1>3, <2>1 DEF Kept, OpOK, HasRead
  <2>9. MaxRows \in Nat
    BY PanelSyncAssumption DEF PanelSyncAssumption
  <2>10. \A r \in 1 .. Len(rows') : rows'[r].remna <= Len(panel')
    BY <1>1, <1>3, <2>2, <2>3, <2>7, RowFacts
  <2>11. StoreInv'
    <3>1. /\ account' \in Nat /\ accounts' \in Nat /\ account' <= accounts'
      BY <1>1 DEF SyncTypeInv, StoreInv
    <3>2. /\ Len(rows') <= MaxRows /\ current' \in 0 .. Len(rows')
          /\ account' # None /\ rows'[current'].remna # None
      BY <1>1, <1>3, <2>2, <2>3, <2>7, <2>8, <2>9, RowFacts
    <3> QED BY <2>7, <2>10, <3>1, <3>2 DEF StoreInv
  <2>12. StoreGrows
    BY <1>1, <2>7, RowFacts DEF StoreGrows
  <2> QED BY <1>1, <1>3, <2>3, <2>7, <2>11, <2>12
<1> QED BY <1>2, <1>3, <1>1 DEF CommitInsert

LEMMA DeleteEffect ==
    ASSUME SyncTypeInv, NEW w \in Workers, CommitDelete(w)
    PROVE  /\ Commits(w) /\ StoreInv' /\ StoreGrows /\ UNCHANGED <<account, accounts, marks>>
           /\ \/ UNCHANGED store /\ ~Kept(w)
              \/ Kept(w) /\ current' = None /\ Len(rows') = Len(rows)
           /\ \A r \in 1 .. Len(rows) : rows'[r].remna = rows[r].remna
<1>1. /\ Commits(w) /\ UNCHANGED <<account, accounts, marks>>
      /\ During(w, "delete", "commit") \/ During(w, "pull", "gone")
      /\ panel' = panel
  BY DEF CommitDelete, Commits, Busy, During
<1>2. CASE ~Kept(w)
  <2>1. UNCHANGED store
    BY <1>1, <1>2 DEF store, CommitDelete
  <2>2. StoreInv' /\ StoreGrows
    BY <1>1, <2>1, StoreSame DEF store, SyncTypeInv, PanelInv
  <2> QED BY <1>1, <1>2, <2>1, <2>2 DEF store
<1>3. CASE Kept(w)
  <2>1. op[w] \in Locals /\ OpOK(op[w])
    BY OpFacts
  <2>2. PICK r \in 1 .. Len(rows) : r = op[w].row
    BY <1>1, <2>1, RowFacts DEF OpOK, HasRead, Within, Locals, None, During
  <2>3. PICK y : y = [rows[r] EXCEPT !.status = "DELETED"]
    OBVIOUS
  <2>4. y \in RowType /\ y.remna = rows[r].remna
    BY <2>3, RowFacts DEF RowType, Statuses
  <2>5. rows' = [rows EXCEPT ![r] = y] /\ current' = None
    BY <1>3, <2>2, <2>3 DEF CommitDelete
  <2>6. /\ StoreInv' /\ StoreGrows /\ Len(rows') = Len(rows)
        /\ \A q \in 1 .. Len(rows) : rows'[q].remna = rows[q].remna
    BY <1>1, <2>4, <2>5, OneRowTypes DEF OneRow
  <2> QED BY <1>1, <1>3, <2>5, <2>6
<1> QED BY <1>2, <1>3

LEMMA EraseEffect ==
    ASSUME SyncTypeInv, NEW w \in Workers, CommitErase(w)
    PROVE  /\ Commits(w) /\ StoreInv' /\ StoreGrows /\ UNCHANGED <<accounts, marks>>
           /\ During(w, "erase", "panel") /\ op[w].ids = {} /\ Len(rows') = Len(rows)
           /\ \/ UNCHANGED store /\ ~Kept(w)
              \/ /\ Kept(w) /\ account' = None /\ current' = None
                 /\ \A r \in 1 .. Len(rows) : rows'[r].remna = None
<1>1. /\ Commits(w) /\ UNCHANGED <<accounts, marks>> /\ panel' = panel
      /\ During(w, "erase", "panel") /\ op[w].ids = {}
  BY DEF CommitErase, Commits, Busy, During
<1>2. CASE ~Kept(w)
  <2>1. UNCHANGED store
    BY <1>1, <1>2 DEF store, CommitErase
  <2>2. StoreInv' /\ StoreGrows
    BY <1>1, <2>1, StoreSame DEF store, SyncTypeInv, PanelInv
  <2> QED BY <1>1, <1>2, <2>1, <2>2 DEF store
<1>3. CASE Kept(w)
  <2>1. /\ account' = None /\ current' = None
        /\ rows' = [r \in 1 .. Len(rows) |-> [rows[r] EXCEPT !.remna = None]]
    BY <1>3 DEF CommitErase
  <2>2. \A r \in 1 .. Len(rows) : /\ [rows[r] EXCEPT !.remna = None] \in RowType
                                  /\ [rows[r] EXCEPT !.remna = None].remna = None
    BY RowFacts DEF RowType, None
  <2>3. /\ rows' \in Seq(RowType) /\ Len(rows') = Len(rows)
        /\ \A r \in 1 .. Len(rows) : rows'[r].remna = None
    <3>1. \A r \in 1 .. Len(rows) : rows'[r] \in RowType /\ rows'[r].remna = None
      BY <2>1, <2>2
    <3>2. rows' \in [1 .. Len(rows) -> RowType]
      BY <2>1, <3>1
    <3>3. rows' \in Seq(RowType) /\ Len(rows') = Len(rows)
      BY <3>2, RowFacts
    <3> QED BY <3>1, <3>3
  <2>4. StoreInv' /\ StoreGrows
    BY <1>1, <2>1, <2>3, RowFacts DEF SyncTypeInv, StoreInv, StoreGrows, None
  <2> QED BY <1>1, <1>3, <2>1, <2>3, <2>4
<1> QED BY <1>2, <1>3

LEMMA UnlinkEffect ==
    ASSUME SyncTypeInv, Unlink
    PROVE  /\ StoreInv' /\ StoreGrows /\ ~Held /\ handler # None /\ handler' = None
           /\ UNCHANGED <<account, accounts, panel, hooks, op, started, hand, mishaps, marks>>
           /\ Len(rows') = Len(rows)
           /\ \A r \in 1 .. Len(rows) : rows'[r].remna = rows[r].remna
           /\ \/ /\ current' = current
                 /\ current # None => /\ rows[current].remna # handler
                                      /\ rows'[current] = rows[current]
              \/ current' = None /\ current # None /\ rows[current].remna = handler
<1>1. /\ ~Held /\ handler # None /\ handler' = None
      /\ UNCHANGED <<account, accounts, panel, hooks, op, started, hand, mishaps, marks>>
  BY DEF Unlink
<1>2. CASE /\ {r \in 1 .. Len(rows) : rows[r].remna = handler} = {}
           /\ UNCHANGED <<rows, current>>
  <2>1. StoreInv' /\ StoreGrows
    BY <1>1, <1>2, StoreSame DEF store, SyncTypeInv, PanelInv
  <2>2. current # None => rows[current].remna # handler
    BY <1>2, RowFacts
  <2> QED BY <1>1, <1>2, <2>1, <2>2
<1>3. ASSUME NEW r \in 1 .. Len(rows), rows[r].remna = handler,
             rows' = [rows EXCEPT ![r].status = "DELETED"],
             current' = IF StillOf(handler) THEN None ELSE current
      PROVE  /\ StoreInv' /\ StoreGrows /\ Len(rows') = Len(rows)
             /\ \A q \in 1 .. Len(rows) : rows'[q].remna = rows[q].remna
             /\ \/ /\ current' = current
                   /\ current # None => /\ rows[current].remna # handler
                                        /\ rows'[current] = rows[current]
                \/ current' = None /\ current # None /\ rows[current].remna = handler
  <2>1. PICK y : y = [rows[r] EXCEPT !.status = "DELETED"]
    OBVIOUS
  <2>2. y \in RowType /\ y.remna = rows[r].remna
    BY <2>1, RowFacts DEF RowType, Statuses
  <2>3. rows' = [rows EXCEPT ![r] = y]
    BY <1>3, <2>1
  <2>4. current' \in {current, None}
    BY <1>3
  <2>5. /\ StoreInv' /\ StoreGrows /\ Len(rows') = Len(rows)
        /\ \A q \in 1 .. Len(rows) : /\ q # r => rows'[q] = rows[q]
                                     /\ rows'[q].remna = rows[q].remna
    BY <1>1, <2>2, <2>3, <2>4, OneRowTypes DEF OneRow
  <2> QED BY <1>3, <2>5, RowFacts DEF StillOf
<1> QED BY <1>1, <1>2, <1>3 DEF Unlink

LEMMA SyncOneEffect ==
    ASSUME SyncTypeInv, NEW w \in Workers, SyncOne(w)
    PROVE  /\ Commits(w) /\ StoreInv' /\ StoreGrows
           /\ During(w, "pull", "sync") \/ During(w, "push", "commit")
           /\ op[w].kind = "push" => marks' = marks
           /\ op[w].kind = "pull" => Noted(FALSE)
           /\ \/ UNCHANGED store /\ ((op[w].kind = "push" /\ ~Kept(w)) \/ account = None)
              \/ /\ SyncedTo(op[w].remna, op[w].sub)
                 /\ op[w].kind = "push" => Kept(w)
<1>1. /\ Commits(w) /\ panel' = panel
      /\ During(w, "pull", "sync") \/ During(w, "push", "commit")
      /\ op[w].kind = "push" => marks' = marks
      /\ op[w].kind = "pull" => Noted(FALSE)
      /\ Sync(op[w].remna, op[w].sub, FALSE, Named(w))
  BY DEF SyncOne, Commits, Busy, During
<1>2. op[w] \in Locals /\ OpOK(op[w])
  BY OpFacts
<1>3. PICK p \in 1 .. Len(panel), x \in Subs : p = op[w].remna /\ x = op[w].sub
  <2>1. op[w].remna # None /\ op[w].remna \in Nat /\ op[w].remna <= Len(panel)
    BY <1>1, <1>2 DEF OpOK, HasRead, Within, Locals, During
  <2>2. op[w].sub \in Subs /\ op[w].remna \in 1 .. Len(panel)
    BY <1>2, <2>1, RowFacts DEF Locals, None
  <2> QED BY <2>2
<1>4. PICK of \in Nat : of = Named(w)
  BY <1>2 DEF Named, Locals, None
<1>5. Sync(p, x, FALSE, of) /\ p \in Nat
  BY <1>1, <1>3, <1>4 DEF Sync, Imported, Synced
<1>6. \/ UNCHANGED store /\ ((of # None /\ of # account) \/ account = None)
      \/ SyncedTo(p, x) /\ of \in {None, account}
  BY <1>5, SyncEffect
<1>7. op[w].kind = "push" => of = op[w].of /\ of # None
  BY <1>2, <1>4 DEF Named, OpOK, HasRead
<1>8. of # None => op[w].kind = "push"
  BY <1>4 DEF Named
<1>9. CASE UNCHANGED store /\ ((of # None /\ of # account) \/ account = None)
  <2>1. StoreInv' /\ StoreGrows
    BY <1>1, <1>9, StoreSame DEF SyncTypeInv, PanelInv
  <2> QED BY <1>1, <1>7, <1>8, <1>9, <2>1 DEF Kept
<1>10. CASE SyncedTo(p, x) /\ of \in {None, account}
  <2>1. StoreInv' /\ StoreGrows
    BY <1>1, <1>10, SyncedTypes
  <2> QED BY <1>1, <1>3, <1>7, <1>10, <2>1 DEF Kept
<1> QED BY <1>6, <1>9, <1>10

LEMMA SyncEachEffect ==
    ASSUME SyncTypeInv, NEW w \in Workers, SyncEach(w)
    PROVE  /\ Busy(w) /\ During(w, "pullall", "sync") /\ Noted(FALSE)
           /\ UNCHANGED <<panel, hooks, handler, started, hand, mishaps>>
           /\ StoreInv' /\ StoreGrows /\ Moves(w) /\ OpOK(op[w])'
           /\ \/ op'[w] = Free /\ UNCHANGED store
              \/ \E h \in op[w].seen : /\ SyncedTo(h.id, h.sub)
                                       /\ op'[w] = [op[w] EXCEPT !.seen = @ \ {h}]
<1>1. /\ Busy(w) /\ During(w, "pullall", "sync") /\ Noted(FALSE) /\ panel' = panel
      /\ UNCHANGED <<panel, hooks, handler, started, hand, mishaps>>
  BY DEF SyncEach, Busy, During
<1>2. op[w] \in Locals /\ OpOK(op[w]) /\ op \in [Workers -> Locals]
  BY OpFacts
<1>3. CASE op[w].seen = {} /\ Finish(w) /\ UNCHANGED store
  <2>1. StoreInv' /\ StoreGrows /\ Len(panel') \in Nat
    BY <1>1, <1>3, StoreSame DEF SyncTypeInv, PanelInv
  <2> QED BY <1>1, <1>3, <2>1, Ends
<1>4. ASSUME NEW h \in op[w].seen, Sync(h.id, h.sub, TRUE, None),
             op' = [op EXCEPT ![w].seen = @ \ {h}]
      PROVE  /\ StoreInv' /\ StoreGrows /\ Moves(w) /\ OpOK(op[w])'
             /\ SyncedTo(h.id, h.sub) /\ op'[w] = [op[w] EXCEPT !.seen = @ \ {h}]
  <2>1. PICK p \in 1 .. Len(panel), x \in Subs : p = h.id /\ x = h.sub
    BY <1>2, RowFacts DEF OpOK, Within, Locals
  <2>2. Sync(p, x, TRUE, None) /\ p \in Nat /\ None \in Nat
    BY <1>4, <2>1 DEF None, Sync, Imported, Synced
  <2>3. SyncedTo(p, x)
    BY <2>2, SyncEffect
  <2>4. StoreInv' /\ StoreGrows
    BY <1>1, <2>3, SyncedTypes
  <2>5. PICK s \in SUBSET [kind : {"seen"}, id : Nat, sub : Subs] : s = op[w].seen \ {h}
    BY <1>2 DEF Locals
  <2>6. PICK q \in Locals : q = op[w]
    BY <1>2
  <2>7. PICK r : r = [q EXCEPT !.seen = s]
    OBVIOUS
  <2>8. /\ r \in Locals /\ r.pc = q.pc /\ r.kind = q.kind /\ r.of = q.of /\ r.row = q.row
        /\ r.remna = q.remna /\ r.sub = q.sub /\ r.ids = q.ids /\ r.seen = s
        /\ r.whole = q.whole
    BY <2>7 DEF Locals
  <2>9. op' = [op EXCEPT ![w] = r]
    BY <1>2, <1>4, <2>5, <2>6, <2>7
  <2>10. WorkStep(w) /\ op'[w] = r
    BY <1>1, <2>6, <2>8, <2>9, OpGoes DEF Busy
  <2>11. OpOK(op[w])'
    BY <1>1, <1>2, <2>4, <2>5, <2>6, <2>8, <2>10, RowFacts
       DEF OpOK, StepsOf, HasRead, Within, StoreGrows, StoreInv, Locals, During
  <2> QED BY <2>1, <2>3, <2>4, <2>5, <2>6, <2>7, <2>10, <2>11 DEF WorkStep
<1> QED BY <1>1, <1>3, <1>4 DEF SyncEach

\* What the handling of a webhook does.
HandledAs(h) ==
    \/ /\ h.kind # "deleted" /\ handler' = handler
       /\ (UNCHANGED store /\ account = None /\ h.kind # "created") \/ SyncedTo(h.id, h.sub)
    \/ /\ UNCHANGED <<store, handler>>
       /\ (h.kind = "created" /\ ~h.sub.tag) \/ (h.kind \in {"status", "deleted"} /\ ~Owned(h.id))
    \/ /\ h.kind = "deleted" /\ Owned(h.id) /\ handler = None /\ handler' = h.id
       /\ UNCHANGED store

LEMMA HandleEffect ==
    ASSUME SyncTypeInv, NEW h \in HookType, h.id \in 1 .. Len(panel), Handle(h), panel' = panel
    PROVE  /\ StoreInv' /\ StoreGrows /\ handler' \in 0 .. Len(panel) /\ HandledAs(h)
           /\ handler' # handler => handler' = h.id
<1>1. UNCHANGED store => StoreInv' /\ StoreGrows
  BY StoreSame DEF SyncTypeInv, PanelInv
<1>2. handler \in 0 .. Len(panel)
  BY DEF SyncTypeInv, PanelInv
<1>3. CASE Changed(h)
  <2>1. PICK p \in 1 .. Len(panel), x \in Subs : p = h.id /\ x = h.sub
    BY DEF HookType
  <2>2. PICK creating \in BOOLEAN : creating = (h.kind = "created")
    OBVIOUS
  <2>3. Sync(p, x, creating, None) /\ p \in Nat /\ None \in Nat
    BY <1>3, <2>1, <2>2 DEF Changed, None
  <2>4. (UNCHANGED store /\ account = None /\ ~creating) \/ SyncedTo(p, x)
    BY <2>3, SyncEffect
  <2>5. SyncedTo(p, x) => StoreInv' /\ StoreGrows
    BY SyncedTypes
  <2> QED BY <1>1, <1>2, <1>3, <2>1, <2>2, <2>4, <2>5 DEF Changed, HandledAs
<1>4. CASE Ignored(h)
  BY <1>1, <1>2, <1>4 DEF Ignored, HandledAs
<1>5. CASE Deleted(h)
  BY <1>1, <1>2, <1>5 DEF Deleted, HandledAs, HookType
<1> QED BY <1>3, <1>4, <1>5 DEF Handle

LEMMA HookFacts ==
    ASSUME SyncTypeInv
    PROVE  /\ hooks \in Seq(HookType) /\ Len(hooks) \in Nat
           /\ \A k \in 1 .. Len(hooks) : /\ hooks[k] \in HookType
                                         /\ hooks[k].id \in 1 .. Len(panel)
<1>1. hooks \in Seq(HookType)
  BY DEF SyncTypeInv, PanelInv
<1>2. \A k \in 1 .. Len(hooks) : hooks[k].id \in 1 .. Len(panel)
  BY DEF SyncTypeInv, PanelInv
<1> QED BY <1>1, <1>2

\* Webhooks are only taken away.
Fewer ==
    /\ hooks' \in Seq(HookType)
    /\ \A j \in 1 .. Len(hooks') : \E i \in 1 .. Len(hooks) : hooks'[j] = hooks[i]

LEMMA TailFewer ==
    ASSUME SyncTypeInv, hooks # <<>>, hooks' = Tail(hooks)
    PROVE  /\ Fewer /\ Len(hooks') = Len(hooks) - 1 /\ 1 \in 1 .. Len(hooks)
           /\ \A j \in 1 .. Len(hooks') : j + 1 \in 1 .. Len(hooks) /\ hooks'[j] = hooks[j + 1]
<1>1. /\ hooks' \in Seq(HookType) /\ Len(hooks') = Len(hooks) - 1 /\ 1 \in 1 .. Len(hooks)
      /\ \A j \in 1 .. Len(hooks') : j + 1 \in 1 .. Len(hooks) /\ hooks'[j] = hooks[j + 1]
  BY HookFacts
<1> QED BY <1>1 DEF Fewer

LEMMA RemoveFewer ==
    ASSUME SyncTypeInv, NEW k \in 1 .. Len(hooks), hooks' = RemoveAt(hooks, k)
    PROVE  Fewer
<1> DEFINE a == SubSeq(hooks, 1, k - 1)
           b == SubSeq(hooks, k + 1, Len(hooks))
<1>1. hooks \in Seq(HookType) /\ Len(hooks) \in Nat /\ k \in Nat
  BY HookFacts
<1>2. /\ a \in Seq(HookType) /\ Len(a) = k - 1
      /\ \A j \in 1 .. k - 1 : a[j] = hooks[j]
  BY <1>1
<1>3. /\ b \in Seq(HookType) /\ Len(b) = Len(hooks) - k
      /\ \A j \in 1 .. Len(hooks) - k : b[j] = hooks[k + j]
  BY <1>1
<1>4. hooks' = a \o b
  BY DEF RemoveAt
<1> HIDE DEF a, b
<1>5. /\ hooks' \in Seq(HookType) /\ Len(hooks') = Len(hooks) - 1
      /\ \A j \in 1 .. Len(hooks') : hooks'[j] = IF j <= k - 1 THEN a[j] ELSE b[j - (k - 1)]
  <2>1. a \in Seq(HookType) /\ b \in Seq(HookType)
    BY <1>2, <1>3
  <2>2. /\ a \o b \in Seq(HookType) /\ Len(a \o b) = Len(a) + Len(b)
        /\ \A j \in 1 .. Len(a) + Len(b) :
              (a \o b)[j] = IF j <= Len(a) THEN a[j] ELSE b[j - Len(a)]
    BY <2>1, ConcatProperties, Zenon
  <2>3. Len(a) = k - 1 /\ Len(a) + Len(b) = Len(hooks) - 1
    BY <1>1, <1>2, <1>3
  <2> QED BY <1>4, <2>2, <2>3
<1>6. ASSUME NEW j \in 1 .. Len(hooks') PROVE \E i \in 1 .. Len(hooks) : hooks'[j] = hooks[i]
  <2>1. CASE j <= k - 1
    <3>1. j \in 1 .. k - 1 /\ j \in 1 .. Len(hooks)
      BY <1>1, <1>5, <2>1
    <3>2. hooks'[j] = hooks[j]
      BY <1>2, <1>5, <2>1, <3>1
    <3> QED BY <3>1, <3>2
  <2>2. CASE j > k - 1
    <3>1. j - (k - 1) \in 1 .. Len(hooks) - k
      BY <1>1, <1>5, <2>2
    <3>2. hooks'[j] = hooks[k + (j - (k - 1))]
      BY <1>1, <1>3, <1>5, <2>2, <3>1
    <3>3. k + (j - (k - 1)) \in 1 .. Len(hooks)
      BY <1>1, <3>1
    <3> QED BY <3>2, <3>3
  <2> QED BY <1>1, <1>5, <2>1, <2>2
<1> QED BY <1>5, <1>6 DEF Fewer

LEMMA DeliverEffect ==
    ASSUME SyncTypeInv, Deliver
    PROVE  /\ UNCHANGED <<panel, op, started, hand>> /\ Noted(\E w \in Workers : Busy(w))
           /\ StoreInv' /\ PanelInv' /\ StoreGrows /\ BegunInv' /\ mishaps \subseteq mishaps'
           /\ Fewer
           /\ \E k \in 1 .. Len(hooks) :
                /\ Handle(hooks[k]) /\ HandledAs(hooks[k])
                /\ handler' # handler => handler' = hooks[k].id
                /\ (k = 1 /\ hooks' = Tail(hooks)) \/ mishaps' \cap {"late", "again"} # {}
<1>1. /\ UNCHANGED <<panel, op, started, hand>> /\ Noted(\E w \in Workers : Busy(w))
      /\ panel' = panel /\ hooks # <<>>
  BY DEF Deliver
<1>2. mishaps \subseteq mishaps' /\ mishaps' \subseteq Mishaps
  BY MishapGrows DEF Deliver, SyncTypeInv, BegunInv
<1>3. PICK k \in 1 .. Len(hooks) :
        /\ Handle(hooks[k]) /\ Fewer
        /\ (k = 1 /\ hooks' = Tail(hooks)) \/ mishaps' \cap {"late", "again"} # {}
  <2>1. 1 \in 1 .. Len(hooks)
    BY <1>1, HookFacts
  <2>2. CASE Handle(hooks[1]) /\ hooks' = Tail(hooks)
    BY <1>1, <2>1, <2>2, TailFewer
  <2>3. CASE Handle(hooks[1]) /\ Mishap("again") /\ UNCHANGED hooks
    BY <2>1, <2>3, HookFacts, MishapGrows DEF Fewer
  <2>4. ASSUME NEW k \in 2 .. Len(hooks), Handle(hooks[k]), Mishap("late"),
               hooks' = RemoveAt(hooks, k)
        PROVE  \E i \in 1 .. Len(hooks) :
                 Handle(hooks[i]) /\ Fewer /\ mishaps' \cap {"late", "again"} # {}
    BY <2>4, RemoveFewer, HookFacts, MishapGrows
  <2> QED BY <2>2, <2>3, <2>4 DEF Deliver
<1>4. /\ StoreInv' /\ StoreGrows /\ handler' \in 0 .. Len(panel) /\ HandledAs(hooks[k])
      /\ handler' # handler => handler' = hooks[k].id
  <2>1. PICK h \in HookType : h = hooks[k] /\ h.id \in 1 .. Len(panel)
    BY HookFacts
  <2>2. Handle(h)
    BY <1>3, <2>1
  <2>3. /\ StoreInv' /\ StoreGrows /\ handler' \in 0 .. Len(panel) /\ HandledAs(h)
        /\ handler' # handler => handler' = h.id
    BY <1>1, <2>1, <2>2, HandleEffect
  <2> QED BY <2>1, <2>3
<1>5. PanelInv'
  <2>1. \A j \in 1 .. Len(hooks') : hooks'[j].id \in 1 .. Len(panel)
    BY <1>3, HookFacts DEF Fewer
  <2> QED BY <1>1, <1>3, <1>4, <2>1 DEF SyncTypeInv, PanelInv, Fewer
<1>6. BegunInv'
  BY <1>1, <1>2 DEF SyncTypeInv, BegunInv
<1> QED BY <1>1, <1>2, <1>3, <1>4, <1>5, <1>6

LEMMA HandEffect ==
    ASSUME SyncTypeInv, ByHand
    PROVE  /\ \/ \E p \in Alive, x \in Subs : Tells(p, x)
              \/ \E x \in Subs : Create(FALSE, x)
              \/ \E p \in Alive : RemovePanelUser(p)
           /\ UNCHANGED <<store, handler, started, mishaps>>
           /\ marks \subseteq marks' /\ ("edited" \notin marks' => \A w \in Workers : ~Busy(w))
           /\ op' \in [Workers -> Locals]
           /\ \A v \in Workers : op'[v] = [op[v] EXCEPT !.whole = ~Busy(v)]
<1>1. /\ UNCHANGED <<store, handler, started, mishaps>>
      /\ marks \subseteq marks' /\ ("edited" \notin marks' => \A w \in Workers : ~Busy(w))
      /\ \A v \in Workers : op'[v] = [op[v] EXCEPT !.whole = ~Busy(v)]
  BY DEF ByHand
<1>2. op' \in [Workers -> Locals]
  <2>1. \A v \in Workers : [op[v] EXCEPT !.whole = ~Busy(v)] \in Locals
    <3> SUFFICES ASSUME NEW v \in Workers PROVE [op[v] EXCEPT !.whole = ~Busy(v)] \in Locals
      OBVIOUS
    <3>1. PICK b \in BOOLEAN : b = ~Busy(v)
      OBVIOUS
    <3>2. [op[v] EXCEPT !.whole = b] \in Locals
      BY OpFacts DEF Locals
    <3> QED BY <3>1, <3>2
  <2>2. op' = [w \in Workers |-> [op[w] EXCEPT !.whole = ~Busy(w)]]
    BY DEF ByHand
  <2> QED BY <2>1, <2>2
<1>3. ASSUME NEW p \in Alive, NEW x \in PanelUserType, NEW kind \in {"modified", "status"},
             Update(p, x), hooks' = Append(hooks, Hook(kind, p, panel'[p]))
      PROVE  \E y \in Subs : Tells(p, y)
  <2> DEFINE u == [alive |-> TRUE, own |-> panel[p].own, term |-> x.term,
                   status |-> x.status, tag |-> x.tag]
  <2>1. panel'[p] = u
    <3>1. panel' = [panel EXCEPT ![p] = u]
      BY <1>3 DEF Update
    <3> HIDE DEF u
    <3> QED BY <3>1, AliveFacts DEF SyncTypeInv, PanelInv
  <2>2. Hook(kind, p, panel'[p]) = Hook(kind, p, x)
    BY <2>1 DEF Hook, Data
  <2>3. hooks' = Append(hooks, Hook(kind, p, x))
    BY <1>3, <2>2
  <2>4. Data(x) \in Subs /\ Tells(p, Data(x))
    BY <1>3, <2>3, TellsData DEF SyncTypeInv
  <2> QED BY <2>4
<1>4. ASSUME NEW tag \in BOOLEAN
      PROVE  [term |-> 1, status |-> "ACTIVE", tag |-> tag] \in Subs
  BY PanelSyncAssumption DEF PanelSyncAssumption, Subs
<1>5. ASSUME NEW p \in Alive, NEW t \in 1 .. MaxTerm,
             Update(p, [panel[p] EXCEPT !.term = t]),
             hooks' = Append(hooks, Hook("modified", p, panel'[p]))
      PROVE  \E q \in Alive, z \in Subs : Tells(q, z)
  <2>1. PICK x : x = [panel[p] EXCEPT !.term = t]
    OBVIOUS
  <2>2. Update(p, x)
    BY <1>5, <2>1 DEF Update
  <2>3. x \in PanelUserType
    BY <2>1, AliveFacts DEF PanelUserType
  <2> QED BY <1>3, <1>5, <2>2, <2>3
<1>6. ASSUME NEW p \in Alive, NEW s \in {"ACTIVE", "DISABLED"},
             Update(p, [panel[p] EXCEPT !.status = s]),
             hooks' = Append(hooks, Hook("status", p, panel'[p]))
      PROVE  \E q \in Alive, z \in Subs : Tells(q, z)
  <2>1. PICK x : x = [panel[p] EXCEPT !.status = s]
    OBVIOUS
  <2>2. Update(p, x)
    BY <1>6, <2>1 DEF Update
  <2>3. x \in PanelUserType
    BY <2>1, AliveFacts DEF PanelUserType, Statuses
  <2> QED BY <1>3, <1>6, <2>2, <2>3
<1>7. ASSUME NEW tag \in BOOLEAN,
             Create(FALSE, [term |-> 1, status |-> "ACTIVE", tag |-> tag])
      PROVE  \E x \in Subs : Create(FALSE, x)
  BY <1>4, <1>7
<1>8. \/ \E p \in Alive, x \in Subs : Tells(p, x)
      \/ \E x \in Subs : Create(FALSE, x)
      \/ \E p \in Alive : RemovePanelUser(p)
  BY <1>5, <1>6, <1>7 DEF ByHand
<1> QED BY <1>1, <1>2, <1>8

LEMMA LoseEffect ==
    ASSUME SyncTypeInv, Lose
    PROVE  /\ UNCHANGED <<store, panel, handler, op, started, hand, marks>>
           /\ Fewer /\ "lost" \in mishaps'
           /\ mishaps \subseteq mishaps' /\ mishaps' \subseteq Mishaps
BY TailFewer, MishapGrows DEF Lose

LEMMA RegisterEffect ==
    ASSUME SyncTypeInv, Register
    PROVE  /\ UNCHANGED <<rows, current, panel, hooks, handler, op, hand, mishaps, marks>>
           /\ account = None /\ current = None /\ StoreInv' /\ StoreGrows /\ BegunInv'
<1>1. /\ UNCHANGED <<rows, current, panel, hooks, handler, op, hand, mishaps, marks>>
      /\ account = None /\ current = None
  BY DEF Register, SyncTypeInv, StoreInv
<1>2. /\ account' \in Nat /\ accounts' \in Nat /\ account' <= accounts' /\ account' # None
      /\ accounts <= accounts'
  BY RowFacts DEF Register, None
<1>3. StoreInv' /\ StoreGrows
  BY <1>1, <1>2, RowFacts DEF SyncTypeInv, StoreInv, StoreGrows
<1>4. MaxBegun \in Nat /\ started \in 0 .. MaxBegun /\ started < MaxBegun /\ started' = started + 1
  BY PanelSyncAssumption DEF PanelSyncAssumption, Register, SyncTypeInv, BegunInv
<1>5. started' \in 0 .. MaxBegun
  BY <1>4
<1> QED BY <1>1, <1>3, <1>5 DEF SyncTypeInv, BegunInv

-----------------------------------------------------------------------------
(* The types are kept.                                                      *)

Commit(w) ==
    \/ CommitUpdate(w) \/ CommitInsert(w) \/ CommitDelete(w) \/ SyncOne(w) \/ CommitErase(w)

LEMMA StepCases ==
    ASSUME SyncTypeInv, [SyncNext]_syncVars
    PROVE  \/ \E w \in Workers : Begins(w) \/ Inner(w) \/ Commit(w) \/ SyncEach(w)
           \/ Register \/ ByHand \/ Deliver \/ Unlink \/ Lose \/ UNCHANGED syncVars
BY BeginKinds DEF SyncNext, Inner, Commit

LEMMA CommitEffect ==
    ASSUME SyncTypeInv, NEW w \in Workers, Commit(w)
    PROVE  Commits(w) /\ StoreInv' /\ StoreGrows /\ marks \subseteq marks' /\ op'[w] = Free
           /\ Moves(w)
<1>1. Commits(w) /\ StoreInv' /\ StoreGrows
  BY UpdateEffect, InsertEffect, DeleteEffect, SyncOneEffect, EraseEffect DEF Commit
<1>2. marks \subseteq marks'
  <2>1. SyncOne(w) => marks \subseteq marks'
    BY SyncOneEffect DEF Noted, During
  <2> QED BY <2>1, UpdateEffect, InsertEffect, DeleteEffect, EraseEffect DEF Commit
<1>3. Len(panel') \in Nat
  BY <1>1, RowFacts DEF Commits
<1> QED BY <1>1, <1>2, <1>3, Ends DEF Commits

LEMMA HandTypes ==
    ASSUME SyncTypeInv, ByHand
    PROVE  SyncTypeInv' /\ Grows /\ PanelStep
<1>1. /\ UNCHANGED <<store, handler, started, mishaps>> /\ op' \in [Workers -> Locals]
      /\ \A v \in Workers : op'[v] = [op[v] EXCEPT !.whole = ~Busy(v)]
  BY HandEffect
<1>2. PanelStep
  BY HandEffect DEF PanelStep
<1>3. PanelInv' /\ Grows /\ Len(panel) <= Len(panel') /\ Len(panel') \in Nat
  BY <1>1, <1>2, PanelTypes DEF SyncTypeInv, PanelInv, Grows
<1>4. StoreInv' /\ StoreGrows
  BY <1>1, <1>3, StoreSame
<1>5. ASSUME NEW v \in Workers PROVE OpOK(op[v])'
  <2>1. OpOK(op[v]) /\ op'[v] = [op[v] EXCEPT !.whole = ~Busy(v)] /\ op[v] \in Locals
    BY <1>1, OpFacts
  <2>2. /\ op'[v].pc = op[v].pc /\ op'[v].kind = op[v].kind /\ op'[v].of = op[v].of
        /\ op'[v].row = op[v].row /\ op'[v].remna = op[v].remna /\ op'[v].sub = op[v].sub
        /\ op'[v].ids = op[v].ids /\ op'[v].seen = op[v].seen
    BY <2>1 DEF Locals
  <2>3. Within(op[v])'
    BY <1>1, <1>3, <2>1, <2>2, RowFacts DEF OpOK, Within, store, Locals
  <2> QED BY <2>1, <2>2, <2>3 DEF OpOK, StepsOf, HasRead
<1>6. BegunInv'
  BY <1>1 DEF SyncTypeInv, BegunInv
<1> QED BY <1>1, <1>2, <1>3, <1>4, <1>5, <1>6 DEF SyncTypeInv, OpsInv

LEMMA SameOps ==
    ASSUME SyncTypeInv, op' = op, StoreInv', StoreGrows, panel' = panel
    PROVE  OpsInv'
<1> SUFFICES ASSUME NEW v \in Workers PROVE OpOK(op[v])'
  BY DEF SyncTypeInv, OpsInv
<1>1. OpOK(op[v]) /\ op[v] \in Locals
  BY OpFacts
<1>2. Within(op[v])'
  BY <1>1, RowFacts DEF OpOK, Within, StoreGrows, StoreInv, Locals
<1> QED BY <1>1, <1>2 DEF OpOK, StepsOf, HasRead

LEMMA NextTypes ==
    ASSUME SyncTypeInv, [SyncNext]_syncVars
    PROVE  SyncTypeInv'
<1>1. ASSUME NEW w \in Workers, Begins(w) PROVE SyncTypeInv'
  BY <1>1, BeginTypes
<1>2. ASSUME NEW w \in Workers, Inner(w) PROVE SyncTypeInv'
  BY <1>2, InnerTypes
<1>3. ASSUME NEW w \in Workers, Commit(w) PROVE SyncTypeInv'
  BY <1>3, CommitEffect, CommitTypes
<1>4. ASSUME NEW w \in Workers, SyncEach(w) PROVE SyncTypeInv'
  <2>1. /\ UNCHANGED <<panel, hooks, handler, started, hand, mishaps>>
        /\ StoreInv' /\ StoreGrows /\ Moves(w) /\ OpOK(op[w])'
    BY <1>4, SyncEachEffect
  <2>2. PanelInv' /\ BegunInv' /\ Len(panel') \in Nat /\ Len(panel) <= Len(panel')
    BY <2>1, RowFacts DEF SyncTypeInv, PanelInv, BegunInv
  <2>3. OpsInv'
    BY <2>1, <2>2, OpsMove
  <2> QED BY <2>1, <2>2, <2>3 DEF SyncTypeInv
<1>5. CASE Register
  BY <1>5, RegisterEffect, SameOps DEF SyncTypeInv, PanelInv
<1>6. CASE ByHand
  BY <1>6, HandTypes
<1>7. CASE Deliver
  BY <1>7, DeliverEffect, SameOps DEF SyncTypeInv
<1>8. CASE Unlink
  <2>1. PanelInv' /\ BegunInv'
    BY <1>8, UnlinkEffect DEF SyncTypeInv, PanelInv, BegunInv, None
  <2> QED BY <1>8, <2>1, UnlinkEffect, SameOps DEF SyncTypeInv
<1>9. CASE Lose
  <2>1. StoreInv' /\ StoreGrows
    BY <1>9, LoseEffect, StoreSame, RowFacts
  <2>2. PanelInv'
    BY <1>9, LoseEffect, HookFacts DEF Fewer, SyncTypeInv, PanelInv
  <2>3. BegunInv'
    BY <1>9, LoseEffect DEF SyncTypeInv, BegunInv
  <2> QED BY <1>9, <2>1, <2>2, <2>3, LoseEffect, SameOps DEF SyncTypeInv
<1>10. CASE UNCHANGED syncVars
  BY <1>10 DEF syncVars, SyncTypeInv, StoreInv, PanelInv, OpsInv, BegunInv, OpOK, StepsOf, HasRead,
     Within
<1> QED BY <1>1, <1>2, <1>3, <1>4, <1>5, <1>6, <1>7, <1>8, <1>9, <1>10, StepCases

LEMMA InitTypes == SyncInit => SyncTypeInv
<1> SUFFICES ASSUME SyncInit PROVE SyncTypeInv
  OBVIOUS
<1>0. /\ 1 \in 1 .. MaxTerm /\ 1 <= MaxRows /\ 1 <= MaxPanel /\ 0 \in 0 .. MaxBegun
  <2>1. {MaxPanel, MaxRows, MaxTerm} \subseteq Nat \ {0} /\ MaxBegun \in Nat
    BY PanelSyncAssumption DEF PanelSyncAssumption
  <2> QED BY <2>1
<1>1. PICK x \in RowType :
        /\ x = [remna |-> 1, term |-> 1, status |-> "ACTIVE", tag |-> FALSE]
        /\ x.remna = 1
  <2>1. [remna |-> 1, term |-> 1, status |-> "ACTIVE", tag |-> FALSE] \in RowType
    BY <1>0 DEF RowType, Statuses
  <2> QED BY <2>1
<1>2. PICK u \in PanelUserType : u = [alive |-> TRUE, own |-> TRUE, term |-> 1,
                                 status |-> "ACTIVE", tag |-> FALSE]
  BY <1>0 DEF PanelUserType, Statuses
<1>3. /\ rows = <<x>> /\ rows \in Seq(RowType) /\ Len(rows) = 1 /\ rows[1] = x
  BY <1>1 DEF SyncInit
<1>4. panel = <<u>> /\ panel \in Seq(PanelUserType) /\ Len(panel) = 1
  BY <1>2 DEF SyncInit
<1>5. hooks \in Seq(HookType) /\ Len(hooks) = 0
  BY DEF SyncInit
<1>6. account = 1 /\ accounts = 1 /\ current = 1 /\ handler = 0
  BY DEF SyncInit, None
<1>7. StoreInv
  BY <1>0, <1>1, <1>3, <1>4, <1>6 DEF StoreInv, None
<1>8. PanelInv
  BY <1>0, <1>4, <1>5, <1>6 DEF PanelInv
<1>9. Free \in Locals /\ OpOK(Free)
  BY FreeType, <1>3, <1>4, <1>6 DEF Free, OpOK, StepsOf, HasRead, Within, None
<1>10. OpsInv
  BY <1>9 DEF SyncInit, OpsInv
<1>11. BegunInv
  BY <1>0 DEF SyncInit, BegunInv
<1> QED BY <1>7, <1>8, <1>10, <1>11 DEF SyncTypeInv

LEMMA TypesMeanOK == SyncTypeInv => SyncTypeOK
<1> SUFFICES ASSUME SyncTypeInv PROVE SyncTypeOK
  OBVIOUS
<1>1. /\ account \in 0 .. accounts /\ Len(rows) <= MaxRows /\ Len(panel) <= MaxPanel
      /\ current \in 0 .. Len(rows) /\ handler \in 0 .. Len(panel)
      /\ current # None => account # None /\ rows[current].remna # None
      /\ started \in 0 .. MaxBegun /\ mishaps \subseteq Mishaps
  BY DEF SyncTypeInv, StoreInv, PanelInv, BegunInv
<1>2. \A r \in 1 .. Len(rows) : Data(rows[r]) \in Subs /\ rows[r].remna \in 0 .. Len(panel)
  BY RowFacts, DataType
<1>3. \A p \in 1 .. Len(panel) : Data(panel[p]) \in Subs
  <2>1. panel \in Seq(PanelUserType)
    BY DEF SyncTypeInv, PanelInv
  <2> QED BY <2>1, DataType
<1>4. \A w \in Workers : op[w].kind \in Kinds \cup {"none"} /\ op[w].sub \in Subs
  BY DEF SyncTypeInv, OpsInv, Locals
<1> QED BY <1>1, <1>2, <1>3, <1>4 DEF SyncTypeOK

\* Every variable has its type, and the current subscription is a row of the account
\* (user.current_subscription_id).
THEOREM SyncTypes == SyncSpec => []SyncTypeOK
<1>1. SyncTypeInv /\ [SyncNext]_syncVars => SyncTypeInv'
  BY NextTypes
<1> QED BY <1>1, InitTypes, TypesMeanOK, PTL DEF SyncSpec

-----------------------------------------------------------------------------
(* The rest of the inductive invariant.                                     *)

\* The panel tells of a deletion after it, and has one user with the name.
GoneInv ==
    /\ \A k \in 1 .. Len(hooks) : hooks[k].kind = "deleted" => hooks[k].id \notin Alive
    /\ handler \notin Alive
    /\ \A p, q \in Alive : panel[p].own /\ panel[q].own => p = q

\* An operation that none overlaps and nobody disturbs by hand is alone.
WholeInv ==
    /\ marks \subseteq {"adopted"} => \A w \in Workers : Busy(w) => op[w].whole
    /\ \A v, w \in Workers : op[w].whole /\ Busy(w) /\ Busy(v) => v = w

\* The last webhook about a user says how the user is.
LastOf(k) == \A j \in 1 .. Len(hooks) : j > k => hooks[j].id # hooks[k].id

HookInv ==
    ~Astray =>
      /\ \A k \in 1 .. Len(hooks) : LastOf(k) /\ hooks[k].kind # "deleted" =>
           hooks[k].id \in Alive /\ hooks[k].sub = Data(panel[hooks[k].id])
      /\ \A j, k \in 1 .. Len(hooks) : j < k /\ hooks[j].id = hooks[k].id =>
           hooks[k].kind # "created" /\ hooks[j].kind # "deleted"

KnowsInv ==
    \A w \in Workers : Busy(w) /\ op[w].whole =>
        (op[w].kind # "pullall" => account = op[w].of) /\ Aware(w)

\* The current row is the one that the operation read, of the user that it read.
BoundInv ==
    marks = {} =>
      \A w \in Workers : Busy(w) /\ op[w].kind # "pullall" =>
        /\ current \in {None, op[w].row}
        /\ current # None /\ ~During(w, "push", "commit") => rows[current].remna = op[w].remna

EraseInv ==
    marks \subseteq {"adopted"} =>
      \A w \in Workers : During(w, "erase", "panel") =>
        \A r \in 1 .. Len(rows) : rows[r].remna \in op[w].ids \/ rows[r].remna \notin Alive

\* A webhook that the handling does not pass over is on its way.
Told(p) ==
    \E k \in 1 .. Len(hooks) :
        hooks[k].id = p /\ ~(hooks[k].kind = "created" /\ ~hooks[k].sub.tag)

\* What the current row lacks is still to come.
RowInv ==
    marks = {} /\ ~Astray /\ current # None =>
      \/ handler = rows[current].remna
      \/ Told(rows[current].remna)
      \/ /\ rows[current].remna \in Alive
         /\ Data(rows[current]) = Data(panel[rows[current].remna])

\* The operation is to link the user it made.
ToLink(w, p) == op[w].kind \in {"buy", "push"} /\ op[w].pc = "commit" /\ op[w].remna = p

Linked(p) == current # None /\ rows[current].remna = p

LinkInv ==
    marks = {} /\ ~Torn =>
      \A p \in Alive : panel[p].own => Linked(p) \/ \E w \in Workers : ToLink(w, p)

SyncInv ==
    /\ SyncTypeInv /\ GoneInv /\ WholeInv /\ HookInv /\ KnowsInv /\ BoundInv /\ EraseInv
    /\ RowInv /\ LinkInv

-----------------------------------------------------------------------------
(* The panel and its webhooks.                                              *)

LEMMA GonePanel ==
    ASSUME SyncTypeInv, GoneInv, PanelStep, handler' = handler
    PROVE  GoneInv'
<1>1. PanelInv /\ handler \in 0 .. Len(panel) /\ Len(panel) \in Nat
  BY DEF SyncTypeInv, PanelInv
<1>2. CASE UNCHANGED <<panel, hooks>>
  BY <1>2 DEF GoneInv, Alive
<1>3. ASSUME NEW p \in Alive, NEW x \in Subs, Tells(p, x)
      PROVE  GoneInv'
  <2>1. /\ Alive' = Alive /\ panel'[p].own = panel[p].own
        /\ \A q \in 1 .. Len(panel) : q # p => panel'[q] = panel[q]
    BY <1>1, <1>3, TellsAlive
  <2>2. PICK kind \in {"modified", "status"} : hooks' = Append(hooks, Hook(kind, p, x))
    BY <1>1, <1>3, TellsAlive
  <2>3. \A k \in 1 .. Len(hooks') : hooks'[k].kind = "deleted" => hooks'[k].id \notin Alive
    BY <2>2, HookFacts DEF Hook, GoneInv
  <2>4. \A q \in Alive : panel'[q].own = panel[q].own
    BY <2>1, AliveFacts
  <2> QED BY <2>1, <2>3, <2>4 DEF GoneInv
<1>4. ASSUME NEW own \in BOOLEAN, NEW x \in Subs, Create(own, x)
      PROVE  GoneInv'
  <2>1. /\ Alive' = Alive \cup {Len(panel) + 1} /\ panel'[Len(panel) + 1].own = own
        /\ \A q \in 1 .. Len(panel) : panel'[q] = panel[q]
        /\ hooks' = Append(hooks, Hook("created", Len(panel) + 1, x))
        /\ own => ~NameHeld
    BY <1>1, <1>4, CreateAlive
  <2>2. ASSUME NEW k \in 1 .. Len(hooks'), hooks'[k].kind = "deleted"
        PROVE  hooks'[k].id \notin Alive'
    <3>1. k \in 1 .. Len(hooks) /\ hooks'[k] = hooks[k]
      BY <2>1, <2>2, HookFacts DEF Hook
    <3> QED BY <2>1, <2>2, <3>1, HookFacts, RowFacts DEF GoneInv
  <2>3. handler \notin Alive'
    BY <1>1, <2>1 DEF GoneInv
  <2>4. \A q \in Alive : panel'[q].own = panel[q].own /\ q # Len(panel) + 1
    BY <2>1, AliveFacts
  <2> QED BY <2>1, <2>2, <2>3, <2>4 DEF GoneInv, NameHeld
<1>5. ASSUME NEW p \in Alive, RemovePanelUser(p)
      PROVE  GoneInv'
  <2>1. /\ Alive' = Alive \ {p} /\ panel'[p].own = panel[p].own
        /\ \A q \in 1 .. Len(panel) : q # p => panel'[q] = panel[q]
        /\ hooks' = Append(hooks, Hook("deleted", p, Data(panel[p])))
    BY <1>1, <1>5, RemoveAlive
  <2>2. \A k \in 1 .. Len(hooks') : hooks'[k].kind = "deleted" => hooks'[k].id \notin Alive'
    BY <2>1, HookFacts DEF Hook, GoneInv
  <2>3. \A q \in Alive : panel'[q].own = panel[q].own
    BY <2>1, AliveFacts
  <2> QED BY <2>1, <2>2, <2>3 DEF GoneInv
<1> QED BY <1>2, <1>3, <1>4, <1>5 DEF PanelStep

LEMMA GoneFewer ==
    ASSUME SyncTypeInv, GoneInv, Fewer, panel' = panel, handler' \notin Alive
    PROVE  GoneInv'
<1>1. Alive' = Alive
  BY DEF Alive
<1> QED BY <1>1, HookFacts DEF GoneInv, Fewer

LEMMA GoneKept ==
    ASSUME SyncTypeInv, GoneInv, [SyncNext]_syncVars
    PROVE  GoneInv'
<1>1. ASSUME UNCHANGED <<panel, hooks, handler>> PROVE GoneInv'
  BY <1>1 DEF GoneInv, Alive
<1>2. ASSUME NEW w \in Workers, Begins(w) \/ Inner(w) \/ Commit(w) \/ SyncEach(w)
      PROVE  GoneInv'
  <2>1. CASE Begins(w)
    BY <1>1, <2>1, BeginSets DEF Begins
  <2>2. CASE Inner(w)
    BY <2>2, InnerKept, GonePanel DEF InnerStep
  <2>3. CASE Commit(w)
    BY <1>1, <2>3, CommitEffect DEF Commits
  <2>4. CASE SyncEach(w)
    BY <1>1, <2>4, SyncEachEffect
  <2> QED BY <1>2, <2>1, <2>2, <2>3, <2>4
<1>3. CASE Register
  BY <1>1, <1>3, RegisterEffect
<1>4. CASE ByHand
  BY <1>4, HandTypes, HandEffect, GonePanel
<1>5. CASE Deliver
  <2>1. PICK k \in 1 .. Len(hooks) : HandledAs(hooks[k])
    BY <1>5, DeliverEffect
  <2>2. handler' \notin Alive
    BY <2>1 DEF HandledAs, GoneInv
  <2> QED BY <1>5, <2>2, DeliverEffect, GoneFewer
<1>6. CASE Unlink
  <2>1. None \notin Alive
    BY AliveFacts DEF None
  <2>2. Fewer
    BY <1>6, UnlinkEffect, HookFacts DEF Fewer
  <2> QED BY <1>6, <2>1, <2>2, UnlinkEffect, GoneFewer
<1>7. CASE Lose
  BY <1>7, LoseEffect, GoneFewer DEF GoneInv
<1>8. CASE UNCHANGED syncVars
  BY <1>1, <1>8 DEF syncVars
<1> QED BY <1>2, <1>3, <1>4, <1>5, <1>6, <1>7, <1>8, StepCases

-----------------------------------------------------------------------------
(* Who is alone stays alone.                                                *)

LEMMA WholeMoves ==
    ASSUME SyncTypeInv, WholeInv, NEW w \in Workers, Moves(w), Busy(w),
           op'[w] = Free \/ op'[w].whole = op[w].whole, marks \subseteq marks'
    PROVE  WholeInv'
<1>1. \A v \in Workers : Busy(v)' => Busy(v) /\ op'[v].whole = op[v].whole
  BY DEF Moves, Busy, Free
<1> QED BY <1>1 DEF WholeInv

LEMMA WholeKept ==
    ASSUME SyncTypeInv, WholeInv, [SyncNext]_syncVars
    PROVE  WholeInv'
<1>1. ASSUME op' = op, marks \subseteq marks' PROVE WholeInv'
  BY <1>1 DEF WholeInv, Busy
<1>2. ASSUME NEW w \in Workers, Begins(w) PROVE WholeInv'
  <2>1. PICK kind \in Kinds, pc \in {"lock", "panel", "look", "ids"}, x \in Subs :
          Begin(w, kind, pc, x)
    BY <1>2 DEF Begins
  <2>2. /\ op'[w].whole <=> \A v \in Workers : ~Busy(v)
        /\ \A v \in Workers \ {w} : op'[v] = [op[v] EXCEPT !.whole = FALSE]
        /\ "clash" \notin marks' => \A v \in Workers : ~Busy(v)
    BY <2>1, BeginSets
  <2>3. \A v \in Workers \ {w} : ~op'[v].whole /\ op'[v].pc = op[v].pc
    BY <2>2, OpFacts DEF Locals
  <2> QED BY <2>2, <2>3 DEF WholeInv, Busy
<1>3. ASSUME NEW w \in Workers, Inner(w) PROVE WholeInv'
  BY <1>3, InnerKept, WholeMoves DEF InnerStep, WorkStep
<1>4. ASSUME NEW w \in Workers, Commit(w) PROVE WholeInv'
  BY <1>4, CommitEffect, WholeMoves DEF Commits
<1>5. ASSUME NEW w \in Workers, SyncEach(w) PROVE WholeInv'
  <2>1. Busy(w) /\ Moves(w) /\ marks \subseteq marks'
    BY <1>5, SyncEachEffect DEF Noted
  <2>2. op'[w] = Free \/ op'[w].whole = op[w].whole
    BY <1>5, SyncEachEffect, OpFacts DEF Locals
  <2> QED BY <2>1, <2>2, WholeMoves
<1>6. CASE ByHand
  <2>1. /\ marks \subseteq marks' /\ ("edited" \notin marks' => \A w \in Workers : ~Busy(w))
        /\ \A v \in Workers : op'[v] = [op[v] EXCEPT !.whole = ~Busy(v)]
    BY <1>6, HandEffect
  <2>2. \A v \in Workers : op'[v].whole = ~Busy(v) /\ op'[v].pc = op[v].pc
    BY <2>1, OpFacts DEF Locals
  <2> QED BY <2>1, <2>2 DEF WholeInv, Busy
<1>7. CASE Register \/ Deliver \/ Unlink \/ Lose \/ UNCHANGED syncVars
  BY <1>1, <1>7, RegisterEffect, DeliverEffect, UnlinkEffect, LoseEffect DEF Noted, syncVars
<1> QED BY <1>2, <1>3, <1>4, <1>5, <1>6, <1>7, StepCases

\* An operation that nothing disturbs, at its own step, is the only one.
LEMMA Alone ==
    ASSUME WholeInv, NEW w \in Workers, Busy(w), marks \subseteq {"adopted"}
    PROVE  op[w].whole /\ \A v \in Workers : Busy(v) => v = w
BY DEF WholeInv

-----------------------------------------------------------------------------
(* The last webhook about a user.                                           *)

LEMMA HookPanel ==
    ASSUME SyncTypeInv, GoneInv, HookInv, PanelStep, ~Astray
    PROVE  /\ \A k \in 1 .. Len(hooks') : LastOf(k)' /\ hooks'[k].kind # "deleted" =>
                hooks'[k].id \in Alive' /\ hooks'[k].sub = Data(panel'[hooks'[k].id])
           /\ \A j, k \in 1 .. Len(hooks') : j < k /\ hooks'[j].id = hooks'[k].id =>
                hooks'[k].kind # "created" /\ hooks'[j].kind # "deleted"
<1>1. PanelInv /\ hooks \in Seq(HookType) /\ Len(hooks) \in Nat
  BY DEF SyncTypeInv, PanelInv
<1>2. /\ \A k \in 1 .. Len(hooks) : LastOf(k) /\ hooks[k].kind # "deleted" =>
           hooks[k].id \in Alive /\ hooks[k].sub = Data(panel[hooks[k].id])
      /\ \A j, k \in 1 .. Len(hooks) : j < k /\ hooks[j].id = hooks[k].id =>
           hooks[k].kind # "created" /\ hooks[j].kind # "deleted"
  BY DEF HookInv
<1>3. CASE UNCHANGED <<panel, hooks>>
  BY <1>2, <1>3 DEF LastOf, Alive
<1>4. ASSUME NEW h, hooks' = Append(hooks, h),
             h.kind # "deleted" => h.id \in Alive' /\ h.sub = Data(panel'[h.id]),
             \A k \in 1 .. Len(hooks) : hooks[k].id = h.id =>
                 h.kind # "created" /\ hooks[k].kind # "deleted",
             \A q \in Alive : q # h.id => q \in Alive' /\ Data(panel'[q]) = Data(panel[q])
      PROVE  /\ \A k \in 1 .. Len(hooks') : LastOf(k)' /\ hooks'[k].kind # "deleted" =>
                  hooks'[k].id \in Alive' /\ hooks'[k].sub = Data(panel'[hooks'[k].id])
             /\ \A j, k \in 1 .. Len(hooks') : j < k /\ hooks'[j].id = hooks'[k].id =>
                  hooks'[k].kind # "created" /\ hooks'[j].kind # "deleted"
  <2>1. /\ Len(hooks') = Len(hooks) + 1 /\ hooks'[Len(hooks) + 1] = h
        /\ \A k \in 1 .. Len(hooks) : hooks'[k] = hooks[k]
    BY <1>1, <1>4
  <2>2. ASSUME NEW k \in 1 .. Len(hooks'), LastOf(k)', hooks'[k].kind # "deleted"
        PROVE  hooks'[k].id \in Alive' /\ hooks'[k].sub = Data(panel'[hooks'[k].id])
    <3>1. CASE k = Len(hooks) + 1
      BY <1>4, <2>1, <2>2, <3>1
    <3>2. CASE k \in 1 .. Len(hooks)
      <4>1. hooks'[k] = hooks[k] /\ hooks[k].id # h.id
        <5>1. Len(hooks) + 1 \in 1 .. Len(hooks') /\ Len(hooks) + 1 > k
          BY <1>1, <2>1, <3>2
        <5>2. hooks'[Len(hooks) + 1].id # hooks'[k].id
          BY <2>2, <5>1 DEF LastOf
        <5> QED BY <2>1, <3>2, <5>2
      <4>2. LastOf(k)
        <5>1. \A j \in 1 .. Len(hooks) : j \in 1 .. Len(hooks')
          BY <1>1, <2>1
        <5> QED BY <2>1, <2>2, <3>2, <5>1 DEF LastOf
      <4> QED BY <1>2, <1>4, <2>2, <3>2, <4>1, <4>2
    <3> QED BY <1>1, <2>1, <3>1, <3>2
  <2>3. ASSUME NEW j \in 1 .. Len(hooks'), NEW k \in 1 .. Len(hooks'), j < k,
               hooks'[j].id = hooks'[k].id
        PROVE  hooks'[k].kind # "created" /\ hooks'[j].kind # "deleted"
    <3>1. j \in 1 .. Len(hooks)
      BY <1>1, <2>1, <2>3
    <3>2. CASE k = Len(hooks) + 1
      BY <1>4, <2>1, <2>3, <3>1, <3>2
    <3>3. CASE k \in 1 .. Len(hooks)
      BY <1>2, <2>1, <2>3, <3>1, <3>3
    <3> QED BY <1>1, <2>1, <3>2, <3>3
  <2> QED BY <2>2, <2>3
<1>5. ASSUME NEW p \in Alive
      PROVE  \A k \in 1 .. Len(hooks) : hooks[k].id = p => hooks[k].kind # "deleted"
  BY DEF GoneInv
<1>6. ASSUME NEW p \in Alive, NEW x \in Subs, Tells(p, x)
      PROVE  \E h : /\ hooks' = Append(hooks, h)
                    /\ h.kind # "deleted" => h.id \in Alive' /\ h.sub = Data(panel'[h.id])
                    /\ \A k \in 1 .. Len(hooks) : hooks[k].id = h.id =>
                         h.kind # "created" /\ hooks[k].kind # "deleted"
                    /\ \A q \in Alive : q # h.id =>
                         q \in Alive' /\ Data(panel'[q]) = Data(panel[q])
  <2>1. /\ Alive' = Alive /\ Data(panel'[p]) = x
        /\ \A q \in 1 .. Len(panel) : q # p => panel'[q] = panel[q]
    BY <1>1, <1>6, TellsAlive
  <2>2. PICK kind \in {"modified", "status"} : hooks' = Append(hooks, Hook(kind, p, x))
    BY <1>1, <1>6, TellsAlive
  <2> DEFINE h == Hook(kind, p, x)
  <2>3. h.kind = kind /\ h.id = p /\ h.sub = x
    BY DataType DEF Hook
  <2>4. \A q \in Alive : q # p => Data(panel'[q]) = Data(panel[q])
    BY <2>1, AliveFacts
  <2>5. hooks' = Append(hooks, h)
    BY <2>2
  <2> HIDE DEF h
  <2> QED BY <1>5, <2>1, <2>3, <2>4, <2>5
<1>7. ASSUME NEW own \in BOOLEAN, NEW x \in Subs, Create(own, x)
      PROVE  \E h : /\ hooks' = Append(hooks, h)
                    /\ h.kind # "deleted" => h.id \in Alive' /\ h.sub = Data(panel'[h.id])
                    /\ \A k \in 1 .. Len(hooks) : hooks[k].id = h.id =>
                         h.kind # "created" /\ hooks[k].kind # "deleted"
                    /\ \A q \in Alive : q # h.id =>
                         q \in Alive' /\ Data(panel'[q]) = Data(panel[q])
  <2>1. PICK n \in Nat : n = Len(panel') /\ n = Len(panel) + 1
    BY <1>1, <1>7, CreateAlive, RowFacts
  <2>2. /\ Alive' = Alive \cup {n} /\ Data(panel'[n]) = x
        /\ \A q \in 1 .. Len(panel) : panel'[q] = panel[q]
        /\ hooks' = Append(hooks, Hook("created", n, x))
    BY <1>1, <1>7, <2>1, CreateAlive
  <2> DEFINE h == Hook("created", n, x)
  <2>3. h.id = n /\ h.sub = x
    BY DataType DEF Hook
  <2>4. \A q \in Alive : Data(panel'[q]) = Data(panel[q])
    BY <2>2, AliveFacts
  <2>5. \A k \in 1 .. Len(hooks) : hooks[k].id # n
    BY <2>1, HookFacts, RowFacts
  <2>6. hooks' = Append(hooks, h)
    BY <2>2
  <2> HIDE DEF h
  <2> QED BY <2>2, <2>3, <2>4, <2>5, <2>6
<1>8. ASSUME NEW p \in Alive, RemovePanelUser(p)
      PROVE  \E h : /\ hooks' = Append(hooks, h)
                    /\ h.kind # "deleted" => h.id \in Alive' /\ h.sub = Data(panel'[h.id])
                    /\ \A k \in 1 .. Len(hooks) : hooks[k].id = h.id =>
                         h.kind # "created" /\ hooks[k].kind # "deleted"
                    /\ \A q \in Alive : q # h.id =>
                         q \in Alive' /\ Data(panel'[q]) = Data(panel[q])
  <2>1. /\ Alive' = Alive \ {p}
        /\ \A q \in 1 .. Len(panel) : q # p => panel'[q] = panel[q]
        /\ hooks' = Append(hooks, Hook("deleted", p, Data(panel[p])))
    BY <1>1, <1>8, RemoveAlive
  <2> DEFINE h == Hook("deleted", p, Data(panel[p]))
  <2>2. h.kind = "deleted" /\ h.id = p
    BY DEF Hook
  <2>3. \A q \in Alive : q # p => Data(panel'[q]) = Data(panel[q])
    BY <2>1, AliveFacts
  <2>4. hooks' = Append(hooks, h)
    BY <2>1
  <2> HIDE DEF h
  <2> QED BY <1>5, <2>1, <2>2, <2>3, <2>4
<1> QED BY <1>3, <1>4, <1>6, <1>7, <1>8 DEF PanelStep

LEMMA HookTail ==
    ASSUME SyncTypeInv, HookInv, ~Astray, hooks # <<>>, hooks' = Tail(hooks), panel' = panel
    PROVE  /\ \A k \in 1 .. Len(hooks') : LastOf(k)' /\ hooks'[k].kind # "deleted" =>
                hooks'[k].id \in Alive' /\ hooks'[k].sub = Data(panel'[hooks'[k].id])
           /\ \A j, k \in 1 .. Len(hooks') : j < k /\ hooks'[j].id = hooks'[k].id =>
                hooks'[k].kind # "created" /\ hooks'[j].kind # "deleted"
<1>1. /\ Len(hooks') = Len(hooks) - 1 /\ Len(hooks) \in Nat
      /\ \A j \in 1 .. Len(hooks') : j + 1 \in 1 .. Len(hooks) /\ hooks'[j] = hooks[j + 1]
  BY TailFewer, HookFacts
<1>2. /\ \A k \in 1 .. Len(hooks) : LastOf(k) /\ hooks[k].kind # "deleted" =>
           hooks[k].id \in Alive /\ hooks[k].sub = Data(panel[hooks[k].id])
      /\ \A j, k \in 1 .. Len(hooks) : j < k /\ hooks[j].id = hooks[k].id =>
           hooks[k].kind # "created" /\ hooks[j].kind # "deleted"
  BY DEF HookInv
<1>3. Alive' = Alive
  BY DEF Alive
<1>4. ASSUME NEW k \in 1 .. Len(hooks'), LastOf(k)' PROVE LastOf(k + 1)
  <2> SUFFICES ASSUME NEW i \in 1 .. Len(hooks), i > k + 1
               PROVE  hooks[i].id # hooks[k + 1].id
    BY DEF LastOf
  <2>1. i - 1 \in 1 .. Len(hooks') /\ i - 1 > k /\ (i - 1) + 1 = i
    BY <1>1
  <2>2. hooks'[i - 1].id # hooks'[k].id
    BY <1>4, <2>1 DEF LastOf
  <2> QED BY <1>1, <2>1, <2>2
<1>5. ASSUME NEW k \in 1 .. Len(hooks'), LastOf(k)', hooks'[k].kind # "deleted"
      PROVE  hooks'[k].id \in Alive' /\ hooks'[k].sub = Data(panel'[hooks'[k].id])
  <2>1. k + 1 \in 1 .. Len(hooks) /\ hooks'[k] = hooks[k + 1] /\ LastOf(k + 1)
    BY <1>1, <1>4, <1>5
  <2>2. hooks[k + 1].id \in Alive /\ hooks[k + 1].sub = Data(panel[hooks[k + 1].id])
    BY <1>2, <1>5, <2>1
  <2> QED BY <1>3, <2>1, <2>2
<1>6. ASSUME NEW j \in 1 .. Len(hooks'), NEW k \in 1 .. Len(hooks'), j < k,
             hooks'[j].id = hooks'[k].id
      PROVE  hooks'[k].kind # "created" /\ hooks'[j].kind # "deleted"
  <2>1. /\ j + 1 \in 1 .. Len(hooks) /\ hooks'[j] = hooks[j + 1] /\ j + 1 < k + 1
        /\ k + 1 \in 1 .. Len(hooks) /\ hooks'[k] = hooks[k + 1]
    BY <1>1, <1>6
  <2> QED BY <1>2, <1>6, <2>1
<1> QED BY <1>5, <1>6

LEMMA HookKept ==
    ASSUME SyncTypeInv, GoneInv, HookInv, [SyncNext]_syncVars
    PROVE  HookInv'
<1>1. ASSUME UNCHANGED <<panel, hooks, mishaps>> PROVE HookInv'
  BY <1>1 DEF HookInv, LastOf, Alive, Astray
<1>2. ASSUME PanelStep, mishaps \subseteq mishaps' PROVE HookInv'
  BY <1>2, HookPanel DEF HookInv, Astray
<1>3. ASSUME NEW w \in Workers, Begins(w) \/ Inner(w) \/ Commit(w) \/ SyncEach(w)
      PROVE  HookInv'
  <2>1. CASE Begins(w)
    BY <1>1, <2>1, BeginSets DEF Begins
  <2>2. CASE Inner(w)
    BY <1>2, <2>2, InnerKept DEF InnerStep
  <2>3. CASE Commit(w)
    BY <1>1, <2>3, CommitEffect DEF Commits
  <2>4. CASE SyncEach(w)
    BY <1>1, <2>4, SyncEachEffect
  <2> QED BY <1>3, <2>1, <2>2, <2>3, <2>4
<1>4. CASE Register
  BY <1>1, <1>4, RegisterEffect
<1>5. CASE ByHand
  BY <1>2, <1>5, HandTypes, HandEffect
<1>6. CASE Deliver
  <2>1. hooks' = Tail(hooks) \/ mishaps' \cap {"late", "again"} # {}
    BY <1>6, DeliverEffect
  <2>2. panel' = panel /\ mishaps \subseteq mishaps' /\ hooks # <<>>
    BY <1>6, DeliverEffect DEF Deliver
  <2> QED BY <2>1, <2>2, HookTail DEF HookInv, Astray
<1>7. CASE Unlink
  BY <1>1, <1>7, UnlinkEffect
<1>8. CASE Lose
  BY <1>8, LoseEffect DEF HookInv, Astray
<1>9. CASE UNCHANGED syncVars
  BY <1>1, <1>9 DEF syncVars
<1> QED BY <1>3, <1>4, <1>5, <1>6, <1>7, <1>8, <1>9, StepCases

-----------------------------------------------------------------------------
(* What an operation knows.                                                 *)

LEMMA KnowsKept ==
    ASSUME SyncTypeInv, WholeInv, KnowsInv, [SyncNext]_syncVars
    PROVE  KnowsInv'
<1>1. ASSUME UNCHANGED <<panel, op>>, account # None => account' = account PROVE KnowsInv'
  <2> SUFFICES ASSUME NEW w \in Workers, Busy(w), op[w].whole
               PROVE  (op[w].kind # "pullall" => account' = op[w].of) /\ Aware(w)'
    BY <1>1 DEF KnowsInv, Busy
  <2>1. (op[w].kind # "pullall" => account = op[w].of) /\ Aware(w)
    BY DEF KnowsInv
  <2>2. Aware(w)'
    BY <1>1, <2>1 DEF Aware, During, Has, Alive
  <2>3. op[w].kind # "pullall" => op[w].of # None
    BY OpFacts DEF OpOK, StepsOf, HasRead, Busy
  <2> QED BY <1>1, <2>1, <2>2, <2>3
<1>2. ASSUME NEW w \in Workers, Begins(w) PROVE KnowsInv'
  <2>1. PICK kind \in Kinds, pc \in {"lock", "panel", "look", "ids"}, x \in Subs :
          Starts(kind, pc, x) /\ Begin(w, kind, pc, x)
    BY <1>2 DEF Begins
  <2>2. /\ \A v \in Workers \ {w} : op'[v] = [op[v] EXCEPT !.whole = FALSE]
        /\ op'[w].pc = pc /\ op'[w].kind = kind /\ op'[w].of = account
        /\ account' = account
    BY <2>1, BeginSets DEF store
  <2>3. \A v \in Workers \ {w} : ~op'[v].whole
    BY <2>2, OpFacts DEF Locals
  <2>4. Aware(w)'
    BY <2>1, <2>2 DEF Aware, During, Starts
  <2> QED BY <2>2, <2>3, <2>4 DEF KnowsInv
\* No other is whole while the worker is at its step.
<1>3. ASSUME NEW w \in Workers, Busy(w), Moves(w),
             Busy(w)' /\ op'[w].whole =>
                 (op'[w].kind # "pullall" => account' = op'[w].of) /\ Aware(w)'
      PROVE  KnowsInv'
  <2> SUFFICES ASSUME NEW v \in Workers, v # w, Busy(v)', op'[v].whole PROVE FALSE
    BY <1>3 DEF KnowsInv
  <2>1. op'[v] = op[v]
    BY <1>3 DEF Moves
  <2> QED BY <1>3, <2>1 DEF WholeInv, Busy
<1>4. ASSUME NEW w \in Workers, Inner(w) PROVE KnowsInv'
  <2>1. InnerStep(w) /\ (Busy(w)' => Aware(w)')
    BY <1>4, InnerKept
  <2>2. Busy(w)' => op'[w].kind = op[w].kind /\ op'[w].of = op[w].of /\ op'[w].whole = op[w].whole
    BY <2>1 DEF InnerStep, WorkStep, Busy, Free
  <2>3. account' = account
    BY <2>1 DEF InnerStep, store
  <2> QED BY <1>3, <2>1, <2>2, <2>3 DEF InnerStep, WorkStep, KnowsInv
<1>5. ASSUME NEW w \in Workers, Commit(w) PROVE KnowsInv'
  <2>1. Busy(w) /\ Moves(w) /\ op'[w] = Free
    BY <1>5, CommitEffect DEF Commits
  <2> QED BY <1>3, <2>1 DEF Busy, Free
<1>6. ASSUME NEW w \in Workers, SyncEach(w) PROVE KnowsInv'
  <2>1. /\ Busy(w) /\ Moves(w) /\ During(w, "pullall", "sync") /\ panel' = panel
        /\ \/ op'[w] = Free
           \/ \E h \in op[w].seen : op'[w] = [op[w] EXCEPT !.seen = @ \ {h}]
    BY <1>6, SyncEachEffect
  <2>2. CASE op'[w] = Free
    BY <1>3, <2>1, <2>2 DEF Busy, Free
  <2>3. CASE \E h \in op[w].seen : op'[w] = [op[w] EXCEPT !.seen = @ \ {h}]
    <3>1. PICK h : op'[w] = [op[w] EXCEPT !.seen = @ \ {h}]
      BY <2>3
    <3>2. /\ op'[w].pc = op[w].pc /\ op'[w].kind = op[w].kind /\ op'[w].whole = op[w].whole
          /\ op'[w].seen \subseteq op[w].seen
      BY <3>1, OpFacts DEF Locals
    <3>3. Aware(w) => Aware(w)'
      BY <2>1, <3>2 DEF Aware, During, Alive
    <3> QED BY <1>3, <2>1, <3>2, <3>3 DEF KnowsInv, During
  <2> QED BY <2>1, <2>2, <2>3
<1>7. CASE Register
  BY <1>1, <1>7, RegisterEffect
<1>8. CASE ByHand
  <2>1. \A v \in Workers : op'[v] = [op[v] EXCEPT !.whole = ~Busy(v)]
    BY <1>8, HandEffect
  <2>2. \A v \in Workers : op'[v].whole = ~Busy(v) /\ op'[v].pc = op[v].pc
    BY <2>1, OpFacts DEF Locals
  <2> QED BY <2>2 DEF KnowsInv, Busy
<1>9. CASE Deliver
  <2>1. PICK k \in 1 .. Len(hooks) : HandledAs(hooks[k])
    BY <1>9, DeliverEffect
  <2>2. account # None => account' = account
    BY <2>1 DEF HandledAs, store, SyncedTo
  <2> QED BY <1>1, <1>9, <2>2, DeliverEffect
<1>10. CASE Unlink
  BY <1>1, <1>10, UnlinkEffect
<1>11. CASE Lose \/ UNCHANGED syncVars
  BY <1>1, <1>11, LoseEffect DEF store, syncVars
<1> QED BY <1>2, <1>4, <1>5, <1>6, <1>7, <1>8, <1>9, <1>10, <1>11, StepCases

-----------------------------------------------------------------------------
(* The row an operation is about.                                           *)

\* A step that writes nothing keeps what was read, but for a user that is made or found.
LEMMA InnerBound ==
    ASSUME SyncTypeInv, NEW w \in Workers, Inner(w)
    PROVE  \/ op'[w] = Free
           \/ /\ op[w].pc # "commit"
              /\ \/ op'[w].remna = op[w].remna
                 \/ op[w].row = None
                 \/ During(w, "push", "commit")'
<1>1. op \in [Workers -> Locals] /\ OpOK(op[w]) /\ op[w] \in Locals
  BY OpFacts
<1>2. Finish(w) => op'[w] = Free
  BY <1>1 DEF Finish
<1>3. ASSUME NEW pc, Goto(w, pc) PROVE op'[w].remna = op[w].remna
  BY <1>1, <1>3 DEF Goto, Locals
<1>4. CASE Lock(w)
  BY <1>3, <1>4 DEF Lock
<1>5. CASE CallUpdate(w)
  <2>1. Finish(w) \/ Goto(w, "commit")
    BY <1>5 DEF CallUpdate, Applied, Missing, Refused
  <2> QED BY <1>2, <1>3, <1>5, <2>1 DEF CallUpdate
<1>6. CASE CallDelete(w)
  <2>1. Finish(w) \/ Goto(w, "commit")
    BY <1>6 DEF CallDelete, Applied, Refused
  <2> QED BY <1>2, <1>3, <1>6, <2>1 DEF CallDelete, During
<1>7. CASE CallCreate(w)
  <2>1. op[w].kind \in {"buy", "push"} /\ op[w].pc \in {"panel", "recreate"}
    BY <1>7 DEF CallCreate, During
  <2>2. CASE op[w].kind = "buy"
    BY <1>1, <2>1, <2>2 DEF OpOK, HasRead
  <2>3. CASE op[w].kind = "push"
    <3>1. CASE Finish(w)
      BY <1>2, <3>1
    <3>2. CASE op' = [op EXCEPT ![w].pc = "commit", ![w].remna = Len(panel'),
                                ![w].sub = Made(w)]
      <4>1. op'[w].pc = "commit" /\ op'[w].kind = op[w].kind
        BY <1>1, <3>2 DEF Locals
      <4> QED BY <2>1, <2>3, <4>1 DEF During
    <3> QED BY <1>7, <3>1, <3>2 DEF CallCreate
  <2> QED BY <2>1, <2>2, <2>3
<1>8. CASE NotCreated(w) \/ Killed(w)
  BY <1>2, <1>8 DEF NotCreated, Refused, Killed
<1>9. CASE LookPull(w)
  <2>1. op[w].pc = "look"
    BY <1>9 DEF LookPull, During
  <2>2. CASE Finish(w) \/ Goto(w, "gone")
    BY <1>2, <1>3, <2>1, <2>2
  <2>3. ASSUME NEW p \in Alive, IF op[w].row = None THEN First(p) ELSE p = op[w].remna,
               op' = [op EXCEPT ![w].pc = "sync", ![w].remna = p, ![w].sub = Snapshot(w, p)]
        PROVE  op'[w].remna = op[w].remna \/ op[w].row = None
    <3>1. op'[w].remna = p
      BY <1>1, <2>3 DEF Locals
    <3> QED BY <2>3, <3>1
  <2> QED BY <1>9, <2>1, <2>2, <2>3 DEF LookPull
<1>10. CASE LookPush(w)
  <2>1. Finish(w) \/ Goto(w, "panel") \/ Goto(w, "recreate")
    BY <1>10 DEF LookPush
  <2> QED BY <1>2, <1>3, <1>10, <2>1 DEF LookPush, During
<1>11. CASE LookPullAll(w)
  <2>1. op'[w].remna = op[w].remna
    BY <1>1, <1>11 DEF LookPullAll, Locals
  <2> QED BY <1>11, <2>1 DEF LookPullAll, During
<1>12. CASE CollectIds(w)
  <2>1. op'[w].remna = op[w].remna
    BY <1>1, <1>12 DEF CollectIds, Locals
  <2> QED BY <1>12, <2>1 DEF CollectIds, During
<1>13. CASE CallErase(w)
  <2>1. Finish(w) \/ \E p \in op[w].ids : op' = [op EXCEPT ![w].ids = @ \ {p}]
    BY <1>13 DEF CallErase, Applied, Refused
  <2>2. (\E p \in op[w].ids : op' = [op EXCEPT ![w].ids = @ \ {p}])
          => op'[w].remna = op[w].remna
    BY <1>1 DEF Locals
  <2> QED BY <1>2, <1>13, <2>1, <2>2 DEF CallErase, During
<1> QED BY <1>4, <1>5, <1>6, <1>7, <1>8, <1>9, <1>10, <1>11, <1>12, <1>13 DEF Inner

LEMMA BoundKept ==
    ASSUME SyncTypeInv, WholeInv, BoundInv, [SyncNext]_syncVars
    PROVE  BoundInv'
<1>1. ASSUME op' = op, marks \subseteq marks', \/ current' = None
                                                \/ /\ current' = current
                                                   /\ rows'[current].remna = rows[current].remna
      PROVE  BoundInv'
  BY <1>1 DEF BoundInv, Busy, During
<1>2. ASSUME NEW w \in Workers, Begins(w) PROVE BoundInv'
  <2>1. PICK kind \in Kinds, pc \in {"lock", "panel", "look", "ids"}, x \in Subs :
          Begin(w, kind, pc, x)
    BY <1>2 DEF Begins
  <2>2. /\ op'[w].row = current /\ UNCHANGED store
        /\ op'[w].remna = (IF current = None THEN None ELSE rows[current].remna)
        /\ \A v \in Workers \ {w} : op'[v] = [op[v] EXCEPT !.whole = FALSE]
        /\ "clash" \notin marks' => \A v \in Workers : ~Busy(v)
    BY <2>1, BeginSets
  <2>3. \A v \in Workers \ {w} : op'[v].pc = op[v].pc
    BY <2>2, OpFacts DEF Locals
  <2> QED BY <2>2, <2>3 DEF BoundInv, Busy, store
\* No other is under way.
<1>3. ASSUME NEW w \in Workers, Busy(w), Moves(w), marks \subseteq marks',
             marks' = {} /\ Busy(w)' /\ op'[w].kind # "pullall" =>
               /\ current' \in {None, op'[w].row}
               /\ current' # None /\ ~During(w, "push", "commit")' =>
                    rows'[current'].remna = op'[w].remna
      PROVE  BoundInv'
  <2> SUFFICES ASSUME NEW v \in Workers, v # w, Busy(v)', marks' = {} PROVE FALSE
    BY <1>3 DEF BoundInv
  <2>1. Busy(v) /\ marks = {}
    BY <1>3 DEF Moves, Busy
  <2> QED BY <1>3, <2>1, Alone
<1>4. ASSUME NEW w \in Workers, Inner(w) PROVE BoundInv'
  <2>1. Busy(w) /\ Moves(w) /\ UNCHANGED <<store, marks>>
    BY <1>4, InnerKept DEF InnerStep, WorkStep
  <2>2. Busy(w)' => op'[w].kind = op[w].kind /\ op'[w].row = op[w].row
    BY <1>4, InnerKept DEF InnerStep, WorkStep, Busy, Free
  <2>3. Busy(w)' => /\ op[w].pc # "commit"
                    /\ \/ op'[w].remna = op[w].remna
                       \/ op[w].row = None
                       \/ During(w, "push", "commit")'
    BY <1>4, InnerBound DEF Busy, Free
  <2> QED BY <1>3, <2>1, <2>2, <2>3 DEF BoundInv, store, During
<1>5. ASSUME NEW w \in Workers, Commit(w) PROVE BoundInv'
  BY <1>3, <1>5, CommitEffect DEF Commits, Busy, Free
<1>6. ASSUME NEW w \in Workers, SyncEach(w) PROVE BoundInv'
  <2>1. /\ Busy(w) /\ Moves(w) /\ During(w, "pullall", "sync") /\ marks \subseteq marks'
        /\ \/ op'[w] = Free
           \/ \E h \in op[w].seen : op'[w] = [op[w] EXCEPT !.seen = @ \ {h}]
    BY <1>6, SyncEachEffect DEF Noted
  <2>2. op'[w] = Free \/ op'[w].kind = "pullall"
    BY <2>1, OpFacts DEF Locals, During
  <2> QED BY <1>3, <2>1, <2>2 DEF Busy, Free
<1>7. CASE Register
  BY <1>1, <1>7, RegisterEffect
<1>8. CASE ByHand
  <2>1. /\ "edited" \notin marks' => \A w \in Workers : ~Busy(w)
        /\ \A v \in Workers : op'[v] = [op[v] EXCEPT !.whole = ~Busy(v)]
    BY <1>8, HandEffect
  <2>2. \A v \in Workers : op'[v].pc = op[v].pc
    BY <2>1, OpFacts DEF Locals
  <2> QED BY <2>1, <2>2 DEF BoundInv, Busy
<1>9. CASE Deliver
  <2>1. op' = op /\ marks \subseteq marks'
    BY <1>9, DeliverEffect DEF Noted
  <2>2. ASSUME NEW w \in Workers, Busy(w), marks' = {}
        PROVE  /\ current' = current
               /\ current # None => rows'[current].remna = rows[current].remna
    BY <1>9, <2>2, DeliverEffect DEF Noted
  <2> QED BY <2>1, <2>2 DEF BoundInv, Busy, During
<1>10. CASE Unlink
  <2>1. current' = None \/ (current' = current /\ rows'[current].remna = rows[current].remna)
    BY <1>10, UnlinkEffect, RowFacts
  <2> QED BY <1>1, <1>10, <2>1, UnlinkEffect
<1>11. CASE Lose \/ UNCHANGED syncVars
  BY <1>1, <1>11, LoseEffect DEF store, syncVars
<1> QED BY <1>2, <1>4, <1>5, <1>6, <1>7, <1>8, <1>9, <1>10, <1>11, StepCases

-----------------------------------------------------------------------------
(* An erasure.                                                              *)

LEMMA InnerErase ==
    ASSUME SyncTypeInv, NEW w \in Workers, Inner(w), During(w, "erase", "panel")'
    PROVE  \/ op'[w].ids = PanelIds /\ panel' = panel
           \/ /\ During(w, "erase", "panel")
              /\ \E p : op'[w].ids = op[w].ids \ {p} /\ Alive' = Alive \ {p}
<1>1. op \in [Workers -> Locals] /\ op[w] \in Locals /\ OpOK(op[w])
  BY OpFacts
<1>2. op'[w] # Free /\ op'[w].kind = op[w].kind /\ op[w].kind = "erase"
  BY InnerKept DEF InnerStep, WorkStep, During, Free
<1>3. ~Finish(w)
  BY <1>1, <1>2 DEF Finish
<1>4. CASE CollectIds(w)
  BY <1>4, CollectIdsInner DEF CollectIds
<1>5. CASE CallErase(w)
  <2>1. PICK p \in op[w].ids :
          /\ op' = [op EXCEPT ![w].ids = @ \ {p}]
          /\ RemovePanelUser(p) \/ (p \notin Alive /\ panel' = panel)
    BY <1>3, <1>5 DEF CallErase, Applied, Refused
  <2>2. op'[w].ids = op[w].ids \ {p}
    BY <1>1, <2>1 DEF Locals
  <2>3. Alive' = Alive \ {p}
    <3>1. CASE RemovePanelUser(p)
      BY <3>1, RemoveAlive DEF RemovePanelUser, SyncTypeInv
    <3>2. CASE p \notin Alive /\ panel' = panel
      BY <3>2 DEF Alive
    <3> QED BY <2>1, <3>1, <3>2
  <2> QED BY <1>5, <2>2, <2>3 DEF CallErase
<1>6. ~Lock(w)
  BY <1>1, <1>2 DEF Lock, OpOK, StepsOf
<1> QED BY <1>2, <1>3, <1>4, <1>5, <1>6
        DEF Inner, CallUpdate, CallDelete, CallCreate, NotCreated, LookPull, LookPush,
            LookPullAll, Killed, During

LEMMA EraseKept ==
    ASSUME SyncTypeInv, GoneInv, WholeInv, EraseInv, [SyncNext]_syncVars
    PROVE  EraseInv'
<1>0. None \notin Alive
  BY AliveFacts DEF None
<1>1. ASSUME UNCHANGED <<op, panel>>, marks \subseteq marks', Len(rows') = Len(rows),
             \A r \in 1 .. Len(rows) : rows'[r].remna = rows[r].remna
      PROVE  EraseInv'
  BY <1>1 DEF EraseInv, During, Alive
<1>2. ASSUME NEW w \in Workers, Begins(w) PROVE EraseInv'
  <2>1. PICK kind \in Kinds, pc \in {"lock", "panel", "look", "ids"}, x \in Subs :
          Starts(kind, pc, x) /\ Begin(w, kind, pc, x)
    BY <1>2 DEF Begins
  <2>2. /\ op'[w].kind = kind /\ op'[w].pc = pc
        /\ \A v \in Workers \ {w} : op'[v] = [op[v] EXCEPT !.whole = FALSE]
        /\ "clash" \notin marks' => \A v \in Workers : ~Busy(v)
    BY <2>1, BeginSets
  <2>3. \A v \in Workers \ {w} : op'[v].pc = op[v].pc
    BY <2>2, OpFacts DEF Locals
  <2> QED BY <2>1, <2>2, <2>3 DEF EraseInv, Busy, During, Starts
<1>3. ASSUME NEW w \in Workers, Busy(w), Moves(w), marks \subseteq marks',
             marks' \subseteq {"adopted"} /\ During(w, "erase", "panel")' =>
               \A r \in 1 .. Len(rows') :
                  rows'[r].remna \in op'[w].ids \/ rows'[r].remna \notin Alive'
      PROVE  EraseInv'
  <2> SUFFICES ASSUME NEW v \in Workers, v # w, During(v, "erase", "panel")',
                      marks' \subseteq {"adopted"}
               PROVE  FALSE
    BY <1>3 DEF EraseInv
  <2>1. Busy(v) /\ marks \subseteq {"adopted"}
    BY <1>3 DEF Moves, Busy, During
  <2> QED BY <1>3, <2>1, Alone
<1>4. ASSUME NEW w \in Workers, Inner(w) PROVE EraseInv'
  <2>1. Busy(w) /\ Moves(w) /\ rows' = rows /\ marks' = marks
    BY <1>4, InnerKept DEF InnerStep, WorkStep, store
  <2>2. ASSUME marks \subseteq {"adopted"}, During(w, "erase", "panel")', NEW r \in 1 .. Len(rows)
        PROVE  rows[r].remna \in op'[w].ids \/ rows[r].remna \notin Alive'
    <3>1. CASE op'[w].ids = PanelIds /\ panel' = panel
      BY <1>0, <3>1 DEF PanelIds, Alive
    <3>2. CASE /\ During(w, "erase", "panel")
               /\ \E p : op'[w].ids = op[w].ids \ {p} /\ Alive' = Alive \ {p}
      BY <2>2, <3>2 DEF EraseInv
    <3> QED BY <1>4, <2>2, <3>1, <3>2, InnerErase
  <2> QED BY <1>3, <2>1, <2>2
<1>5. ASSUME NEW w \in Workers, Commit(w) PROVE EraseInv'
  BY <1>3, <1>5, CommitEffect DEF Commits, During, Free
<1>6. ASSUME NEW w \in Workers, SyncEach(w) PROVE EraseInv'
  <2>1. /\ Busy(w) /\ Moves(w) /\ During(w, "pullall", "sync") /\ marks \subseteq marks'
        /\ \/ op'[w] = Free
           \/ \E h \in op[w].seen : op'[w] = [op[w] EXCEPT !.seen = @ \ {h}]
    BY <1>6, SyncEachEffect DEF Noted
  <2>2. op'[w] = Free \/ op'[w].kind = "pullall"
    BY <2>1, OpFacts DEF Locals, During
  <2> QED BY <1>3, <2>1, <2>2 DEF During, Free
<1>7. CASE Register
  BY <1>1, <1>7, RegisterEffect
<1>8. CASE ByHand
  <2>1. /\ "edited" \notin marks' => \A w \in Workers : ~Busy(w)
        /\ \A v \in Workers : op'[v] = [op[v] EXCEPT !.whole = ~Busy(v)]
    BY <1>8, HandEffect
  <2>2. \A v \in Workers : op'[v].pc = op[v].pc
    BY <2>1, OpFacts DEF Locals
  <2> QED BY <2>1, <2>2 DEF EraseInv, Busy, During
<1>9. CASE Deliver
  <2>1. op' = op /\ panel' = panel /\ marks \subseteq marks'
    BY <1>9, DeliverEffect DEF Noted
  <2>2. ASSUME NEW w \in Workers, op[w].kind = "erase", marks' \subseteq {"adopted"}
        PROVE  rows' = rows
    BY <1>9, <2>2, DeliverEffect DEF Noted
  <2> QED BY <2>1, <2>2 DEF EraseInv, During, Alive
<1>10. CASE Unlink
  BY <1>1, <1>10, UnlinkEffect
<1>11. CASE Lose \/ UNCHANGED syncVars
  BY <1>1, <1>11, LoseEffect DEF store, syncVars
<1> QED BY <1>2, <1>4, <1>5, <1>6, <1>7, <1>8, <1>9, <1>10, <1>11, StepCases

-----------------------------------------------------------------------------
(* What the current row lacks.                                              *)

Settled == rows[current].remna \in Alive /\ Data(rows[current]) = Data(panel[rows[current].remna])

LEMMA RowPanel ==
    ASSUME SyncTypeInv, RowInv, PanelStep, UNCHANGED <<store, handler>>, marks \subseteq marks',
           mishaps \subseteq mishaps'
    PROVE  RowInv'
<1> SUFFICES ASSUME marks' = {}, ~Astray', current # None
             PROVE  \/ handler = rows[current].remna
                    \/ Told(rows[current].remna)'
                    \/ /\ rows[current].remna \in Alive'
                       /\ Data(rows[current]) = Data(panel'[rows[current].remna])
  BY DEF RowInv, store
<1>1. PICK p \in Nat : p = rows[current].remna /\ p <= Len(panel)
  BY RowFacts
<1>2. \/ handler = p \/ Told(p)
      \/ p \in Alive /\ Data(rows[current]) = Data(panel[p])
  BY <1>1 DEF RowInv, Astray
<1>3. PanelInv /\ hooks \in Seq(HookType) /\ Len(hooks) \in Nat
  BY HookFacts DEF SyncTypeInv
<1>4. CASE UNCHANGED <<panel, hooks>>
  BY <1>1, <1>2, <1>4 DEF Told, Alive, store
<1>5. ASSUME NEW h, hooks' = Append(hooks, h)
      PROVE  /\ Told(p) => Told(p)'
             /\ h.id = p /\ h.kind # "created" => Told(p)'
  <2>1. /\ Len(hooks') = Len(hooks) + 1 /\ hooks'[Len(hooks) + 1] = h
        /\ \A k \in 1 .. Len(hooks) : hooks'[k] = hooks[k] /\ k \in 1 .. Len(hooks')
        /\ Len(hooks) + 1 \in 1 .. Len(hooks')
    BY <1>3, <1>5
  <2> QED BY <2>1 DEF Told
<1>6. ASSUME NEW q \in Alive, NEW x \in Subs, Tells(q, x)
      PROVE  Told(p)' \/ handler = p \/ (p \in Alive' /\ Data(rows[current]) = Data(panel'[p]))
  <2>1. Alive' = Alive /\ \A s \in 1 .. Len(panel) : s # q => panel'[s] = panel[s]
    BY <1>3, <1>6, TellsAlive
  <2>2. PICK kind \in {"modified", "status"} : hooks' = Append(hooks, Hook(kind, q, x))
    BY <1>3, <1>6, TellsAlive
  <2>3. Hook(kind, q, x).id = q /\ Hook(kind, q, x).kind # "created"
    BY DEF Hook
  <2> QED BY <1>2, <1>5, <2>1, <2>2, <2>3, AliveFacts
<1>7. ASSUME NEW own \in BOOLEAN, NEW x \in Subs, Create(own, x)
      PROVE  Told(p)' \/ handler = p \/ (p \in Alive' /\ Data(rows[current]) = Data(panel'[p]))
  <2>1. /\ Alive' = Alive \cup {Len(panel')}
        /\ \A s \in 1 .. Len(panel) : panel'[s] = panel[s]
        /\ hooks' = Append(hooks, Hook("created", Len(panel'), x))
    BY <1>3, <1>7, CreateAlive
  <2> QED BY <1>2, <1>5, <2>1, AliveFacts
<1>8. ASSUME NEW q \in Alive, RemovePanelUser(q)
      PROVE  Told(p)' \/ handler = p \/ (p \in Alive' /\ Data(rows[current]) = Data(panel'[p]))
  <2>1. /\ Alive' = Alive \ {q} /\ \A s \in 1 .. Len(panel) : s # q => panel'[s] = panel[s]
        /\ hooks' = Append(hooks, Hook("deleted", q, Data(panel[q])))
    BY <1>3, <1>8, RemoveAlive
  <2>2. /\ Hook("deleted", q, Data(panel[q])).id = q
        /\ Hook("deleted", q, Data(panel[q])).kind # "created"
    BY DEF Hook
  <2> QED BY <1>2, <1>5, <2>1, <2>2, AliveFacts
<1>9. Told(rows[current].remna)' <=> Told(p)'
  BY <1>1 DEF Told, store
<1> QED BY <1>1, <1>4, <1>6, <1>7, <1>8, <1>9 DEF PanelStep

LEMMA RowCommit ==
    ASSUME SyncTypeInv, WholeInv, KnowsInv, BoundInv, RowInv, NEW w \in Workers, Commit(w),
           marks = {}
    PROVE  RowInv'
<1>1. Commits(w) /\ op'[w] = Free
  BY CommitEffect
<1>2. op[w].whole /\ Aware(w) /\ (op[w].kind # "pullall" => account = op[w].of)
  BY <1>1, Alone DEF Commits, KnowsInv
<1>3. op[w] \in Locals /\ OpOK(op[w])
  BY OpFacts
<1>4. UNCHANGED <<panel, hooks, handler, mishaps>> /\ Alive' = Alive
  BY <1>1 DEF Commits, Alive
<1>5. ASSUME current' = None \/ Settled' PROVE RowInv'
  BY <1>5 DEF RowInv, Settled
<1>6. ASSUME UNCHANGED store PROVE RowInv'
  BY <1>4, <1>6 DEF RowInv, store, Told, Astray
<1>7. CASE CommitUpdate(w)
  <2>1. /\ current' = current /\ op[w].kind \in {"extend", "toggle"} /\ op[w].pc = "commit"
        /\ \A r \in 1 .. Len(rows) :
             /\ rows'[r].remna = rows[r].remna
             /\ rows'[r] = rows[r] \/ (r = op[w].row /\ Kept(w))
             /\ r = op[w].row /\ Kept(w) =>
                  rows'[r] = IF op[w].kind = "extend"
                             THEN [rows[r] EXCEPT !.term = op[w].sub.term]
                             ELSE [rows[r] EXCEPT !.status = op[w].sub.status]
    BY <1>7, UpdateEffect DEF CommitUpdate
  <2> SUFFICES ASSUME current # None, ~Astray PROVE RowInv'
    BY <1>4, <2>1 DEF RowInv, Astray
  <2>2. /\ current \in 1 .. Len(rows) /\ current = op[w].row /\ Kept(w)
        /\ rows[current].remna = op[w].remna /\ rows'[current].remna = rows[current].remna
    BY <1>1, <1>2, <2>1, RowFacts DEF BoundInv, Commits, Kept, During
  <2>3. \/ handler = rows[current].remna \/ Told(rows[current].remna) \/ Settled
    BY DEF RowInv, Settled
  <2>4. CASE handler = rows[current].remna \/ Told(rows[current].remna)
    BY <1>4, <2>1, <2>2, <2>4 DEF RowInv, Told
  <2>5. CASE Settled
    <3>1. rows[current] \in RowType
      BY <2>2, RowFacts
    <3>2. CASE op[w].kind = "extend"
      <4>1. panel[rows[current].remna].term = op[w].sub.term
        BY <1>2, <2>1, <2>2, <3>2 DEF Aware, During
      <4>2. rows'[current] = [rows[current] EXCEPT !.term = op[w].sub.term]
        BY <2>1, <2>2, <3>2
      <4>3. /\ rows'[current].term = op[w].sub.term
            /\ rows'[current].status = rows[current].status
            /\ rows'[current].tag = rows[current].tag
        BY <3>1, <4>2 DEF RowType
      <4>4. Data(rows'[current]) = Data(panel[rows[current].remna])
        BY <2>5, <4>1, <4>3 DEF Settled, Data
      <4> QED BY <1>4, <1>5, <2>1, <2>2, <2>5, <4>4 DEF Settled
    <3>3. CASE op[w].kind = "toggle"
      <4>1. panel[rows[current].remna].status = op[w].sub.status
        BY <1>2, <2>1, <2>2, <3>3 DEF Aware, During
      <4>2. rows'[current] = [rows[current] EXCEPT !.status = op[w].sub.status]
        BY <2>1, <2>2, <3>3
      <4>3. /\ rows'[current].status = op[w].sub.status
            /\ rows'[current].term = rows[current].term
            /\ rows'[current].tag = rows[current].tag
        BY <3>1, <4>2 DEF RowType
      <4>4. Data(rows'[current]) = Data(panel[rows[current].remna])
        BY <2>5, <4>1, <4>3 DEF Settled, Data
      <4> QED BY <1>4, <1>5, <2>1, <2>2, <2>5, <4>4 DEF Settled
    <3> QED BY <2>1, <3>2, <3>3
  <2> QED BY <2>3, <2>4, <2>5
\* The operation records what the panel has.
<1>8. ASSUME Has(w), rows'[current'] = Row(op[w].remna, op[w].sub) PROVE RowInv'
  <2>1. Data(rows'[current']) = op[w].sub /\ rows'[current'].remna = op[w].remna
    <3>1. op[w].sub \in Subs
      BY <1>3 DEF Locals
    <3>2. Data(op[w].sub) = op[w].sub
      BY <3>1, DataType
    <3> QED BY <1>8, <3>2 DEF Data, Row
  <2> QED BY <1>4, <1>5, <1>8, <2>1 DEF Settled, Has
<1>9. CASE CommitInsert(w)
  <2>1. Has(w)
    BY <1>2, <1>9 DEF Aware, CommitInsert
  <2>2. UNCHANGED store \/ rows'[current'] = Row(op[w].remna, op[w].sub)
    BY <1>9, InsertEffect
  <2> QED BY <1>6, <1>8, <2>1, <2>2
<1>10. CASE CommitDelete(w)
  <2>1. UNCHANGED store \/ current' = None
    BY <1>10, DeleteEffect
  <2> QED BY <1>5, <1>6, <2>1
<1>11. CASE SyncOne(w)
  <2>1. Has(w)
    BY <1>2, <1>11, SyncOneEffect DEF Aware, During
  <2>2. UNCHANGED store \/ rows'[current'] = Row(op[w].remna, op[w].sub)
    BY <1>11, SyncOneEffect DEF SyncedTo
  <2> QED BY <1>6, <1>8, <2>1, <2>2
<1>12. CASE CommitErase(w)
  <2>1. UNCHANGED store \/ current' = None
    BY <1>12, EraseEffect
  <2> QED BY <1>5, <1>6, <2>1
<1> QED BY <1>7, <1>9, <1>10, <1>11, <1>12 DEF Commit

LEMMA RowDeliver ==
    ASSUME SyncTypeInv, HookInv, RowInv, Deliver
    PROVE  RowInv'
<1> SUFFICES ASSUME marks' = {}, ~Astray', current' # None
             PROVE  handler' = rows'[current'].remna \/ Told(rows[current].remna)' \/ Settled'
  BY DEF RowInv, Settled
<1>1. panel' = panel /\ marks = {} /\ mishaps \subseteq mishaps' /\ hooks # <<>>
  BY DeliverEffect DEF Noted, Deliver
<1>2. ~Astray
  BY <1>1 DEF Astray
<1>3. HandledAs(hooks[1]) /\ hooks' = Tail(hooks)
  BY DeliverEffect DEF Astray
<1>4. /\ Len(hooks') = Len(hooks) - 1 /\ 1 \in 1 .. Len(hooks) /\ Len(hooks) \in Nat
      /\ \A j \in 1 .. Len(hooks') : j + 1 \in 1 .. Len(hooks) /\ hooks'[j] = hooks[j + 1]
  BY <1>1, <1>3, TailFewer, HookFacts
<1>5. ASSUME NEW k \in 1 .. Len(hooks), k # 1
      PROVE  k - 1 \in 1 .. Len(hooks') /\ hooks'[k - 1] = hooks[k]
  <2>1. k - 1 \in 1 .. Len(hooks') /\ (k - 1) + 1 = k
    BY <1>4, <1>5
  <2> QED BY <1>4, <2>1
<1>6. PICK h \in HookType : h = hooks[1] /\ h.id \in 1 .. Len(panel)
  BY <1>4, HookFacts
<1>7. CASE h.kind # "deleted" /\ SyncedTo(h.id, h.sub)
  <2>1. rows'[current'] = Row(h.id, h.sub)
    BY <1>7 DEF SyncedTo
  <2>2. rows'[current'].remna = h.id /\ Data(rows'[current']) = h.sub
    <3>1. h.sub \in Subs /\ Data(h.sub) = h.sub
      BY DataType DEF HookType
    <3> QED BY <2>1, <3>1 DEF Row, Data
  <2>3. CASE LastOf(1)
    <3>1. h.id \in Alive /\ h.sub = Data(panel[h.id])
      BY <1>2, <1>4, <1>6, <1>7, <2>3 DEF HookInv
    <3> QED BY <1>1, <2>2, <3>1 DEF Settled, Alive
  <2>4. CASE ~LastOf(1)
    <3>1. PICK k \in 1 .. Len(hooks) : k > 1 /\ hooks[k].id = h.id
      BY <1>6, <2>4 DEF LastOf
    <3>2. hooks[k].kind # "created"
      BY <1>2, <1>4, <1>6, <3>1 DEF HookInv
    <3>3. k - 1 \in 1 .. Len(hooks') /\ hooks'[k - 1] = hooks[k]
      BY <1>5, <3>1
    <3> QED BY <2>2, <3>1, <3>2, <3>3 DEF Told
  <2> QED BY <2>3, <2>4
<1>8. CASE /\ UNCHANGED <<store, handler>>
           /\ \/ h.kind = "created" /\ ~h.sub.tag
              \/ h.kind \in {"status", "deleted"} /\ ~Owned(h.id)
  <2>1. current' = current /\ rows' = rows /\ current # None
    BY <1>8 DEF store
  <2>2. handler = rows[current].remna \/ Told(rows[current].remna) \/ Settled
    BY <1>1, <1>2, <2>1 DEF RowInv, Settled
  <2>3. CASE Settled
    BY <1>1, <2>1, <2>3 DEF Settled, Alive
  <2>4. CASE handler = rows[current].remna
    BY <1>8, <2>1, <2>4
  <2>5. ASSUME NEW k \in 1 .. Len(hooks), hooks[k].id = rows[current].remna,
               ~(hooks[k].kind = "created" /\ ~hooks[k].sub.tag)
        PROVE  Told(rows[current].remna)'
    <3>1. k # 1
      BY <1>6, <1>8, <2>1, <2>5 DEF Owned
    <3> QED BY <1>5, <2>1, <2>5, <3>1 DEF Told
  <2> QED BY <2>1, <2>2, <2>3, <2>4, <2>5 DEF Told
<1>9. CASE h.kind = "deleted" /\ Owned(h.id) /\ handler' = h.id /\ UNCHANGED store
  BY <1>9 DEF Owned, store
<1>10. CASE UNCHANGED store /\ account = None
  BY <1>10, RowFacts DEF store
<1> QED BY <1>3, <1>6, <1>7, <1>8, <1>9, <1>10 DEF HandledAs

LEMMA RowKept ==
    ASSUME SyncTypeInv, WholeInv, HookInv, KnowsInv, BoundInv, RowInv, [SyncNext]_syncVars
    PROVE  RowInv'
<1>1. ASSUME UNCHANGED <<rows, current, panel, hooks, handler, mishaps>>, marks \subseteq marks'
      PROVE  RowInv'
  BY <1>1 DEF RowInv, Told, Astray, Alive
<1>2. ASSUME NEW w \in Workers, Begins(w) PROVE RowInv'
  BY <1>1, <1>2, BeginSets DEF Begins, store
<1>3. ASSUME NEW w \in Workers, Inner(w) PROVE RowInv'
  BY <1>3, InnerKept, RowPanel DEF InnerStep
<1>4. ASSUME NEW w \in Workers, Commit(w) PROVE RowInv'
  <2>1. marks # {} => marks' # {}
    BY <1>4, CommitEffect
  <2> QED BY <1>4, <2>1, RowCommit DEF RowInv
<1>5. ASSUME NEW w \in Workers, SyncEach(w) PROVE RowInv'
  <2>1. /\ Busy(w) /\ During(w, "pullall", "sync") /\ marks \subseteq marks'
        /\ UNCHANGED <<panel, hooks, handler, mishaps>>
        /\ UNCHANGED store \/ \E h \in op[w].seen : SyncedTo(h.id, h.sub)
    BY <1>5, SyncEachEffect DEF Noted
  <2>2. CASE UNCHANGED store
    BY <1>1, <2>1, <2>2 DEF store
  <2>3. ASSUME NEW h \in op[w].seen, SyncedTo(h.id, h.sub), marks = {} PROVE RowInv'
    <3>1. h.id \in Alive /\ h.sub = Data(panel[h.id])
      BY <2>1, <2>3, Alone DEF KnowsInv, Aware
    <3>2. rows'[current'] = Row(h.id, h.sub)
      BY <2>3 DEF SyncedTo
    <3>3. rows'[current'].remna = h.id /\ Data(rows'[current']) = h.sub
      <4>1. h.sub \in Subs
        BY OpFacts DEF Locals
      <4>2. Data(h.sub) = h.sub
        BY <4>1, DataType
      <4> QED BY <3>2, <4>2 DEF Row, Data
    <3> QED BY <2>1, <3>1, <3>3 DEF RowInv, Alive
  <2> QED BY <2>1, <2>2, <2>3 DEF RowInv
<1>6. CASE Register
  BY <1>1, <1>6, RegisterEffect
<1>7. CASE ByHand
  BY <1>7, HandTypes, HandEffect, RowPanel
<1>8. CASE Deliver
  BY <1>8, RowDeliver
<1>9. CASE Unlink
  <2>1. /\ UNCHANGED <<panel, hooks, mishaps, marks>>
        /\ \/ /\ current' = current
              /\ current # None => /\ rows[current].remna # handler
                                   /\ rows'[current] = rows[current]
           \/ current' = None
    BY <1>9, UnlinkEffect
  <2> QED BY <2>1 DEF RowInv, Told, Astray, Alive
<1>10. CASE Lose
  BY <1>10, LoseEffect DEF RowInv, Astray
<1>11. CASE UNCHANGED syncVars
  BY <1>1, <1>11 DEF syncVars
<1> QED BY <1>2, <1>3, <1>4, <1>5, <1>6, <1>7, <1>8, <1>9, <1>10, <1>11, StepCases

-----------------------------------------------------------------------------
(* The user that the shop made.                                             *)

\* What has the name was there, or is the operation's own; one killed at its commit is torn.
LEMMA InnerLink ==
    ASSUME SyncTypeInv, NEW w \in Workers, Inner(w)
    PROVE  /\ op[w].pc = "commit" => Torn'
           /\ \A p \in Alive' : panel'[p].own =>
                (p \in Alive /\ panel[p].own) \/ ToLink(w, p)' \/ Torn'
<1>1. PanelStep /\ op \in [Workers -> Locals] /\ op[w] \in Locals /\ PanelInv
  BY InnerKept, OpFacts DEF InnerStep, SyncTypeInv
<1>2. op[w].pc = "commit" => Torn'
  <2>1. Killed(w) => "crash" \in mishaps'
    BY MishapGrows DEF Killed
  <2> QED BY <2>1 DEF Inner, Lock, CallUpdate, CallDelete, CallCreate, NotCreated, LookPull,
             LookPush, LookPullAll, CollectIds, CallErase, During, Torn
<1>3. ASSUME NEW p \in Alive, NEW x \in Subs, Tells(p, x), NEW q \in Alive', panel'[q].own
      PROVE  q \in Alive /\ panel[q].own
  BY <1>1, <1>3, TellsAlive, AliveFacts
<1>4. ASSUME NEW p \in Alive, RemovePanelUser(p), NEW q \in Alive', panel'[q].own
      PROVE  q \in Alive /\ panel[q].own
  BY <1>1, <1>4, RemoveAlive, AliveFacts
<1>5. CASE CallCreate(w)
  <2>1. Create(TRUE, Made(w)) /\ op[w].kind \in {"buy", "push"}
    BY <1>5 DEF CallCreate, During
  <2>2. PICK x \in Subs : x = Made(w)
    <3>1. op[w].sub \in Subs
      BY <1>1 DEF Locals
    <3>2. PICK s \in Subs : s = op[w].sub
      BY <3>1
    <3>3. [s EXCEPT !.status = "ACTIVE"] \in Subs
      BY DEF Subs
    <3> QED BY <3>2, <3>3 DEF Made
  <2>3. /\ Alive' = Alive \cup {Len(panel')} /\ \A q \in 1 .. Len(panel) : panel'[q] = panel[q]
    BY <1>1, <2>1, <2>2, CreateAlive
  <2>4. CASE Mishap("unanswered")
    BY <1>2, <2>4, MishapGrows DEF Torn
  <2>5. CASE op' = [op EXCEPT ![w].pc = "commit", ![w].remna = Len(panel'), ![w].sub = Made(w)]
    <3>1. op'[w].pc = "commit" /\ op'[w].remna = Len(panel') /\ op'[w].kind = op[w].kind
      BY <1>1, <2>5 DEF Locals
    <3>2. ToLink(w, Len(panel))'
      BY <2>1, <3>1 DEF ToLink
    <3> QED BY <1>2, <2>3, <3>2, AliveFacts
  <2> QED BY <1>5, <2>4, <2>5 DEF CallCreate
<1>6. CASE ~CallCreate(w)
  <2>1. \/ UNCHANGED panel \/ \E p \in Alive, x \in Subs : Tells(p, x)
        \/ \E p \in Alive : RemovePanelUser(p)
    <3>1. CASE CallUpdate(w)
      <4>1. panel' # panel => Len(panel') = Len(panel)
        BY <1>1, <3>1 DEF CallUpdate, PushTo, Update, Missing, Refused, PanelInv
      <4>2. ASSUME NEW own \in BOOLEAN, NEW x \in Subs, Create(own, x) PROVE FALSE
        BY <1>1, <4>1, <4>2, CreateAlive, AliveFacts
      <4> QED BY <1>1, <4>2 DEF PanelStep
    <3>2. CASE \/ Lock(w) \/ CallDelete(w) \/ NotCreated(w) \/ LookPull(w) \/ LookPush(w)
               \/ LookPullAll(w) \/ CollectIds(w) \/ CallErase(w) \/ Killed(w)
      BY <3>2 DEF Lock, CallDelete, NotCreated, LookPull, LookPush, LookPullAll, CollectIds,
                  CallErase, Killed, Refused, RemovePanelUser
    <3> QED BY <1>6, <3>1, <3>2 DEF Inner
  <2> QED BY <1>2, <1>3, <1>4, <2>1 DEF Alive
<1> QED BY <1>5, <1>6

LEMMA LinkCommit ==
    ASSUME SyncTypeInv, GoneInv, WholeInv, KnowsInv, BoundInv, EraseInv, LinkInv,
           NEW w \in Workers, Commit(w), marks' = {}
    PROVE  LinkInv'
<1>1. Commits(w) /\ op'[w] = Free /\ marks = {} /\ Moves(w) /\ Busy(w)
  BY CommitEffect DEF Commits
<1>2. /\ Aware(w) /\ (op[w].kind # "pullall" => account = op[w].of)
      /\ \A v \in Workers : Busy(v) => v = w
  BY <1>1, Alone DEF KnowsInv
<1>3. op[w] \in Locals /\ OpOK(op[w])
  BY OpFacts
<1>4. UNCHANGED <<panel, hooks, handler, mishaps>> /\ Alive' = Alive
  BY <1>1 DEF Commits, Alive
<1>5. op[w].kind # "pullall" /\ Kept(w) /\ account # None
  BY <1>2, <1>3, RowFacts DEF Commit, CommitUpdate, CommitInsert, CommitDelete, SyncOne,
     CommitErase, During, Kept, OpOK, HasRead
<1>6. /\ current \in {None, op[w].row}
      /\ current # None /\ ~During(w, "push", "commit") => rows[current].remna = op[w].remna
  BY <1>1, <1>5 DEF BoundInv
<1> SUFFICES ASSUME ~Torn, NEW p \in Alive, panel[p].own PROVE Linked(p)'
  BY <1>4 DEF LinkInv, Torn
<1>7. Linked(p) \/ ToLink(w, p)
  <2>1. Linked(p) \/ \E v \in Workers : ToLink(v, p)
    BY <1>1 DEF LinkInv
  <2> QED BY <1>2, <2>1 DEF ToLink, Busy
<1>8. CASE CommitUpdate(w)
  <2>1. Linked(p)
    BY <1>7, <1>8 DEF CommitUpdate, ToLink
  <2> QED BY <1>8, <2>1, UpdateEffect, RowFacts DEF Linked
<1>9. CASE CommitInsert(w)
  <2>1. /\ current' = Len(rows) + 1 /\ rows'[current'] = Row(op[w].remna, op[w].sub)
    BY <1>5, <1>9, InsertEffect
  <2>2. current' # None /\ rows'[current'].remna = op[w].remna
    BY <2>1, RowFacts DEF Row, None
  <2>3. op[w].remna = p
    BY <1>6, <1>7, <1>9 DEF Linked, ToLink, CommitInsert, During
  <2> QED BY <2>2, <2>3 DEF Linked
<1>10. CASE CommitDelete(w)
  <2>1. op[w].remna \notin Alive
    BY <1>2, <1>10 DEF Aware, CommitDelete
  <2>2. Linked(p)
    BY <1>7, <1>10 DEF CommitDelete, ToLink, During
  <2>3. rows[current].remna = op[w].remna
    BY <1>6, <1>10, <2>2 DEF Linked, CommitDelete, During
  <2> QED BY <2>1, <2>2, <2>3 DEF Linked
<1>11. CASE SyncOne(w)
  <2>1. SyncedTo(op[w].remna, op[w].sub)
    BY <1>5, <1>11, SyncOneEffect
  <2>2. current' # None /\ rows'[current'].remna = op[w].remna
    <3>1. rows'[current'] = Row(op[w].remna, op[w].sub) /\ current' \in 1 .. Len(rows')
      BY <2>1 DEF SyncedTo
    <3> QED BY <3>1 DEF Row, None
  <2>3. CASE During(w, "push", "commit")
    <3>1. op[w].remna \in Alive /\ panel[op[w].remna].own
      BY <1>2, <2>3 DEF Aware, Has, During
    <3>2. op[w].remna = p
      BY <3>1 DEF GoneInv
    <3> QED BY <2>2, <3>2 DEF Linked
  <2>4. CASE During(w, "pull", "sync")
    <3>1. Linked(p)
      BY <1>7, <2>4 DEF ToLink, During
    <3>2. rows[current].remna = op[w].remna
      BY <1>6, <2>4, <3>1 DEF Linked, During
    <3> QED BY <2>2, <3>1, <3>2 DEF Linked
  <2> QED BY <1>11, <2>3, <2>4, SyncOneEffect
<1>12. CASE CommitErase(w)
  <2>1. During(w, "erase", "panel") /\ op[w].ids = {}
    BY <1>12, EraseEffect
  <2>2. \A r \in 1 .. Len(rows) : rows[r].remna \notin Alive
    BY <1>1, <2>1 DEF EraseInv
  <2>3. Linked(p)
    BY <1>7, <2>1 DEF ToLink, During
  <2> QED BY <2>2, <2>3, RowFacts DEF Linked
<1> QED BY <1>8, <1>9, <1>10, <1>11, <1>12 DEF Commit

LEMMA LinkKept ==
    ASSUME SyncTypeInv, GoneInv, WholeInv, KnowsInv, BoundInv, EraseInv, LinkInv,
           [SyncNext]_syncVars
    PROVE  LinkInv'
\* What is linked stays so, and so does what is to be.
<1>1. ASSUME marks \subseteq marks', mishaps \subseteq mishaps',
             \A p \in Alive' : panel'[p].own => p \in Alive /\ panel[p].own,
             \A p \in Alive : marks' = {} /\ Linked(p) => Linked(p)',
             \A v \in Workers, p \in Alive : ToLink(v, p) => ToLink(v, p)'
      PROVE  LinkInv'
  BY <1>1 DEF LinkInv, Torn
<1>2. ASSUME NEW w \in Workers, Begins(w) PROVE LinkInv'
  <2>1. PICK kind \in Kinds, pc \in {"lock", "panel", "look", "ids"}, x \in Subs :
          Begin(w, kind, pc, x)
    BY <1>2 DEF Begins
  <2>2. /\ ~Busy(w) /\ UNCHANGED <<store, panel, mishaps>> /\ marks \subseteq marks'
        /\ \A v \in Workers \ {w} : op'[v] = [op[v] EXCEPT !.whole = FALSE]
    BY <2>1, BeginSets
  <2>3. \A v \in Workers \ {w} : /\ op'[v].pc = op[v].pc /\ op'[v].kind = op[v].kind
                                 /\ op'[v].remna = op[v].remna
    BY <2>2, OpFacts DEF Locals
  <2>4. \A v \in Workers, p \in Alive : ToLink(v, p) => ToLink(v, p)'
    BY <2>2, <2>3 DEF ToLink, Busy
  <2> QED BY <1>1, <2>2, <2>4 DEF Alive, Linked, store
<1>3. ASSUME NEW w \in Workers, Inner(w) PROVE LinkInv'
  <2>1. /\ UNCHANGED <<store, marks>> /\ mishaps \subseteq mishaps' /\ Moves(w)
    BY <1>3, InnerKept DEF InnerStep, WorkStep
  <2>2. /\ op[w].pc = "commit" => Torn'
        /\ \A p \in Alive' : panel'[p].own =>
             (p \in Alive /\ panel[p].own) \/ ToLink(w, p)' \/ Torn'
    BY <1>3, InnerLink
  <2>3. \A v \in Workers, p \in Alive : ToLink(v, p) => ToLink(v, p)' \/ Torn'
    BY <2>1, <2>2 DEF ToLink, Moves
  <2>4. \A p \in Alive : Linked(p) => Linked(p)'
    BY <2>1 DEF Linked, store
  <2> QED BY <2>1, <2>2, <2>3, <2>4 DEF LinkInv, Torn
<1>4. ASSUME NEW w \in Workers, Commit(w) PROVE LinkInv'
  BY <1>4, LinkCommit DEF LinkInv
<1>5. ASSUME NEW w \in Workers, SyncEach(w) PROVE LinkInv'
  <2>1. /\ Noted(FALSE) /\ UNCHANGED <<panel, mishaps>> /\ Moves(w)
        /\ During(w, "pullall", "sync")
        /\ UNCHANGED store \/ \E h \in op[w].seen : SyncedTo(h.id, h.sub)
    BY <1>5, SyncEachEffect
  <2>2. \A p \in Alive : marks' = {} /\ Linked(p) => Linked(p)'
    BY <2>1 DEF Noted, Linked, store, SyncedTo
  <2>3. \A v \in Workers, p \in Alive : ToLink(v, p) => ToLink(v, p)'
    BY <2>1 DEF ToLink, Moves, During
  <2> QED BY <1>1, <2>1, <2>2, <2>3 DEF Noted, Alive
<1>6. CASE Register
  BY <1>1, <1>6, RegisterEffect DEF Linked, ToLink, Alive
<1>7. CASE ByHand
  <2>1. /\ UNCHANGED <<store, mishaps>> /\ marks \subseteq marks'
        /\ \/ \E p \in Alive, x \in Subs : Tells(p, x)
           \/ \E x \in Subs : Create(FALSE, x)
           \/ \E p \in Alive : RemovePanelUser(p)
        /\ \A v \in Workers : op'[v] = [op[v] EXCEPT !.whole = ~Busy(v)]
    BY <1>7, HandEffect
  <2>2. \A v \in Workers : /\ op'[v].pc = op[v].pc /\ op'[v].kind = op[v].kind
                           /\ op'[v].remna = op[v].remna
    BY <2>1, OpFacts DEF Locals
  <2>3. ASSUME NEW q \in Alive', panel'[q].own PROVE q \in Alive /\ panel[q].own
    <3>1. PanelInv
      BY DEF SyncTypeInv
    <3>2. CASE \E p \in Alive, x \in Subs : Tells(p, x)
      BY <2>3, <3>1, <3>2, TellsAlive, AliveFacts
    <3>3. CASE \E x \in Subs : Create(FALSE, x)
      BY <2>3, <3>1, <3>3, CreateAlive, AliveFacts
    <3>4. CASE \E p \in Alive : RemovePanelUser(p)
      BY <2>3, <3>1, <3>4, RemoveAlive, AliveFacts
    <3> QED BY <2>1, <3>2, <3>3, <3>4
  <2> QED BY <1>1, <2>1, <2>2, <2>3 DEF Linked, ToLink, store
<1>8. CASE Deliver
  <2>1. /\ UNCHANGED <<panel, op>> /\ Noted(\E w \in Workers : Busy(w))
        /\ mishaps \subseteq mishaps'
    BY <1>8, DeliverEffect
  <2>2. PICK k \in 1 .. Len(hooks) : HandledAs(hooks[k])
    BY <1>8, DeliverEffect
  <2>3. current # None => current' = current
    BY <2>2 DEF HandledAs, store, SyncedTo
  <2>4. \A p \in Alive : marks' = {} /\ Linked(p) => Linked(p)'
    BY <2>1, <2>3 DEF Noted, Linked
  <2> QED BY <1>1, <2>1, <2>4 DEF Noted, ToLink, Alive
<1>9. CASE Unlink
  <2>1. /\ UNCHANGED <<panel, op, mishaps, marks>>
        /\ \/ /\ current' = current
              /\ current # None => rows'[current] = rows[current]
           \/ current' = None /\ current # None /\ rows[current].remna = handler
    BY <1>9, UnlinkEffect
  <2>2. \A p \in Alive : Linked(p) => Linked(p)'
    BY <2>1 DEF Linked, GoneInv
  <2> QED BY <1>1, <2>1, <2>2 DEF ToLink, Alive
<1>10. CASE Lose \/ UNCHANGED syncVars
  BY <1>1, <1>10, LoseEffect DEF Linked, ToLink, Alive, store, syncVars
<1> QED BY <1>2, <1>3, <1>4, <1>5, <1>6, <1>7, <1>8, <1>9, <1>10, StepCases

-----------------------------------------------------------------------------
(* The theorems.                                                            *)

LEMMA InitInv == SyncInit => SyncInv
<1> SUFFICES ASSUME SyncInit PROVE SyncInv
  OBVIOUS
<1>1. /\ account = 1 /\ current = 1 /\ hooks = <<>> /\ handler = None /\ mishaps = {}
      /\ marks = {} /\ op = [w \in Workers |-> Free]
  BY DEF SyncInit
<1>2. /\ Len(rows) = 1 /\ Len(panel) = 1 /\ rows[1].remna = 1 /\ panel[1].alive
      /\ Data(rows[1]) = Data(panel[1])
  BY DEF SyncInit, Data
<1>3. Alive = {1} /\ Len(hooks) = 0
  BY <1>1, <1>2 DEF Alive
<1>4. \A w \in Workers : ~Busy(w) /\ op[w].kind = "none"
  BY <1>1 DEF Busy, Free
<1>5. GoneInv
  BY <1>1, <1>3 DEF GoneInv, None
<1>6. WholeInv /\ KnowsInv /\ BoundInv /\ EraseInv
  BY <1>4 DEF WholeInv, KnowsInv, BoundInv, EraseInv, During
<1>7. HookInv
  BY <1>3 DEF HookInv
<1>8. RowInv /\ LinkInv
  BY <1>1, <1>2, <1>3 DEF RowInv, LinkInv, Linked, None
<1> QED BY <1>5, <1>6, <1>7, <1>8, InitTypes DEF SyncInv

LEMMA NextInv == SyncInv /\ [SyncNext]_syncVars => SyncInv'
BY NextTypes, GoneKept, WholeKept, HookKept, KnowsKept, BoundKept, EraseKept, RowKept, LinkKept
   DEF SyncInv

LEMMA InvQuiet == SyncInv => InStepWhenQuiet
<1> SUFFICES ASSUME SyncInv PROVE InStepWhenQuiet
  OBVIOUS
<1>1. SyncTypeOK
  BY TypesMeanOK DEF SyncInv
<1>2. RowAgreesWhenQuiet
  <2> SUFFICES ASSUME hooks = <<>>, handler = None, marks = {}, ~Astray, current # None
               PROVE  Settled
    BY DEF RowAgreesWhenQuiet, AtRest, Agrees, Settled
  <2>1. ~Told(rows[current].remna)
    BY DEF Told
  <2>2. handler # rows[current].remna
    BY DEF SyncInv, SyncTypeInv, StoreInv
  <2> QED BY <2>1, <2>2 DEF SyncInv, RowInv, Settled
<1>3. LinkedWhenQuiet
  BY DEF LinkedWhenQuiet, AtRest, SyncInv, LinkInv, ToLink, Linked, Busy
<1> QED BY <1>1, <1>2, <1>3 DEF InStepWhenQuiet

\* Only a row whose user is gone is taken from a person.
LEMMA StepKeeps ==
    ASSUME SyncInv, [SyncNext]_syncVars
    PROVE  KeptWhileItLives
<1> SUFFICES ASSUME current # None, current' = None, account' = account, marks = {}
             PROVE  rows[current].remna \notin Alive
  BY DEF KeptWhileItLives
<1>1. SyncTypeInv /\ account # None
  BY DEF SyncInv, SyncTypeInv, StoreInv
<1>2. ASSUME NEW w \in Workers, Commit(w) PROVE rows[current].remna \notin Alive
  <2>1. Busy(w) /\ Aware(w)
    BY <1>1, <1>2, CommitEffect, Alone DEF SyncInv, KnowsInv, Commits
  <2>2. CASE CommitDelete(w)
    <3>1. During(w, "delete", "commit") \/ During(w, "pull", "gone")
      BY <2>2 DEF CommitDelete
    <3>2. rows[current].remna = op[w].remna
      BY <2>1, <3>1 DEF SyncInv, BoundInv, During
    <3> QED BY <2>1, <3>1, <3>2 DEF Aware
  <2>3. CASE CommitUpdate(w)
    BY <1>1, <2>3, UpdateEffect
  <2>4. CASE CommitInsert(w)
    BY <1>1, <2>4, InsertEffect, RowFacts DEF store, None
  <2>5. CASE SyncOne(w)
    BY <1>1, <2>5, SyncOneEffect, RowFacts DEF store, SyncedTo
  <2>6. CASE CommitErase(w)
    BY <1>1, <2>6, EraseEffect DEF store
  <2> QED BY <1>2, <2>2, <2>3, <2>4, <2>5, <2>6 DEF Commit
<1>3. ASSUME NEW w \in Workers, Begins(w) \/ Inner(w) \/ SyncEach(w) PROVE FALSE
  <2>1. ~Begins(w)
    BY <1>1, BeginSets DEF Begins, store
  <2>2. ~Inner(w)
    BY <1>1, InnerKept DEF InnerStep, store
  <2>3. ~SyncEach(w)
    BY <1>1, SyncEachEffect DEF store, SyncedTo
  <2> QED BY <1>3, <2>1, <2>2, <2>3
<1>4. ~Register /\ ~ByHand /\ ~Lose /\ ~UNCHANGED syncVars
  BY <1>1, RegisterEffect, HandEffect, LoseEffect DEF store, syncVars
<1>5. ~Deliver
  BY <1>1, DeliverEffect DEF HandledAs, store, SyncedTo
<1>6. CASE Unlink
  BY <1>1, <1>6, UnlinkEffect DEF SyncInv, GoneInv
<1> QED BY <1>1, <1>2, <1>3, <1>4, <1>5, <1>6, StepCases

\* Only its own commit ends the synchronisation of one subscription, if nothing kills it.
LEMMA StepSettles ==
    ASSUME SyncInv, [SyncNext]_syncVars
    PROVE  PullSettles
<1> SUFFICES ASSUME NEW w \in Workers, During(w, "pull", "sync"), op'[w].kind = "none",
                    op[w].whole, mishaps' = mishaps
             PROVE  current' # None /\ Agrees'
  BY DEF PullSettles
<1>1. SyncTypeInv /\ Busy(w) /\ Aware(w) /\ account = op[w].of /\ op[w].of # None
  <2>1. SyncTypeInv /\ Busy(w)
    BY DEF SyncInv, Busy, During
  <2> QED BY <2>1, OpFacts DEF SyncInv, KnowsInv, During, OpOK, HasRead
<1>2. op[w].kind = "pull" /\ op[w].pc = "sync"
  BY DEF During
<1>3. CASE SyncOne(w)
  <2>1. SyncedTo(op[w].remna, op[w].sub) /\ panel' = panel
    BY <1>1, <1>2, <1>3, SyncOneEffect DEF Commits
  <2>2. Has(w)
    BY <1>1 DEF Aware
  <2>3. op[w].sub \in Subs /\ Data(op[w].sub) = op[w].sub
    <3>1. op[w].sub \in Subs
      BY <1>1, OpFacts DEF Locals
    <3> QED BY <3>1, DataType
  <2>4. /\ current' # None /\ rows'[current'].remna = op[w].remna
        /\ Data(rows'[current']) = op[w].sub
    BY <2>1, <2>3 DEF SyncedTo, Row, Data, None
  <2> QED BY <2>1, <2>2, <2>4 DEF Agrees, Has, Alive
<1>4. ASSUME NEW v \in Workers, Begins(v) \/ Inner(v) \/ Commit(v) \/ SyncEach(v), v # w
      PROVE  FALSE
  <2>1. Begins(v) => op'[w].kind = op[w].kind
    <3>1. Begins(v) => op'[w] = [op[w] EXCEPT !.whole = FALSE]
      BY <1>1, <1>4, BeginSets DEF Begins
    <3> QED BY <1>1, <3>1, OpFacts DEF Locals
  <2>2. Inner(v) \/ Commit(v) \/ SyncEach(v) => Moves(v)
    BY <1>1, InnerKept, CommitEffect, SyncEachEffect DEF InnerStep, WorkStep
  <2> QED BY <1>2, <1>4, <2>1, <2>2 DEF Moves
<1>5. ~Begins(w)
  BY <1>1, BeginSets DEF Begins
<1>6. ~Inner(w)
  <2>1. ~Killed(w)
    BY DEF Killed, Mishap
  <2> QED BY <1>2, <2>1 DEF Inner, Lock, CallUpdate, CallDelete, CallCreate, NotCreated,
             LookPull, LookPush, LookPullAll, CollectIds, CallErase, During
<1>7. ~SyncEach(w) /\ (Commit(w) => SyncOne(w))
  BY <1>2 DEF SyncEach, Commit, CommitUpdate, CommitInsert, CommitDelete, CommitErase, During
<1>8. ~Register /\ ~Deliver /\ ~Unlink /\ ~Lose /\ ~UNCHANGED syncVars
  BY <1>1, <1>2, RegisterEffect, DeliverEffect, UnlinkEffect, LoseEffect DEF syncVars
<1>9. ~ByHand
  <2>1. ByHand => op'[w].kind = op[w].kind
    BY <1>1, HandEffect, OpFacts DEF Locals
  <2> QED BY <1>2, <2>1
<1> QED BY <1>1, <1>3, <1>4, <1>5, <1>6, <1>7, <1>8, <1>9, StepCases

\* An account is erased with every user of the panel that its rows have.
LEMMA StepErases ==
    ASSUME SyncInv, [SyncNext]_syncVars, account # None, account' = None,
           marks \subseteq {"adopted"}, ~Torn
    PROVE  /\ \A r \in 1 .. Len(rows) : rows[r].remna \notin Alive
           /\ marks = {} => ~NameHeld
<1>1. SyncTypeInv
  BY DEF SyncInv
<1>2. ASSUME NEW w \in Workers, CommitErase(w)
      PROVE  /\ \A r \in 1 .. Len(rows) : rows[r].remna \notin Alive
             /\ marks = {} => ~NameHeld
  <2>1. During(w, "erase", "panel") /\ op[w].ids = {}
    BY <1>1, <1>2, EraseEffect
  <2>2. \A r \in 1 .. Len(rows) : rows[r].remna \notin Alive
    BY <2>1 DEF SyncInv, EraseInv
  <2>3. ASSUME marks = {}, NEW p \in Alive, panel[p].own PROVE FALSE
    <3>1. ~Linked(p)
      BY <1>1, <2>2, RowFacts DEF Linked
    <3>2. PICK v \in Workers : ToLink(v, p)
      BY <2>3, <3>1 DEF SyncInv, LinkInv
    <3>3. v = w
      BY <2>1, <2>3, <3>2, Alone DEF SyncInv, Busy, During, ToLink
    <3> QED BY <2>1, <3>2, <3>3 DEF During, ToLink
  <2> QED BY <2>2, <2>3 DEF NameHeld
<1>3. ASSUME NEW w \in Workers, Begins(w) \/ Inner(w) \/ SyncEach(w) PROVE FALSE
  <2>1. ~Begins(w)
    BY <1>1, BeginSets DEF Begins, store
  <2>2. ~Inner(w)
    BY <1>1, InnerKept DEF InnerStep, store
  <2>3. ~SyncEach(w)
    BY <1>1, SyncEachEffect DEF store, SyncedTo
  <2> QED BY <1>3, <2>1, <2>2, <2>3
<1>4. ASSUME NEW w \in Workers, Commit(w) PROVE CommitErase(w)
  BY <1>1, <1>4, UpdateEffect, InsertEffect, DeleteEffect, SyncOneEffect
     DEF Commit, store, SyncedTo
<1>5. /\ ~Register /\ ~ByHand /\ ~Deliver /\ ~Unlink /\ ~Lose /\ ~UNCHANGED syncVars
  <2>1. ~Deliver
    BY <1>1, DeliverEffect DEF HandledAs, store, SyncedTo
  <2> QED BY <1>1, <2>1, RegisterEffect, HandEffect, UnlinkEffect, LoseEffect
          DEF store, syncVars
<1> QED BY <1>1, <1>2, <1>3, <1>4, <1>5, StepCases

\* Once all is delivered the current subscription is one the panel has, with the same
\* terms, and the user the shop made in the panel is the one of the current
\* subscription, whatever was done on either side before (SyncRemnaUser, _process_sync,
\* _process_status).
THEOREM InStepAlways == SyncSpec => []InStepWhenQuiet
BY InitInv, NextInv, InvQuiet, PTL DEF SyncSpec

\* A webhook takes no subscription that the panel still has, however late it comes
\* (_process_delete_subscription), and a synchronisation from the panel that nothing
\* disturbs leaves the subscription as the panel has it (SyncSubscriptionFromRemnawave).
THEOREM SyncAlwaysKeeps == SyncSpec => SyncKeeps
<1>1. SyncInv /\ [SyncNext]_syncVars => [KeptWhileItLives /\ PullSettles]_syncVars
  BY StepKeeps, StepSettles
<1> QED BY <1>1, InitInv, NextInv, PTL DEF SyncSpec, SyncKeeps

\* With an account go the users of the panel of all its subscriptions, and with them the
\* name (DeleteUser).
THEOREM ErasureIsWhole == SyncSpec => ErasureFreesTheName
<1>1. SyncInv /\ [SyncNext]_syncVars
        => [account # None /\ account' = None /\ marks \subseteq {"adopted"} /\ ~Torn
            => /\ \A r \in 1 .. Len(rows) : rows[r].remna \notin Alive
               /\ marks = {} => ~NameHeld]_syncVars
  BY StepErases
<1> QED BY <1>1, InitInv, NextInv, PTL DEF SyncSpec, ErasureFreesTheName

=============================================================================
