---------------------------- MODULE TrialsProofs ----------------------------
(* Theorems of Trials for any requests, broadcasts, terms and faults.       *)
EXTENDS Trials, FiniteSetTheorems, SequenceTheorems, TLAPS

(***************************************************************************)
(* The inductive invariant: the types, the rows, what an operation in      *)
(* flight relies on, what the panel's webhooks on their way will bring,    *)
(* and a bound on every expiry that anything still holds.                  *)
(***************************************************************************)

Hooks == [kind : {"modified"}, exp : Nat] \cup [kind : {"first"}, exp : {None}]

RequestType ==
    [pc : {"idle", "panel", "commit", "claim", "read"},
     kind : {"none", "start", "bonus", "first", "buy"},
     of : Broadcasts \cup {None, "trial", "paid"}, seen : Nat \cup {None}, to : Nat \cup {None}]

\* Each kind of operation has its own steps, and knows what it has computed.
Steps(q) ==
    /\ q.kind = "none" <=> q.pc = "idle"
    /\ q.kind \in {"start", "buy"} => q.pc \in {"panel", "commit"}
    /\ q.kind = "bonus" =>
          q.pc \in {"claim", "panel", "commit"} /\ q.of \in Broadcasts /\ q.seen \in Nat
    /\ q.kind = "first" => q.pc \in {"read", "panel", "commit"}
    /\ q.kind = "first" /\ q.pc # "read" => q.of \in {"trial", "paid"}
    /\ q.pc = "commit" \/ (q.pc = "panel" /\ q.kind # "start") => q.to \in Nat
    /\ q.kind = "buy" => q.to >= Term

ReqInv == req \in [Requests -> RequestType] /\ \A r \in Requests : Steps(req[r])

DataInv ==
    /\ now \in 0..MaxTime
    /\ available \in BOOLEAN /\ connected \in BOOLEAN /\ restarted \in BOOLEAN
    /\ rows \in [{"trial", "paid"} -> {None} \cup Row]
    /\ current \in {None, "trial", "paid"} /\ panel \in Nat \cup {None}
    /\ claimed \subseteq Broadcasts

CountInv ==
    /\ trials \in Nat /\ bonuses \in Nat
    /\ restart \in Nat \cup {None} /\ bought \in Nat \cup {None}
    /\ excused \subseteq {"clash", "revived", "buying"}
    /\ begun \in 0..MaxBegun /\ faults \subseteq Faults

TypeInv == DataInv /\ hooks \in Seq(Hooks) /\ ReqInv /\ CountInv

Untold == {k \in DOMAIN hooks : hooks[k].kind = "modified"}

\* A row once written stays; the paid one is the current one from the purchase on.
RowInv ==
    /\ current = None <=> rows.trial = None
    /\ rows.paid # None <=> bought # None
    /\ current = "paid" <=> bought # None
    /\ trials = IF current = None THEN 0 ELSE 1
    /\ current # None => panel # None
    /\ current = None => Untold = {}
    /\ rows.trial # None => rows.trial.created <= now

Acting(q) == q.kind \in {"bonus", "first", "buy"}

\* What an operation that acts on the subscription can rely on when it goes on.
OpInv ==
    /\ \A r \in Requests : Acting(req[r]) => current # None
    /\ \A r \in Requests : req[r].kind = "first" /\ req[r].pc # "read" => rows[req[r].of] # None
    /\ \A r \in Requests : req[r].kind = "buy" => current = "trial" /\ "buying" \in excused
    /\ \A r, s \in Requests : req[r].kind = "buy" /\ req[s].kind = "buy" => r = s
    /\ bought # None => "buying" \in excused

\* The panel's user is made once.
StartInv ==
    /\ \A r \in Requests : At(r, "start", "commit") => current = None /\ panel # None
    /\ \A r, s \in Requests : At(r, "start", "commit") /\ At(s, "start", "commit") => r = s

\* A claim that is held is nobody else's, and every bonus took one.
ClaimInv ==
    /\ \A r \in Holding("bonus") : req[r].of \notin claimed
    /\ \A r, s \in Holding("bonus") : req[r].of = req[s].of => r = s
    /\ bonuses = Cardinality(claimed)

RestartInv ==
    /\ restart # None => restarted
    /\ \A r \in Holding("first") : ~restarted
    /\ \A r, s \in Holding("first") : r = s

\* While no two operations that compute from one subscription overlap, the panel has what
\* the one about to commit has sent it.
CalmInv == "clash" \notin excused =>
    /\ \A r, s \in Requests : req[s].kind # "none" => ~Clash(req[r], req[s])
    /\ \A r \in Requests : Acting(req[r]) => current = "trial"
    /\ \A r \in Requests : req[r].pc = "commit" => req[r].to = panel
    /\ bought # None => panel = bought + Term

LastTold(k) == k \in Untold /\ \A j \in Untold : j <= k

\* The last change on its way is what the panel has, and with none the row has it.
FollowInv == "clash" \notin excused /\ ~Astray /\ current # None =>
    /\ \A k \in Untold : LastTold(k) => hooks[k].exp = panel
    /\ Untold = {} => rows[current].exp = panel

FirstHooks == {k \in DOMAIN hooks : hooks[k].kind = "first"}
FirstOps   == {r \in Requests : req[r].kind = "first"}

\* Unless the panel repeats itself, the first connection is told and handled once.
FirstInv == "again" \notin faults =>
    /\ ~connected => FirstHooks = {} /\ FirstOps = {}
    /\ FirstHooks = {} \/ FirstOps = {}
    /\ \A j, k \in FirstHooks : j = k
    /\ \A r, s \in FirstOps : r = s

\* Bonuses granted, those that a fault may have left on the panel, and those under way.
Weight == bonuses + Cardinality(faults) + Cardinality(Holding("bonus"))

Allowance == Granted + Bonus * Weight

\* An operation knows of no expiry beyond x, but the one a restart computes.
Under(q, x) ==
    /\ q.kind = "bonus" => q.seen <= x
    /\ q.kind = "bonus" /\ q.pc \in {"panel", "commit"} => q.to <= x
    /\ q.kind = "start" /\ q.pc = "commit" => q.to <= x

Bounded(x) ==
    /\ rows.trial # None => rows.trial.exp <= x
    /\ \A k \in Untold : hooks[k].exp <= x
    /\ \A r \in Requests : Under(req[r], x)

Modest == excused \cap {"revived", "buying"} = {} /\ ~RestartRepeated

Unread == ~connected \/ FirstHooks # {} \/ \E r \in Requests : At(r, "first", "read")

\* The panel has not been told of a restart.
Untouched ==
    /\ ~restarted /\ \A r \in Requests : ~At(r, "first", "commit")
    /\ faults \cap {"unanswered", "crash"} = {} \/ ("again" \notin faults /\ Unread)

\* No expiry is further off than what was granted; before the restart, further from the
\* day the trial began, which is what the restart measures.
BoundInv == Modest =>
    /\ Bounded(now + Allowance)
    /\ \A r \in Holding("first") : req[r].to <= now + Allowance
    /\ Untouched /\ rows.trial # None => Bounded(rows.trial.created + Allowance)

IInv ==
    /\ TypeInv /\ RowInv /\ OpInv /\ StartInv /\ ClaimInv /\ RestartInv
    /\ CalmInv /\ FollowInv /\ FirstInv /\ BoundInv

-----------------------------------------------------------------------------
(* How a step changes the operations.                                       *)

Only(r) == \A o \in Requests \ {r} : req'[o] = req[o]

LEMMA PutReq ==
    ASSUME ReqInv, NEW r \in Requests, NEW q \in RequestType, Steps(q),
           req' = [req EXCEPT ![r] = q]
    PROVE  ReqInv' /\ Only(r) /\ req'[r] = q
<1>1. req' \in [Requests -> RequestType] /\ Only(r) /\ req'[r] = q
  BY DEF ReqInv, Only
<1>2. ASSUME NEW o \in Requests PROVE Steps(req'[o])
  BY <1>1 DEF ReqInv, Only
<1> QED BY <1>1, <1>2 DEF ReqInv, Steps

LEMMA Typed ==
    ASSUME TypeInv, NEW r \in Requests
    PROVE  req[r] \in RequestType /\ Steps(req[r])
BY DEF TypeInv, ReqInv

LEMMA IdleType == /\ Idle \in RequestType /\ Steps(Idle)
                  /\ Idle.kind = "none" /\ Idle.pc = "idle"
                  /\ \A x : Under(Idle, x)
BY DEF Idle, RequestType, Steps, Under

LEMMA DropMove ==
    ASSUME TypeInv, NEW r \in Requests, Drop(r)
    PROVE  ReqInv' /\ Only(r) /\ req'[r] = Idle
BY IdleType, PutReq DEF Drop, TypeInv

LEMMA CommitMove ==
    ASSUME TypeInv, NEW r \in Requests, req' = [req EXCEPT ![r].pc = "commit"],
           req[r].pc = "panel", req[r].kind # "start"
    PROVE  /\ ReqInv' /\ Only(r) /\ req'[r].pc = "commit"
           /\ req'[r].kind = req[r].kind /\ req'[r].of = req[r].of
           /\ req'[r].seen = req[r].seen /\ req'[r].to = req[r].to
<1> DEFINE q == [req[r] EXCEPT !.pc = "commit"]
<1>1. req[r] \in RequestType /\ Steps(req[r])
  BY Typed
<1>2. /\ q \in RequestType /\ q.pc = "commit" /\ q.kind = req[r].kind /\ q.of = req[r].of
      /\ q.seen = req[r].seen /\ q.to = req[r].to
  BY <1>1 DEF RequestType
<1>3. req' = [req EXCEPT ![r] = q]
  BY DEF TypeInv, ReqInv
<1> HIDE DEF q
<1>4. Steps(q)
  BY <1>1, <1>2 DEF Steps
<1> QED BY <1>2, <1>3, <1>4, PutReq DEF TypeInv

LEMMA BeginMove ==
    ASSUME TypeInv, NEW r \in Requests, NEW q \in RequestType, Steps(q), Begin(r, q)
    PROVE  /\ ReqInv' /\ Only(r) /\ req'[r] = q /\ req[r].kind = "none"
           /\ begun' \in 0..MaxBegun
           /\ excused' \subseteq {"clash", "revived", "buying"} /\ excused \subseteq excused'
           /\ "clash" \notin excused' => \A o \in Requests : ~Clash(req[o], q)
           /\ q.kind = "buy" => "buying" \in excused'
<1>1. req[r].kind = "none"
  BY Typed DEF Begin, Steps
<1>2. ReqInv' /\ Only(r) /\ req'[r] = q
  BY PutReq DEF Begin, TypeInv
<1>3. begun' \in 0..MaxBegun
  BY TrialsAssumption DEF Begin, TypeInv, CountInv
<1>4. excused' = excused \cup (IF q.kind = "buy" THEN {"buying"} ELSE {})
          \cup (IF \E o \in Requests : Clash(req[o], q) THEN {"clash"} ELSE {})
  BY DEF Begin
<1>5. /\ excused' \subseteq {"clash", "revived", "buying"} /\ excused \subseteq excused'
      /\ "clash" \notin excused' => \A o \in Requests : ~Clash(req[o], q)
      /\ q.kind = "buy" => "buying" \in excused'
  BY <1>4 DEF TypeInv, CountInv
<1> QED BY <1>1, <1>2, <1>3, <1>5

-----------------------------------------------------------------------------
(* How a step changes the webhooks on their way.                            *)

\* hooks' is hooks without the k-th.
Without(k) ==
    /\ hooks' \in Seq(Hooks) /\ Len(hooks') = Len(hooks) - 1
    /\ \A i \in 1..(Len(hooks) - 1) : hooks'[i] = IF i < k THEN hooks[i] ELSE hooks[i + 1]

LEMMA RemoveAtProperties ==
    ASSUME NEW S, NEW s \in Seq(S), NEW k \in 1..Len(s)
    PROVE  /\ RemoveAt(s, k) \in Seq(S) /\ Len(RemoveAt(s, k)) = Len(s) - 1
           /\ \A i \in 1..(Len(s) - 1) :
                 RemoveAt(s, k)[i] = IF i < k THEN s[i] ELSE s[i + 1]
<1> DEFINE a == SubSeq(s, 1, k - 1)
           b == SubSeq(s, k + 1, Len(s))
<1>1. a \in Seq(S) /\ Len(a) = k - 1 /\ \A i \in 1..(k - 1) : a[i] = s[i]
  BY SubSeqProperties
<1>2. b \in Seq(S) /\ Len(b) = Len(s) - k /\ \A i \in 1..(Len(s) - k) : b[i] = s[k + i]
  BY SubSeqProperties
<1>3. RemoveAt(s, k) = a \o b
  BY DEF RemoveAt
<1> HIDE DEF a, b
<1>4. /\ a \o b \in Seq(S) /\ Len(a \o b) = Len(s) - 1
      /\ \A i \in 1..(Len(s) - 1) : (a \o b)[i] = IF i <= k - 1 THEN a[i] ELSE b[i - (k - 1)]
  BY <1>1, <1>2, ConcatProperties
<1>5. ASSUME NEW i \in 1..(Len(s) - 1), i >= k PROVE (a \o b)[i] = s[i + 1]
  <2>1. (a \o b)[i] = b[i - (k - 1)]
    BY <1>4, <1>5
  <2>2. i - (k - 1) \in 1..(Len(s) - k) /\ k + (i - (k - 1)) = i + 1
    BY <1>5
  <2> QED BY <1>2, <2>1, <2>2
<1>6. ASSUME NEW i \in 1..(Len(s) - 1), i < k PROVE (a \o b)[i] = s[i]
  BY <1>1, <1>4, <1>6
<1> QED BY <1>3, <1>4, <1>5, <1>6

LEMMA WithoutFirst ==
    ASSUME TypeInv, hooks # <<>>, hooks' = Tail(hooks)
    PROVE  Without(1) /\ 1 \in DOMAIN hooks
<1>1. hooks \in Seq(Hooks)
  BY DEF TypeInv
<1>2. Len(hooks) \in Nat \ {0} /\ DOMAIN hooks = 1..Len(hooks)
  BY <1>1, EmptySeq, LenProperties
<1> QED BY <1>1, <1>2, HeadTailProperties DEF Without

LEMMA WithoutLater ==
    ASSUME TypeInv, NEW k \in 2..Len(hooks), hooks' = RemoveAt(hooks, k)
    PROVE  Without(k)
<1>1. hooks \in Seq(Hooks) /\ Len(hooks) \in Nat
  BY LenProperties DEF TypeInv
<1>2. k \in 1..Len(hooks)
  BY <1>1
<1> QED BY <1>1, <1>2, RemoveAtProperties DEF Without

\* What is left was there.
LEMMA WithoutSub ==
    ASSUME TypeInv, NEW k \in DOMAIN hooks, Without(k)
    PROVE  /\ \A i \in DOMAIN hooks' : i \in DOMAIN hooks /\ i + 1 \in DOMAIN hooks
                                       /\ hooks'[i] = IF i < k THEN hooks[i] ELSE hooks[i + 1]
           /\ \A i \in DOMAIN hooks' : \E j \in DOMAIN hooks : hooks'[i] = hooks[j]
<1>1. hooks \in Seq(Hooks) /\ Len(hooks) \in Nat /\ DOMAIN hooks = 1..Len(hooks)
  BY LenProperties DEF TypeInv
<1>2. DOMAIN hooks' = 1..(Len(hooks) - 1)
  BY <1>1, LenProperties DEF Without
<1>3. ASSUME NEW i \in DOMAIN hooks'
      PROVE  /\ i \in DOMAIN hooks /\ i + 1 \in DOMAIN hooks
             /\ hooks'[i] = IF i < k THEN hooks[i] ELSE hooks[i + 1]
  BY <1>1, <1>2, <1>3 DEF Without
<1> QED BY <1>3

\* One more at the end.
LEMMA AppendMove ==
    ASSUME TypeInv, NEW h \in Hooks, hooks' = Append(hooks, h)
    PROVE  /\ hooks' \in Seq(Hooks)
           /\ DOMAIN hooks' = DOMAIN hooks \cup {Len(hooks) + 1}
           /\ Len(hooks) + 1 \notin DOMAIN hooks /\ hooks'[Len(hooks) + 1] = h
           /\ \A i \in DOMAIN hooks : hooks'[i] = hooks[i] /\ i \in Nat /\ i < Len(hooks) + 1
<1>1. hooks \in Seq(Hooks) /\ Len(hooks) \in Nat /\ DOMAIN hooks = 1..Len(hooks)
  BY LenProperties DEF TypeInv
<1>2. /\ hooks' \in Seq(Hooks) /\ Len(hooks') = Len(hooks) + 1
      /\ \A i \in 1..Len(hooks) : hooks'[i] = hooks[i]
      /\ hooks'[Len(hooks) + 1] = h
  BY <1>1, AppendProperties
<1>3. DOMAIN hooks' = 1..(Len(hooks) + 1)
  BY <1>1, <1>2, LenProperties
<1> QED BY <1>1, <1>2, <1>3

-----------------------------------------------------------------------------
(* Operations that begin, and operations that end without a commit.         *)

LEMMA BeginOps ==
    ASSUME IInv, NEW r \in Requests, NEW q \in RequestType, Steps(q), Begin(r, q),
           q.pc # "commit", q.pc = "panel" => q.kind \in {"start", "buy"},
           Acting(q) => current = "trial",
           q.kind = "buy" => bought = None /\ \A o \in Requests : req[o].kind # "buy",
           UNCHANGED <<rows, current, panel, restarted, claimed, bonuses, restart, bought>>
    PROVE  OpInv' /\ StartInv' /\ ClaimInv' /\ RestartInv' /\ CalmInv'
<1>1. /\ Only(r) /\ req'[r] = q /\ req[r].kind = "none" /\ excused \subseteq excused'
      /\ "clash" \notin excused' => \A o \in Requests : ~Clash(req[o], q)
      /\ q.kind = "buy" => "buying" \in excused'
  BY BeginMove DEF IInv
<1>2. q.pc = "read" => q.kind = "first"
  BY DEF Steps, RequestType
<1>3. q.kind = "first" => q.pc = "read"
  BY DEF Steps, RequestType
<1>4. OpInv'
  BY <1>1, <1>3, TrialsAssumption DEF IInv, OpInv, Acting, Only
<1>5. \A k : Holding(k)' = Holding(k) \/ k \in {"start", "buy"}
  <2> SUFFICES ASSUME NEW k, k \notin {"start", "buy"} PROVE Holding(k)' = Holding(k)
    OBVIOUS
  <2>1. r \notin Holding(k) /\ r \notin Holding(k)'
    <3>1. req[r].pc = "idle"
      BY <1>1, Typed DEF IInv, Steps
    <3> QED BY <1>1, <3>1 DEF Holding
  <2>2. \A o \in Requests \ {r} : o \in Holding(k)' <=> o \in Holding(k)
    BY <1>1 DEF Holding, Only
  <2>3. Holding(k) \subseteq Requests /\ Holding(k)' \subseteq Requests
    BY DEF Holding
  <2> QED BY <2>1, <2>2, <2>3
<1>6. StartInv'
  BY <1>1 DEF IInv, StartInv, At, Only
<1>7. ClaimInv' /\ RestartInv'
  BY <1>1, <1>5 DEF IInv, ClaimInv, RestartInv, Holding, Only
<1>8. CalmInv'
  <2> SUFFICES ASSUME "clash" \notin excused' PROVE CalmInv' BY DEF CalmInv
  <2>1. CalmInv /\ "clash" \notin excused
    BY <1>1 DEF IInv
  <2>2. ~Clash(req[r], q) /\ \A o \in Requests : ~Clash(req[o], q)
    BY <1>1
  <2>3. \A o, t \in Requests : req'[t].kind # "none" => ~Clash(req'[o], req'[t])
    BY <1>1, <2>1, <2>2 DEF CalmInv, Clash, Only
  <2>4. \A o \in Requests : Acting(req'[o]) => current' = "trial"
    BY <1>1, <2>1 DEF CalmInv, Only
  <2>5. \A o \in Requests : req'[o].pc = "commit" => req'[o].to = panel'
    BY <1>1, <2>1 DEF CalmInv, Only
  <2>6. bought' # None => panel' = bought' + Term
    BY <2>1 DEF CalmInv
  <2> QED BY <2>3, <2>4, <2>5, <2>6 DEF CalmInv
<1> QED BY <1>4, <1>6, <1>7, <1>8

\* The operation is gone, and the panel has at most been told what it sent.
LEMMA DropOps ==
    ASSUME IInv, NEW r \in Requests, Drop(r), excused' = excused,
           panel # None => panel' # None,
           "clash" \notin excused =>
              /\ \A o \in Requests \ {r} : req[o].pc = "commit" => req[o].to = panel'
              /\ bought # None => panel' = panel,
           UNCHANGED <<rows, current, restarted, claimed, bonuses, restart, bought>>
    PROVE  OpInv' /\ StartInv' /\ ClaimInv' /\ RestartInv' /\ CalmInv'
<1>1. Only(r) /\ req'[r] = Idle
  BY DropMove DEF IInv
<1>2. Idle.kind = "none" /\ Idle.pc = "idle"
  BY IdleType
<1>3. OpInv'
  BY <1>1, <1>2 DEF IInv, OpInv, Acting, Only
<1>4. StartInv'
  BY <1>1, <1>2 DEF IInv, StartInv, At, Only
<1>5. ClaimInv' /\ RestartInv'
  BY <1>1, <1>2 DEF IInv, ClaimInv, RestartInv, Holding, Only
<1>6. CalmInv'
  <2> SUFFICES ASSUME "clash" \notin excused PROVE CalmInv' BY DEF CalmInv
  <2>1. \A o, t \in Requests : req'[t].kind # "none" => ~Clash(req'[o], req'[t])
    BY <1>1, <1>2 DEF IInv, CalmInv, Clash, Only
  <2>2. \A o \in Requests : Acting(req'[o]) => current' = "trial"
    BY <1>1, <1>2 DEF IInv, CalmInv, Only, Acting
  <2>3. \A o \in Requests : req'[o].pc = "commit" => req'[o].to = panel'
    BY <1>1, <1>2 DEF Only
  <2>4. bought' # None => panel' = bought' + Term
    BY DEF IInv, CalmInv
  <2> QED BY <2>1, <2>2, <2>3, <2>4 DEF CalmInv
<1> QED BY <1>3, <1>4, <1>5, <1>6

-----------------------------------------------------------------------------
(* The allowance.                                                           *)

LEMMA FaultKinds == IsFiniteSet({"refused", "unanswered", "crash", "lost", "late", "again"})
<1>1. IsFiniteSet({"refused"})
  BY FS_Singleton
<1>2. IsFiniteSet({"refused"} \cup {"unanswered"})
  BY <1>1, FS_AddElement
<1>3. IsFiniteSet({"refused"} \cup {"unanswered"} \cup {"crash"})
  BY <1>2, FS_AddElement
<1>4. IsFiniteSet({"refused"} \cup {"unanswered"} \cup {"crash"} \cup {"lost"})
  BY <1>3, FS_AddElement
<1>5. IsFiniteSet({"refused"} \cup {"unanswered"} \cup {"crash"} \cup {"lost"} \cup {"late"})
  BY <1>4, FS_AddElement
<1>6. IsFiniteSet({"refused"} \cup {"unanswered"} \cup {"crash"} \cup {"lost"} \cup {"late"}
                  \cup {"again"})
  BY <1>5, FS_AddElement
<1>7. {"refused", "unanswered", "crash", "lost", "late", "again"} =
      {"refused"} \cup {"unanswered"} \cup {"crash"} \cup {"lost"} \cup {"late"} \cup {"again"}
  OBVIOUS
<1> QED BY <1>6, <1>7

LEMMA Finite ==
    ASSUME CountInv
    PROVE  /\ IsFiniteSet(faults) /\ Cardinality(faults) \in Nat
           /\ \A k : IsFiniteSet(Holding(k)) /\ Cardinality(Holding(k)) \in Nat
<1>2. IsFiniteSet(faults)
  BY FaultKinds, TrialsAssumption, FS_Subset DEF CountInv
<1>3. \A k : IsFiniteSet(Holding(k))
  BY TrialsAssumption, FS_Subset DEF Holding
<1> QED BY <1>2, <1>3, FS_CardinalityType

LEMMA FaultCounts ==
    ASSUME CountInv, NEW k, Fault(k)
    PROVE  /\ faults' \subseteq Faults /\ faults' = faults \cup {k} /\ k \in Faults
           /\ Cardinality(faults') = Cardinality(faults) + 1
BY Finite, FS_AddElement DEF Fault, CountInv

LEMMA AllowanceIs ==
    ASSUME CountInv, CountInv'
    PROVE  /\ Weight \in Nat /\ Allowance \in Nat /\ Weight' \in Nat /\ Allowance' \in Nat
           /\ Weight <= Weight' => Allowance <= Allowance'
           /\ Weight + 1 <= Weight' => Allowance + Bonus <= Allowance'
<1>1. \A i, j \in Nat : i <= j => Bonus * i \in Nat /\ Bonus * i <= Bonus * j
  BY TrialsAssumption
<1>2. \A i \in Nat : Bonus * (i + 1) = Bonus * i + Bonus
  BY TrialsAssumption
<1>3. Weight \in Nat /\ bonuses \in Nat
  BY Finite DEF Weight, CountInv
<1>4. Weight' \in Nat
  <2>1. Cardinality(faults') \in Nat /\ Cardinality(Holding("bonus")') \in Nat
    <3>1. faults' \subseteq {"refused", "unanswered", "crash", "lost", "late", "again"}
      BY TrialsAssumption DEF CountInv
    <3>4. IsFiniteSet(faults')
      BY <3>1, FaultKinds, FS_Subset
    <3>5. IsFiniteSet(Holding("bonus")')
      BY TrialsAssumption, FS_Subset DEF Holding
    <3> QED BY <3>4, <3>5, FS_CardinalityType
  <2> QED BY <2>1 DEF Weight, CountInv
<1>5. Bonus * Weight \in Nat /\ Bonus * (Weight') \in Nat
  BY <1>1, <1>3, <1>4
<1>6. Weight <= Weight' => Bonus * Weight <= Bonus * (Weight')
  BY <1>1, <1>3, <1>4
<1>7. Weight + 1 <= Weight' => Bonus * Weight + Bonus <= Bonus * (Weight')
  <2> SUFFICES ASSUME Weight + 1 <= Weight' PROVE Bonus * Weight + Bonus <= Bonus * (Weight')
    OBVIOUS
  <2>1. Weight + 1 \in Nat
    BY <1>3
  <2>2. Bonus * (Weight + 1) <= Bonus * (Weight')
    BY <1>1, <1>4, <2>1
  <2> QED BY <1>2, <1>3, <2>2
<1> QED BY <1>3, <1>4, <1>5, <1>6, <1>7, TrialsAssumption DEF Allowance

\* The operation that leaves is counted elsewhere: as a bonus, or as a fault.
LEMMA WeightMove ==
    ASSUME CountInv, NEW r \in Requests, Only(r)
    PROVE  /\ r \in Holding("bonus") \/ r \notin Holding("bonus")' =>
                 Cardinality(Holding("bonus")') <= Cardinality(Holding("bonus"))
           /\ r \notin Holding("bonus") /\ r \in Holding("bonus")' =>
                 Cardinality(Holding("bonus")') = Cardinality(Holding("bonus")) + 1
           /\ r \in Holding("bonus") /\ r \notin Holding("bonus")' =>
                 Cardinality(Holding("bonus")') = Cardinality(Holding("bonus")) - 1
           /\ (r \in Holding("bonus") <=> r \in Holding("bonus")') =>
                 Holding("bonus")' = Holding("bonus")
<1>1. \A o \in Requests \ {r} : o \in Holding("bonus")' <=> o \in Holding("bonus")
  BY DEF Holding, Only
<1>2. Holding("bonus") \subseteq Requests /\ Holding("bonus")' \subseteq Requests
  BY DEF Holding
<1>3. IsFiniteSet(Holding("bonus")) /\ Cardinality(Holding("bonus")) \in Nat
  BY Finite
<1>4. CASE r \notin Holding("bonus") /\ r \in Holding("bonus")'
  <2>1. Holding("bonus")' = Holding("bonus") \cup {r}
    BY <1>1, <1>2, <1>4
  <2> QED BY <1>3, <1>4, <2>1, FS_AddElement
<1>5. CASE r \in Holding("bonus") /\ r \notin Holding("bonus")'
  <2>1. Holding("bonus")' = Holding("bonus") \ {r}
    BY <1>1, <1>2, <1>5
  <2>2. Cardinality(Holding("bonus")') = Cardinality(Holding("bonus")) - 1
    BY <1>3, <1>5, <2>1, FS_RemoveElement
  <2> QED BY <1>3, <1>5, <2>2
<1>6. CASE r \in Holding("bonus") <=> r \in Holding("bonus")'
  BY <1>1, <1>2, <1>3, <1>6
<1> QED BY <1>4, <1>5, <1>6

-----------------------------------------------------------------------------
(* The bound on what is left.                                               *)

LEMMA ModestMove ==
    ASSUME excused \subseteq excused', faults \subseteq faults', Modest'
    PROVE  Modest
BY DEF Modest, RestartRepeated

LEMMA BoundedMove ==
    ASSUME NEW x \in Int, NEW y \in Int, x <= y, TypeInv, Bounded(x),
           NEW r \in Requests, Only(r), Under(req'[r], y),
           rows'.trial # None => rows'.trial.exp <= y,
           \A k \in Untold' : hooks'[k].exp <= y
    PROVE  Bounded(y)'
<1>1. ASSUME NEW o \in Requests \ {r} PROVE Under(req'[o], y)
  <2>1. Under(req[o], x) /\ req'[o] = req[o]
    BY DEF Bounded, Only
  <2>2. req[o] \in RequestType /\ Steps(req[o])
    BY Typed
  <2>3. /\ req[o].kind = "bonus" => req[o].seen \in Int
        /\ req[o].kind = "bonus" /\ req[o].pc \in {"panel", "commit"} => req[o].to \in Int
        /\ req[o].kind = "start" /\ req[o].pc = "commit" => req[o].to \in Int
    BY <2>2 DEF Steps
  <2> QED BY <2>1, <2>3 DEF Under
<1> QED BY <1>1 DEF Bounded, Under

\* The same with rows and webhooks as they were.
LEMMA BoundedSame ==
    ASSUME NEW x \in Int, NEW y \in Int, x <= y, TypeInv, Bounded(x),
           NEW r \in Requests, Only(r), Under(req'[r], y), UNCHANGED <<rows, hooks>>
    PROVE  Bounded(y)'
<1>1. rows.trial # None => rows.trial.exp \in Int /\ rows.trial.exp <= x
  BY DEF TypeInv, DataInv, Row, Bounded
<1>2. \A k \in Untold : hooks[k].exp \in Int /\ hooks[k].exp <= x
  BY DEF TypeInv, Hooks, Bounded, Untold
<1>3. Untold' = Untold
  BY DEF Untold
<1> QED BY <1>1, <1>2, <1>3, BoundedMove

LEMMA Created ==
    ASSUME TypeInv, rows.trial # None
    PROVE  rows.trial \in Row /\ rows.trial.created \in Nat /\ rows.trial.exp \in Nat
BY DEF TypeInv, DataInv, Row

\* An operation begins, and nothing else happens.
LEMMA BeginInv ==
    ASSUME IInv, NEW r \in Requests, NEW q \in RequestType, Steps(q), Begin(r, q),
           \/ q.kind = "start" /\ q.pc = "panel"
           \/ q.kind = "bonus" /\ q.pc = "claim" /\ current = "trial" /\ q.seen = rows.trial.exp
           \/ /\ q.kind = "buy" /\ q.pc = "panel" /\ current = "trial" /\ bought = None
              /\ \A o \in Requests : req[o].kind # "buy",
           UNCHANGED <<now, store, panel, connected, hooks, history, faults>>
    PROVE  IInv'
<1> USE DEF store, history
<1>1. /\ ReqInv' /\ Only(r) /\ req'[r] = q /\ req[r].kind = "none" /\ begun' \in 0..MaxBegun
      /\ excused' \subseteq {"clash", "revived", "buying"} /\ excused \subseteq excused'
      /\ q.kind = "buy" => "buying" \in excused'
  BY BeginMove DEF IInv
<1>2. TypeInv'
  BY <1>1 DEF IInv, TypeInv, DataInv, CountInv
<1>3. OpInv' /\ StartInv' /\ ClaimInv' /\ RestartInv' /\ CalmInv'
  BY BeginOps DEF Acting
<1>4. RowInv'
  BY DEF IInv, RowInv, Untold
<1>5. FollowInv'
  BY <1>1 DEF IInv, FollowInv, LastTold, Untold, Astray
<1>6. FirstInv'
  BY <1>1 DEF IInv, FirstInv, FirstHooks, FirstOps, Only
<1>7. BoundInv'
  <2> SUFFICES ASSUME Modest' PROVE BoundInv' BY DEF BoundInv
  <2>1. Modest /\ BoundInv /\ TypeInv
    BY <1>1, ModestMove DEF IInv
  <2>2. r \notin Holding("bonus") /\ r \notin Holding("bonus")' /\ r \notin Holding("first")'
    BY <1>1 DEF Holding
  <2>3. Weight' = Weight
    BY <1>1, <2>1, <2>2, WeightMove DEF Weight, TypeInv
  <2>4. Allowance' = Allowance /\ Allowance \in Nat
    BY <1>2, <2>1, <2>3, AllowanceIs DEF Allowance, TypeInv
  <2>5. now \in Nat
    BY <2>1, TrialsAssumption DEF TypeInv, DataInv
  <2>6. ASSUME NEW x \in Int, Bounded(x) PROVE Bounded(x)'
    <3>1. Under(q, x)
      <4>1. q.kind = "bonus" => current = "trial" /\ current # None /\ q.seen = rows.trial.exp
        BY TrialsAssumption
      <4>2. q.kind = "bonus" => rows.trial # None
        BY <4>1 DEF IInv, RowInv
      <4> QED BY <2>6, <4>1, <4>2 DEF Under, Bounded
    <3> QED BY <1>1, <2>1, <2>6, <3>1, BoundedSame
  <2>7. Bounded(now + Allowance)
    BY <2>1 DEF BoundInv
  <2>8. Bounded(now + Allowance)'
    <3>1. PICK x \in Int : x = now + Allowance
      BY <2>4, <2>5
    <3>2. Bounded(x)'
      BY <2>6, <2>7, <3>1
    <3> QED BY <2>4, <3>1, <3>2 DEF Bounded
  <2>9. \A o \in Holding("first")' : o \in Holding("first") /\ req'[o] = req[o]
    BY <1>1, <2>2 DEF Holding, Only
  <2>10. \A o \in Holding("first")' : req'[o].to <= now' + Allowance'
    BY <2>1, <2>4, <2>9 DEF BoundInv
  <2>11. ASSUME Untouched', rows.trial # None PROVE Bounded(rows.trial.created + Allowance)'
    <3>1. Untouched
      <4>1. \A o \in Requests : At(o, "first", "commit") => At(o, "first", "commit")'
        BY <1>1 DEF At, Only
      <4>2. \A o \in Requests : At(o, "first", "read")' => At(o, "first", "read")
        BY <1>1 DEF At, Only
      <4> QED BY <2>11, <4>1, <4>2 DEF Untouched, Unread, FirstHooks
    <3>2. PICK x \in Int : x = rows.trial.created + Allowance
      BY <2>1, <2>4, <2>11, Created
    <3>3. Bounded(x)
      BY <2>1, <2>11, <3>1, <3>2 DEF BoundInv
    <3>4. Bounded(x)'
      BY <2>6, <3>3
    <3> QED BY <2>4, <3>2, <3>4 DEF Bounded
  <2> QED BY <2>8, <2>10, <2>11 DEF BoundInv
<1> QED BY <1>2, <1>3, <1>4, <1>5, <1>6, <1>7 DEF IInv

LEMMA AskTrialInv == ASSUME IInv, NEW r \in Requests, AskTrial(r) PROVE IInv'
<1> DEFINE q == [Idle EXCEPT !.kind = "start", !.pc = "panel"]
<1>1. q \in RequestType /\ Steps(q) /\ q.kind = "start" /\ q.pc = "panel"
  BY DEF Idle, RequestType, Steps
<1>2. Begin(r, q)
  BY DEF AskTrial
<1> HIDE DEF q
<1> QED BY <1>1, <1>2, BeginInv DEF AskTrial

LEMMA PressBonusInv ==
    ASSUME IInv, NEW r \in Requests, NEW b \in Broadcasts, PressBonus(r, b) PROVE IInv'
<1> DEFINE q == [Idle EXCEPT !.kind = "bonus", !.pc = "claim", !.of = b, !.seen = rows.trial.exp]
<1>1. current = "trial" /\ rows.trial.exp \in Nat
  BY TrialsAssumption, Created DEF PressBonus, IInv, RowInv
<1>2. /\ q \in RequestType /\ Steps(q) /\ q.kind = "bonus" /\ q.pc = "claim"
      /\ q.seen = rows.trial.exp
  BY <1>1 DEF Idle, RequestType, Steps
<1>3. Begin(r, q)
  BY DEF PressBonus
<1> HIDE DEF q
<1> QED BY <1>1, <1>2, <1>3, BeginInv DEF PressBonus

LEMMA BuyInv == ASSUME IInv, NEW r \in Requests, Buy(r) PROVE IInv'
<1> DEFINE q == [Idle EXCEPT !.kind = "buy", !.pc = "panel", !.to = now + Term]
<1>1. now \in Nat /\ now + Term \in Nat /\ now + Term >= Term
  BY TrialsAssumption DEF IInv, TypeInv, DataInv
<1>2. q \in RequestType /\ Steps(q) /\ q.kind = "buy" /\ q.pc = "panel"
  BY <1>1 DEF Idle, RequestType, Steps
<1>3. Begin(r, q)
  BY DEF Buy
<1> HIDE DEF q
<1> QED BY <1>2, <1>3, BeginInv DEF Buy

-----------------------------------------------------------------------------
(* An operation that ends and writes nothing.                               *)

LEMMA UntouchedDrop ==
    ASSUME IInv, NEW r \in Requests, Only(r), req'[r] = Idle, faults \subseteq faults',
           UNCHANGED <<restarted, connected, hooks>>, Untouched',
           At(r, "first", "commit") => faults' \cap {"unanswered", "crash"} # {}
    PROVE  Untouched
<1>1. \A o \in Requests \ {r} : req'[o] = req[o]
  BY DEF Only
<1>2. ~At(r, "first", "read")'
  BY IdleType DEF At
<1>3. Unread' => Unread
  BY <1>1, <1>2 DEF Unread, At, FirstHooks
<1>4. ~At(r, "first", "commit")
  <2> SUFFICES ASSUME At(r, "first", "commit") PROVE FALSE OBVIOUS
  <2>1. "again" \notin faults' /\ Unread'
    BY DEF Untouched
  <2>2. r \in FirstOps /\ FirstInv /\ "again" \notin faults
    BY <2>1 DEF At, FirstOps, IInv
  <2>3. connected /\ FirstHooks = {} /\ \A o \in FirstOps : o = r
    BY <2>2 DEF FirstInv, IInv, TypeInv, DataInv
  <2>4. PICK o \in Requests : At(o, "first", "read")'
    BY <2>1, <2>3 DEF Unread, FirstHooks
  <2>5. o # r /\ o \in FirstOps
    BY <1>1, <1>2, <2>4 DEF FirstOps, At
  <2> QED BY <2>3, <2>5
<1>5. \A o \in Requests : ~At(o, "first", "commit")
  BY <1>1, <1>4 DEF Untouched, At
<1> QED BY <1>3, <1>5 DEF Untouched

LEMMA DropInv ==
    ASSUME IInv, NEW r \in Requests, Drop(r),
           UNCHANGED <<now, store, panel, connected, hooks, history, excused, begun>>,
           \/ UNCHANGED faults /\ r \notin Holding("bonus") /\ ~At(r, "first", "commit")
           \/ Fault("crash")
           \/ Fault("refused") /\ ~At(r, "first", "commit")
    PROVE  IInv'
<1> USE DEF store, history
<1>1. ReqInv' /\ Only(r) /\ req'[r] = Idle
  BY DropMove DEF IInv
<1>2. faults \subseteq faults' /\ faults' \subseteq Faults
  BY FaultCounts DEF IInv, TypeInv, CountInv
<1>3. TypeInv'
  BY <1>1, <1>2 DEF IInv, TypeInv, DataInv, CountInv
<1>4. OpInv' /\ StartInv' /\ ClaimInv' /\ RestartInv' /\ CalmInv'
  BY DropOps DEF IInv, CalmInv
<1>5. RowInv'
  BY DEF IInv, RowInv, Untold
<1>6. FollowInv'
  BY <1>2 DEF IInv, FollowInv, LastTold, Untold, Astray
<1>7. FirstInv'
  BY <1>1, <1>2, IdleType DEF IInv, FirstInv, FirstHooks, FirstOps, Only
<1>8. BoundInv'
  <2> SUFFICES ASSUME Modest' PROVE BoundInv' BY DEF BoundInv
  <2>1. Modest /\ BoundInv /\ TypeInv /\ CountInv
    BY <1>2, ModestMove DEF IInv, TypeInv
  <2>2. r \notin Holding("bonus")'
    BY <1>1, IdleType DEF Holding
  <2>3. Weight <= Weight'
    <3>1. Cardinality(faults) \in Nat /\ Cardinality(Holding("bonus")) \in Nat /\ bonuses \in Nat
      BY <2>1, Finite DEF CountInv
    <3>2. CASE r \notin Holding("bonus") /\ UNCHANGED faults
      BY <1>1, <2>1, <2>2, <3>1, <3>2, WeightMove DEF Weight
    <3>3. CASE Cardinality(faults') = Cardinality(faults) + 1
      <4>1. \/ Cardinality(Holding("bonus")') = Cardinality(Holding("bonus")) - 1
            \/ Holding("bonus")' = Holding("bonus")
        BY <1>1, <2>1, <2>2, WeightMove
      <4> QED BY <3>1, <3>3, <4>1 DEF Weight
    <3> QED BY <2>1, <3>2, <3>3, FaultCounts
  <2>4. Allowance <= Allowance' /\ Allowance \in Nat /\ Allowance' \in Nat
    BY <1>3, <2>1, <2>3, AllowanceIs DEF TypeInv
  <2>5. now \in Nat
    BY <2>1, TrialsAssumption DEF TypeInv, DataInv
  <2>6. ASSUME NEW x \in Int, NEW y \in Int, x <= y, Bounded(x) PROVE Bounded(y)'
    BY <1>1, <2>1, <2>6, IdleType, BoundedSame
  <2>7. Bounded(now + Allowance)'
    <3>1. PICK x \in Int : x = now + Allowance
      BY <2>4, <2>5
    <3>4. now + Allowance' \in Int
      BY <2>4, <2>5
    <3>2. PICK y \in Int : y = now + Allowance'
      BY <3>4
    <3>3. Bounded(y)'
      BY <2>1, <2>4, <2>5, <2>6, <3>1, <3>2 DEF BoundInv
    <3> QED BY <3>2, <3>3 DEF Bounded
  <2>8. \A o \in Holding("first")' : o \in Holding("first") /\ req'[o] = req[o]
    BY <1>1, IdleType DEF Holding, Only
  <2>9. \A o \in Holding("first")' : req'[o].to <= now' + Allowance'
    <3> SUFFICES ASSUME NEW o \in Holding("first")' PROVE req'[o].to <= now' + Allowance'
      OBVIOUS
    <3>1. o \in Requests /\ req[o].to <= now + Allowance /\ req'[o] = req[o]
          /\ o \in Holding("first")
      BY <2>1, <2>8 DEF BoundInv, Holding
    <3>2. req[o].to \in Nat
      BY <2>1, <3>1, Typed DEF Holding, Steps
    <3> QED BY <2>4, <2>5, <3>1, <3>2
  <2>10. ASSUME Untouched', rows.trial # None PROVE Bounded(rows.trial.created + Allowance)'
    <3>1. Untouched
      <4>1. At(r, "first", "commit") => faults' \cap {"unanswered", "crash"} # {}
        BY <2>1, FaultCounts
      <4> QED BY <1>1, <1>2, <2>10, <4>1, UntouchedDrop
    <3>2. PICK x \in Int : x = rows.trial.created + Allowance
      BY <2>1, <2>4, <2>10, Created
    <3>3. PICK y \in Int : y = rows'.trial.created + Allowance'
      BY <2>1, <2>4, <2>10, Created
    <3>4. Bounded(x) /\ x <= y
      BY <2>1, <2>4, <2>10, <3>1, <3>2, <3>3, Created DEF BoundInv
    <3>5. Bounded(y)'
      BY <2>6, <3>4
    <3> QED BY <3>3, <3>5 DEF Bounded
  <2> QED BY <2>7, <2>9, <2>10 DEF BoundInv
<1> QED BY <1>3, <1>4, <1>5, <1>6, <1>7, <1>8 DEF IInv

LEMMA CrashInv == ASSUME IInv, NEW r \in Requests, Crash(r) PROVE IInv'
BY DropInv DEF Crash

-----------------------------------------------------------------------------
(* What the bound asks of a step.                                           *)

LEMMA UntouchedKept ==
    ASSUME restarted => restarted', faults \subseteq faults', Unread' => Unread, Untouched',
           \A o \in Requests : At(o, "first", "commit") => At(o, "first", "commit")'
    PROVE  Untouched
BY DEF Untouched

\* No operation comes to wait for the first connection, nor leaves.
LEMMA UntouchedSame ==
    ASSUME restarted => restarted', faults \subseteq faults', Untouched',
           connected' = connected, FirstHooks' # {} => FirstHooks # {},
           NEW r \in Requests, Only(r), req[r].kind # "first", req'[r].kind # "first"
    PROVE  Untouched
<1>1. \A o \in Requests : At(o, "first", "commit") => At(o, "first", "commit")'
  BY DEF At, Only
<1>2. \A o \in Requests : At(o, "first", "read")' => At(o, "first", "read")
  BY DEF At, Only
<1> QED BY <1>1, <1>2, UntouchedKept DEF Unread

LEMMA Sums == \A n, a, b, d \in Nat :
    a <= b => n + a <= n + b /\ (a + d <= b => (n + a) + d <= n + b)
OBVIOUS

LEMMA BoundStep ==
    ASSUME IInv, TypeInv', excused \subseteq excused', faults \subseteq faults', now' = now,
           Weight <= Weight',
           rows'.trial # None =>
               \/ rows'.trial.created = now
               \/ rows.trial # None /\ rows'.trial.created = rows.trial.created,
           Modest' /\ Untouched' => Untouched,
           Modest' => \A o \in Holding("first")' :
               \/ o \in Holding("first") /\ req'[o].to = req[o].to
               \/ req'[o].to <= now + Allowance,
           \A x, y \in Int : Modest' /\ Bounded(x) /\ x <= y
                             /\ (Weight + 1 <= Weight' => x + Bonus <= y)
                             /\ (x = now + Allowance \/ Untouched')
                             /\ Granted + now <= now + Allowance
                             /\ (x = now + Allowance \/ rows.trial # None) => Bounded(y)'
    PROVE  BoundInv'
<1> SUFFICES ASSUME Modest' PROVE BoundInv' BY DEF BoundInv
<1>1. Modest /\ BoundInv /\ TypeInv /\ CountInv /\ CountInv'
  BY ModestMove DEF IInv, TypeInv
<1>2. /\ Allowance <= Allowance' /\ Allowance \in Nat /\ Allowance' \in Nat
      /\ Weight + 1 <= Weight' => Allowance + Bonus <= Allowance'
  BY <1>1, AllowanceIs
<1>3. now \in Nat /\ Bonus \in Nat
  BY <1>1, TrialsAssumption DEF TypeInv, DataInv
<1>4. Granted + now <= now + Allowance
  <2>1. Bonus * Weight \in Nat
    <3>1. Weight \in Nat
      BY <1>1, AllowanceIs
    <3> QED BY <1>3, <3>1
  <2> QED BY <1>3, <2>1, TrialsAssumption DEF Allowance
<1>5. Bounded(now + Allowance)'
  <2>1. now + Allowance \in Int /\ now + Allowance' \in Int
    BY <1>2, <1>3
  <2>2. PICK x \in Int : x = now + Allowance
    BY <2>1
  <2>3. PICK y \in Int : y = now + Allowance'
    BY <2>1
  <2>4. x <= y /\ (Weight + 1 <= Weight' => x + Bonus <= y)
    <3>1. /\ now + Allowance <= now + Allowance'
          /\ Allowance + Bonus <= Allowance' => (now + Allowance) + Bonus <= now + Allowance'
      BY <1>2, <1>3, Sums
    <3> QED BY <1>2, <2>2, <2>3, <3>1
  <2>5. Bounded(x)
    BY <1>1, <2>2 DEF BoundInv
  <2>6. Bounded(y)'
    BY <1>4, <2>2, <2>4, <2>5
  <2> QED BY <2>3, <2>6 DEF Bounded
<1>6. \A o \in Holding("first")' : req'[o].to <= now' + Allowance'
  <2> SUFFICES ASSUME NEW o \in Holding("first")' PROVE req'[o].to <= now' + Allowance'
    OBVIOUS
  <2>1. req'[o].to <= now + Allowance
    BY <1>1 DEF BoundInv
  <2>2. req'[o].to \in Nat
    <3>1. o \in Requests /\ req'[o].kind = "first" /\ req'[o].pc \in {"panel", "commit"}
      BY DEF Holding
    <3>2. Steps(req'[o])
      BY <3>1 DEF TypeInv, ReqInv, Steps
    <3> QED BY <3>1, <3>2 DEF Steps
  <2> QED BY <1>2, <1>3, <2>1, <2>2
<1>7. ASSUME Untouched', rows'.trial # None PROVE Bounded(rows.trial.created + Allowance)'
  <2>1. CASE rows'.trial.created = now
    BY <1>5, <2>1
  <2>2. CASE rows.trial # None /\ rows'.trial.created = rows.trial.created
    <3>1. rows.trial.created \in Nat
      BY <1>1, <2>2, Created
    <3>2. rows.trial.created + Allowance \in Int /\ rows.trial.created + Allowance' \in Int
      BY <1>2, <3>1
    <3>3. PICK x \in Int : x = rows.trial.created + Allowance
      BY <3>2
    <3>4. PICK y \in Int : y = rows.trial.created + Allowance'
      BY <3>2
    <3>5. x <= y /\ (Weight + 1 <= Weight' => x + Bonus <= y)
      BY <1>2, <1>3, <3>1, <3>3, <3>4
    <3>6. Bounded(x)
      BY <1>1, <1>7, <2>2, <3>3 DEF BoundInv
    <3>7. Bounded(y)'
      BY <1>4, <1>7, <2>2, <3>5, <3>6
    <3> QED BY <2>2, <3>4, <3>7 DEF Bounded
  <2> QED BY <1>7, <2>1, <2>2
<1> QED BY <1>5, <1>6, <1>7 DEF BoundInv

\* What is promised and what may have been lost never gets less.
LEMMA WeightKept ==
    ASSUME IInv, TypeInv', NEW r \in Requests, Only(r),
           \/ UNCHANGED <<bonuses, faults>> /\ (r \in Holding("bonus") <=> r \in Holding("bonus")')
           \/ UNCHANGED <<bonuses, faults>> /\ r \notin Holding("bonus")
           \/ UNCHANGED bonuses /\ \E k : Fault(k)
           \/ bonuses' = bonuses + 1 /\ UNCHANGED faults
    PROVE  Weight <= Weight'
<1>1. CountInv /\ CountInv'
  BY DEF IInv, TypeInv
<1>2. Cardinality(faults) \in Nat /\ Cardinality(Holding("bonus")) \in Nat /\ bonuses \in Nat
  BY <1>1, Finite DEF CountInv
<1>3. \/ Cardinality(Holding("bonus")') = Cardinality(Holding("bonus")) - 1
      \/ Cardinality(Holding("bonus")') = Cardinality(Holding("bonus"))
      \/ Cardinality(Holding("bonus")') = Cardinality(Holding("bonus")) + 1
  BY <1>1, WeightMove
<1>4. CASE UNCHANGED <<bonuses, faults>> /\ (r \in Holding("bonus") <=> r \in Holding("bonus")')
  <2>1. Holding("bonus")' = Holding("bonus")
    BY <1>1, <1>4, WeightMove
  <2> QED BY <1>2, <1>4, <2>1 DEF Weight
<1>5. CASE UNCHANGED <<bonuses, faults>> /\ r \notin Holding("bonus")
  <2>1. \/ Cardinality(Holding("bonus")') = Cardinality(Holding("bonus"))
        \/ Cardinality(Holding("bonus")') = Cardinality(Holding("bonus")) + 1
    BY <1>1, <1>5, WeightMove
  <2> QED BY <1>2, <1>5, <2>1 DEF Weight
<1>6. CASE UNCHANGED bonuses /\ \E k : Fault(k)
  <2>1. Cardinality(faults') = Cardinality(faults) + 1
    BY <1>1, <1>6, FaultCounts
  <2> QED BY <1>2, <1>3, <1>6, <2>1 DEF Weight
<1>7. CASE bonuses' = bonuses + 1 /\ UNCHANGED faults
  BY <1>2, <1>3, <1>7 DEF Weight
<1> QED BY <1>4, <1>5, <1>6, <1>7

-----------------------------------------------------------------------------
(* The trial begins.                                                        *)

\* Before there is a trial, nobody acts on it.
LEMMA NobodyActs ==
    ASSUME IInv, current = None
    PROVE  /\ \A o \in Requests : ~Acting(req[o])
           /\ rows.trial = None /\ rows.paid = None /\ bought = None /\ Untold = {}
BY TrialsAssumption DEF IInv, OpInv, RowInv

LEMMA CreateUserInv == ASSUME IInv, NEW r \in Requests, CreateUser(r) PROVE IInv'
<1> USE DEF store, history
<1>1. CASE \/ NameTaken /\ Drop(r) /\ UNCHANGED <<panel, faults>>
           \/ Fault("refused") /\ Drop(r) /\ UNCHANGED panel
  <2>1. ~At(r, "first", "commit") /\ r \notin Holding("bonus")
    BY DEF CreateUser, At, Holding
  <2> QED BY <1>1, <2>1, DropInv DEF CreateUser
<1>2. CASE /\ ~NameTaken /\ panel' = now + Granted
           /\ \/ req' = [req EXCEPT ![r].pc = "commit", ![r].to = now + Granted] /\ UNCHANGED faults
              \/ Fault("unanswered") /\ Drop(r)
  <2>1. TypeInv /\ panel = None /\ current = None /\ At(r, "start", "panel")
    BY <1>2 DEF IInv, RowInv, NameTaken, CreateUser
  <2>2. now \in Nat /\ now + Granted \in Nat /\ panel' # None
    <3>1. now \in Nat /\ now + Granted \in Nat
      BY <2>1, TrialsAssumption DEF TypeInv, DataInv
    <3> QED BY <1>2, <3>1, TrialsAssumption
  <2>3. /\ UNCHANGED <<now, store, connected, hooks, history, excused, begun>>
    BY DEF CreateUser
  <2>4. \A o \in Requests : ~Acting(req[o])
    BY <2>1, NobodyActs
  <2>5. \A o \in Requests : req[o].pc # "commit"
    <3> SUFFICES ASSUME NEW o \in Requests, req[o].pc = "commit" PROVE FALSE OBVIOUS
    <3>1. req[o].kind = "start"
      BY <2>1, <2>4, Typed DEF Steps, RequestType, Acting
    <3> QED BY <2>1, <3>1 DEF IInv, StartInv, At
  <2>6. /\ ReqInv' /\ Only(r) /\ faults \subseteq faults' /\ faults' \subseteq Faults
        /\ \/ req'[r].kind = "start" /\ req'[r].pc = "commit" /\ req'[r].to = panel' /\ UNCHANGED faults
           \/ req'[r] = Idle /\ Fault("unanswered")
    <3>1. CASE req' = [req EXCEPT ![r].pc = "commit", ![r].to = now + Granted] /\ UNCHANGED faults
      <4> DEFINE q == [req[r] EXCEPT !.pc = "commit", !.to = now + Granted]
      <4>1. req[r] \in RequestType
        BY <2>1, Typed
      <4>2. q \in RequestType /\ q.kind = "start" /\ q.pc = "commit" /\ q.to = now + Granted
        BY <2>1, <2>2, <4>1 DEF RequestType, At
      <4>3. req' = [req EXCEPT ![r] = q]
        BY <2>1, <3>1 DEF TypeInv, ReqInv
      <4> HIDE DEF q
      <4>4. Steps(q)
        BY <2>2, <4>2 DEF Steps
      <4>5. ReqInv' /\ Only(r) /\ req'[r] = q
        BY <2>1, <4>2, <4>3, <4>4, PutReq DEF TypeInv
      <4> QED BY <1>2, <2>1, <3>1, <4>2, <4>5 DEF TypeInv, CountInv
    <3>2. CASE Fault("unanswered") /\ Drop(r)
      BY <2>1, <3>2, DropMove, FaultCounts DEF TypeInv
    <3> QED BY <1>2, <3>1, <3>2
  <2>7. req'[r].kind \in {"start", "none"} /\ ~Acting(req'[r])
    BY <2>6, IdleType DEF Acting
  <2>8. \A o \in Requests : ~Acting(req'[o]) /\ (req'[o].pc = "commit" => o = r /\ req'[o].to = panel')
    BY <2>4, <2>5, <2>6, <2>7, IdleType DEF Only
  <2>9. TypeInv'
    BY <1>2, <2>1, <2>2, <2>3, <2>6 DEF TypeInv, DataInv, CountInv
  <2>10. RowInv'
    BY <2>1, <2>2, <2>3 DEF IInv, RowInv, Untold
  <2>11. OpInv'
    BY <2>3, <2>8 DEF IInv, OpInv, Acting
  <2>12. StartInv'
    BY <2>1, <2>2, <2>3, <2>8 DEF StartInv, At
  <2>13. \A k \in {"bonus", "first"} : Holding(k) = {} /\ Holding(k)' = {}
    BY <2>4, <2>8 DEF Holding, Acting
  <2>14. ClaimInv' /\ RestartInv'
    BY <2>3, <2>13 DEF IInv, ClaimInv, RestartInv
  <2>15. CalmInv'
    <3> SUFFICES ASSUME "clash" \notin excused PROVE CalmInv' BY <2>3 DEF CalmInv
    <3>1. \A o, t \in Requests : req'[t].kind # "none" => ~Clash(req'[o], req'[t])
      <4>1. \A o \in Requests : req'[o].kind \in {"start", "none"}
        BY <2>6, <2>8 DEF ReqInv, RequestType, Acting
      <4> QED BY <4>1 DEF Clash
    <3>2. bought' = None
      BY <2>1, <2>3, NobodyActs
    <3> QED BY <2>8, <3>1, <3>2 DEF CalmInv
  <2>16. FollowInv'
    BY <2>1, <2>3 DEF FollowInv
  <2>17. FirstInv'
    <3>1. FirstOps' = {} /\ FirstOps = {}
      BY <2>4, <2>8 DEF FirstOps, Acting
    <3> QED BY <2>3, <2>6, <3>1 DEF IInv, FirstInv, FirstHooks
  <2>18. BoundInv'
    <3>1. Weight <= Weight'
      <4>1. r \notin Holding("bonus") /\ (UNCHANGED faults \/ Fault("unanswered"))
        BY <2>6, <2>13
      <4> QED BY <2>3, <2>6, <2>9, <4>1, WeightKept
    <3>2. Untouched' => Untouched
      <4>1. req[r].kind # "first" /\ req'[r].kind # "first"
        BY <2>1, <2>7 DEF At
      <4> QED BY <2>3, <2>6, <4>1, UntouchedSame DEF FirstHooks
    <3>3. ASSUME NEW x \in Int, NEW y \in Int, Bounded(x), x <= y, x = now + Allowance,
                 Granted + now <= now + Allowance
          PROVE  Bounded(y)'
      <4>1. now + Granted <= y
        BY <2>1, <2>2, <3>3, TrialsAssumption DEF TypeInv, DataInv
      <4>2. Under(req'[r], y)
        BY <1>2, <2>6, <2>7, <4>1, IdleType DEF Under
      <4> QED BY <2>1, <2>3, <2>6, <3>3, <4>2, BoundedSame
    <3>4. rows'.trial = None /\ rows.trial = None
      BY <2>1, <2>3, NobodyActs
    <3> QED BY <2>3, <2>6, <2>9, <2>13, <3>1, <3>2, <3>3, <3>4, BoundStep
  <2> QED BY <2>9, <2>10, <2>11, <2>12, <2>14, <2>15, <2>16, <2>17, <2>18 DEF IInv
<1> QED BY <1>1, <1>2 DEF CreateUser

LEMMA RecordTrialInv == ASSUME IInv, NEW r \in Requests, RecordTrial(r) PROVE IInv'
<1>1. /\ UNCHANGED <<now, panel, connected, restarted, claimed, hooks, bonuses, restart,
                     bought, excused, begun, faults>>
      /\ Drop(r) /\ current' = "trial" /\ available' = FALSE /\ trials' = trials + 1
      /\ rows' = [rows EXCEPT !.trial = [exp |-> req[r].to, created |-> now]]
  BY DEF RecordTrial
<1>2. TypeInv /\ ReqInv' /\ Only(r) /\ req'[r] = Idle /\ At(r, "start", "commit")
  BY DropMove DEF IInv, RecordTrial
<1>3. /\ current = None /\ panel # None /\ \A o \in Requests : At(o, "start", "commit") => o = r
  BY <1>2 DEF IInv, StartInv
<1>4. /\ \A o \in Requests : ~Acting(req[o])
      /\ rows.trial = None /\ rows.paid = None /\ bought = None /\ Untold = {}
  BY <1>3, NobodyActs
<1>5. req[r].to \in Nat /\ now \in Nat
  BY <1>2, Typed, TrialsAssumption DEF At, Steps, TypeInv, DataInv
<1>6. /\ rows'.trial = [exp |-> req[r].to, created |-> now] /\ rows'.trial # None
      /\ rows'.paid = None /\ rows' \in [{"trial", "paid"} -> {None} \cup Row]
  <2>1. rows \in [{"trial", "paid"} -> {None} \cup Row]
    BY <1>2 DEF TypeInv, DataInv
  <2>2. [exp |-> req[r].to, created |-> now] \in Row
    BY <1>5 DEF Row
  <2>3. /\ rows'.trial = [exp |-> req[r].to, created |-> now]
        /\ rows'.paid = None /\ rows' \in [{"trial", "paid"} -> {None} \cup Row]
    BY <1>1, <1>4, <2>1, <2>2
  <2> QED BY <2>2, <2>3, TrialsAssumption DEF Row
<1>7. TypeInv'
  <2>1. DataInv'
    BY <1>1, <1>2, <1>6 DEF TypeInv, DataInv
  <2>2. CountInv'
    BY <1>1, <1>2 DEF TypeInv, CountInv
  <2> QED BY <1>1, <1>2, <2>1, <2>2 DEF TypeInv
<1>8. /\ \A o \in Requests : ~Acting(req'[o]) /\ req'[o].kind \in {"start", "none"}
      /\ \A o \in Requests : req'[o].pc # "commit"
  <2>1. \A o \in Requests : ~Acting(req'[o]) /\ req'[o].kind \in {"start", "none"}
    <3>1. \A o \in Requests : ~Acting(req'[o])
      BY <1>2, <1>4, IdleType DEF Only, Acting
    <3> QED BY <1>2, <3>1 DEF ReqInv, RequestType, Acting
  <2>2. ASSUME NEW o \in Requests, req'[o].pc = "commit" PROVE FALSE
    <3>1. o # r /\ req'[o] = req[o]
      BY <1>2, <2>2, IdleType DEF Only
    <3>2. req[o].kind = "start"
      BY <1>2, <2>1, <2>2, <3>1, Typed DEF Steps
    <3> QED BY <1>3, <2>2, <3>1, <3>2 DEF At
  <2> QED BY <2>1, <2>2
<1>9. RowInv'
  <2>1. trials = 0
    BY <1>3 DEF IInv, RowInv
  <2>2. current' # None /\ current' # "paid"
    BY <1>1, TrialsAssumption
  <2> QED BY <1>1, <1>3, <1>4, <1>5, <1>6, <2>1, <2>2 DEF RowInv
<1>10. OpInv'
  BY <1>1, <1>4, <1>8 DEF OpInv, Acting
<1>11. StartInv'
  BY <1>8 DEF StartInv, At
<1>12. \A k \in {"bonus", "first"} : Holding(k) = {} /\ Holding(k)' = {}
  BY <1>4, <1>8 DEF Holding, Acting
<1>13. ClaimInv' /\ RestartInv'
  BY <1>1, <1>12 DEF IInv, ClaimInv, RestartInv
<1>14. CalmInv'
  BY <1>1, <1>4, <1>8 DEF CalmInv, Clash
<1>15. FollowInv'
  <2> SUFFICES ASSUME "clash" \notin excused PROVE FollowInv' BY <1>1 DEF FollowInv
  <2>1. req[r].to = panel
    BY <1>2 DEF IInv, CalmInv, At
  <2>2. rows'[current'].exp = panel'
    BY <1>1, <1>6, <2>1
  <2>3. Untold' = {}
    BY <1>1, <1>4 DEF Untold
  <2> QED BY <2>2, <2>3 DEF FollowInv
<1>16. FirstInv'
  <2>1. FirstOps' = {} /\ FirstOps = {}
    BY <1>4, <1>8 DEF FirstOps, Acting
  <2> QED BY <1>1, <2>1 DEF IInv, FirstInv, FirstHooks
<1>17. BoundInv'
  <2>1. Weight <= Weight'
    BY <1>1, <1>2, <1>7, <1>12, WeightKept
  <2>2. Untouched' => Untouched
    <3>1. req[r].kind # "first" /\ req'[r].kind # "first"
      BY <1>2, IdleType DEF At
    <3> QED BY <1>1, <1>2, <3>1, UntouchedSame DEF FirstHooks
  <2>3. ASSUME NEW x \in Int, NEW y \in Int, Bounded(x), x <= y PROVE Bounded(y)'
    <3>1. req[r].to <= x
      BY <1>2, <2>3 DEF Bounded, Under, At
    <3>2. rows'.trial.exp <= y
      BY <1>5, <1>6, <2>3, <3>1
    <3>3. Untold' = {}
      BY <1>1, <1>4 DEF Untold
    <3> QED BY <1>2, <2>3, <3>2, <3>3, IdleType, BoundedMove
  <2>4. rows'.trial.created = now
    BY <1>6
  <2> QED BY <1>1, <1>7, <1>12, <2>1, <2>2, <2>3, <2>4, BoundStep
<1> QED BY <1>7, <1>9, <1>10, <1>11, <1>13, <1>14, <1>15, <1>16, <1>17 DEF IInv

-----------------------------------------------------------------------------
(* The bonus.                                                               *)

LEMMA ClaimInvKept == ASSUME IInv, NEW r \in Requests, Claim(r) PROVE IInv'
<1> USE DEF store, history
<1> DEFINE rival == \E o \in Holding("bonus") : req[o].of = req[r].of
<1>1. CASE Drop(r) /\ UNCHANGED excused
  <2>1. r \notin Holding("bonus") /\ ~At(r, "first", "commit")
    BY DEF Claim, At, Holding
  <2> QED BY <1>1, <2>1, DropInv DEF Claim
<1>2. CASE ~rival /\ Unclaimed(req[r].of)
           /\ req' = [req EXCEPT ![r].pc = "panel", ![r].to = Latest(req[r].seen, now) + Bonus]
           /\ excused' = excused \cup (IF req[r].seen < now THEN {"revived"} ELSE {})
  <2>1. /\ TypeInv /\ At(r, "bonus", "claim") /\ req[r] \in RequestType /\ Steps(req[r])
        /\ UNCHANGED <<now, store, panel, connected, hooks, history, begun, faults>>
    BY Typed DEF IInv, Claim
  <2>2. req[r].seen \in Nat /\ now \in Nat /\ Bonus \in Nat
    BY <2>1, TrialsAssumption DEF At, Steps, TypeInv, DataInv
  <2>3. Latest(req[r].seen, now) + Bonus \in Nat
    BY <2>2 DEF Latest
  <2> DEFINE q == [req[r] EXCEPT !.pc = "panel", !.to = Latest(req[r].seen, now) + Bonus]
  <2>4. /\ q \in RequestType /\ q.kind = "bonus" /\ q.pc = "panel" /\ q.of = req[r].of
        /\ q.seen = req[r].seen /\ q.to = Latest(req[r].seen, now) + Bonus
    BY <2>1, <2>3 DEF RequestType, At
  <2>5. req' = [req EXCEPT ![r] = q]
    BY <1>2, <2>1 DEF TypeInv, ReqInv
  <2> HIDE DEF q
  <2>6. Steps(q)
    BY <2>1, <2>3, <2>4 DEF Steps, At
  <2>7. /\ ReqInv' /\ Only(r) /\ req'[r].kind = "bonus" /\ req'[r].pc = "panel"
        /\ req'[r].of = req[r].of /\ req'[r].seen = req[r].seen
        /\ req'[r].to = Latest(req[r].seen, now) + Bonus
    BY <2>1, <2>4, <2>5, <2>6, PutReq DEF TypeInv
  <2>8. /\ excused \subseteq excused' /\ excused' \subseteq {"clash", "revived", "buying"}
        /\ "clash" \in excused' => "clash" \in excused
        /\ "buying" \in excused' => "buying" \in excused
        /\ "revived" \notin excused' => req[r].seen >= now
    BY <1>2, <2>1, <2>2 DEF TypeInv, CountInv
  <2>9. TypeInv'
    BY <2>1, <2>7, <2>8 DEF TypeInv, DataInv, CountInv
  <2>10. RowInv'
    BY <2>1 DEF IInv, RowInv, Untold
  <2>11. \A o \in Requests : req'[o].kind = req[o].kind /\ req'[o].of = req[o].of
    BY <2>1, <2>7 DEF Only, At
  <2>12. \A o \in Requests : o = r \/ (req'[o].pc = req[o].pc /\ req'[o].to = req[o].to)
    BY <2>7 DEF Only
  <2>13. OpInv'
    BY <2>1, <2>7, <2>8, <2>11, <2>12 DEF IInv, OpInv, Acting, At
  <2>14. StartInv'
    BY <2>1, <2>7, <2>11, <2>12 DEF IInv, StartInv, At
  <2>15. \A o \in Requests \ {r} : o \in Holding("bonus")' <=> o \in Holding("bonus")
    BY <2>11, <2>12 DEF Holding
  <2>16. Holding("first")' = Holding("first")
    BY <2>1, <2>11, <2>12 DEF Holding, At
  <2>17. ClaimInv'
    <3>1. req[r].of \notin claimed /\ \A o \in Holding("bonus") : req[o].of # req[r].of
      BY <1>2 DEF Unclaimed
    <3>2. Holding("bonus")' \subseteq Requests
      BY DEF Holding
    <3> QED BY <2>1, <2>11, <2>15, <3>1, <3>2 DEF IInv, ClaimInv
  <2>18. RestartInv'
    BY <2>1, <2>16 DEF IInv, RestartInv
  <2>19. CalmInv'
    <3> SUFFICES ASSUME "clash" \notin excused PROVE CalmInv' BY <2>8 DEF CalmInv
    <3>1. \A o, t \in Requests : req'[t].kind # "none" => ~Clash(req'[o], req'[t])
      BY <2>11 DEF IInv, CalmInv, Clash
    <3>2. \A o \in Requests : Acting(req'[o]) => current' = "trial"
      BY <2>1, <2>11 DEF IInv, CalmInv, Acting
    <3>3. \A o \in Requests : req'[o].pc = "commit" => req'[o].to = panel'
      BY <2>1, <2>7, <2>12 DEF IInv, CalmInv
    <3> QED BY <2>1, <3>1, <3>2, <3>3 DEF IInv, CalmInv
  <2>20. FollowInv'
    BY <2>1, <2>8 DEF IInv, FollowInv, LastTold, Untold, Astray
  <2>21. FirstInv'
    <3>1. FirstOps' = FirstOps
      BY <2>11 DEF FirstOps
    <3> QED BY <2>1, <3>1 DEF IInv, FirstInv, FirstHooks
  <2>22. BoundInv'
    <3>1. Weight + 1 <= Weight' /\ Weight <= Weight'
      <4>1. r \notin Holding("bonus") /\ r \in Holding("bonus")'
        BY <2>1, <2>7 DEF Holding, At
      <4>2. Cardinality(Holding("bonus")') = Cardinality(Holding("bonus")) + 1
        BY <2>1, <2>7, <4>1, WeightMove DEF TypeInv
      <4>3. Cardinality(faults) \in Nat /\ Cardinality(Holding("bonus")) \in Nat /\ bonuses \in Nat
        BY <2>1, Finite DEF TypeInv, CountInv
      <4> QED BY <2>1, <4>2, <4>3 DEF Weight
    <3>2. Untouched' => Untouched
      <4>1. req[r].kind # "first" /\ req'[r].kind # "first"
        BY <2>1, <2>7 DEF At
      <4> QED BY <2>1, <2>7, <4>1, UntouchedSame DEF FirstHooks
    <3>3. ASSUME Modest', NEW x \in Int, NEW y \in Int, Bounded(x), x <= y, x + Bonus <= y
          PROVE  Bounded(y)'
      <4>1. req[r].seen <= x /\ req[r].seen >= now
        BY <2>1, <2>8, <3>3 DEF Bounded, Under, At, Modest
      <4>2. req'[r].to <= y /\ req'[r].seen <= y
        BY <2>2, <2>7, <3>3, <4>1 DEF Latest
      <4>3. Under(req'[r], y)
        BY <2>7, <4>2 DEF Under
      <4> QED BY <2>1, <2>7, <3>3, <4>3, BoundedSame
    <3>4. \A o \in Holding("first")' : o \in Holding("first") /\ req'[o].to = req[o].to
      BY <2>1, <2>12, <2>16 DEF Holding, At
    <3>5. rows' = rows /\ now' = now /\ faults' = faults
      BY <2>1
    <3> QED BY <2>8, <2>9, <3>1, <3>2, <3>3, <3>4, <3>5, BoundStep
  <2> QED BY <2>9, <2>10, <2>13, <2>14, <2>17, <2>18, <2>19, <2>20, <2>21, <2>22 DEF IInv
<1> QED BY <1>1, <1>2 DEF Claim

-----------------------------------------------------------------------------
(* The panel is told.                                                       *)

\* The change is the last on its way.
LEMMA PushMove ==
    ASSUME TypeInv, NEW e \in Nat, Push(e)
    PROVE  /\ panel' = e /\ panel' # None /\ hooks' \in Seq(Hooks)
           /\ FirstHooks' = FirstHooks
           /\ \E n \in Untold' : hooks'[n].exp = e /\ (\A k \in Untold' : LastTold(k)' => k = n)
           /\ \A k \in Untold' : hooks'[k].exp = e \/ (k \in Untold /\ hooks'[k] = hooks[k])
<1> DEFINE h == [kind |-> "modified", exp |-> e]
           n == Len(hooks) + 1
<1>1. h \in Hooks /\ h.kind = "modified" /\ h.exp = e /\ h.kind # "first"
  BY DEF Hooks
<1>2. hooks' = Append(hooks, h)
  BY DEF Push
<1> HIDE DEF h
<1>3. /\ hooks' \in Seq(Hooks) /\ DOMAIN hooks' = DOMAIN hooks \cup {n}
      /\ n \notin DOMAIN hooks /\ hooks'[n] = h
      /\ \A i \in DOMAIN hooks : hooks'[i] = hooks[i] /\ i \in Nat /\ i < n
  BY <1>1, <1>2, AppendMove
<1>4. n \in Nat
  BY LenProperties DEF TypeInv
<1> HIDE DEF n
<1>5. Untold' = Untold \cup {n}
  BY <1>1, <1>3 DEF Untold
<1>6. FirstHooks' = FirstHooks
  BY <1>1, <1>3 DEF FirstHooks
<1>7. \A k \in Untold' : LastTold(k)' => k = n
  <2> SUFFICES ASSUME NEW k \in Untold', \A j \in Untold' : j <= k, k # n PROVE FALSE
    BY DEF LastTold
  <2>1. k \in DOMAIN hooks /\ n <= k
    BY <1>5 DEF Untold
  <2> QED BY <1>3, <1>4, <2>1
<1>8. \A k \in Untold' : k = n \/ (k \in Untold /\ hooks'[k] = hooks[k])
  BY <1>3, <1>5 DEF Untold
<1>9. n \in Untold' /\ hooks'[n].exp = e
  BY <1>1, <1>3, <1>5
<1>10. panel' = e /\ panel' # None
  BY TrialsAssumption DEF Push
<1> QED BY <1>3, <1>6, <1>7, <1>8, <1>9, <1>10

\* Under calm, who calls the panel is the only one to go on to a commit.
LEMMA CallerAlone ==
    ASSUME IInv, NEW r \in Requests, Acting(req[r]), req[r].pc = "panel", "clash" \notin excused
    PROVE  /\ \A o \in Requests : req[o].pc = "commit" => FALSE
           /\ bought = None /\ current = "trial"
<1>1. TypeInv /\ CalmInv /\ ClaimInv /\ RestartInv /\ OpInv /\ RowInv
  BY DEF IInv
<1>2. bought = None /\ current = "trial"
  BY <1>1, TrialsAssumption DEF CalmInv, RowInv
<1>3. ASSUME NEW o \in Requests, req[o].pc = "commit" PROVE FALSE
  <2>1. o # r /\ req[o].kind # "none"
    BY <1>1, <1>3, Typed DEF Steps
  <2>2. ~Clash(req[o], req[r]) /\ req[r].kind # "none"
    BY <1>1 DEF CalmInv, Acting
  <2>3. req[o].kind = req[r].kind /\ (req[r].kind = "bonus" => req[o].of = req[r].of)
    BY <2>1, <2>2 DEF Clash
  <2>4. o \in Holding(req[r].kind) /\ r \in Holding(req[r].kind)
    BY <1>3, <2>3 DEF Holding
  <2>5. CASE req[r].kind = "bonus"
    BY <1>1, <2>1, <2>3, <2>4, <2>5 DEF ClaimInv
  <2>6. CASE req[r].kind = "first"
    BY <1>1, <2>1, <2>4, <2>6 DEF RestartInv
  <2>7. CASE req[r].kind = "buy"
    BY <1>1, <2>1, <2>3, <2>7 DEF OpInv
  <2> QED BY <2>5, <2>6, <2>7 DEF Acting
<1> QED BY <1>2, <1>3

LEMMA CallPanelInv ==
    ASSUME IInv, NEW r \in Requests, NEW kind \in {"bonus", "first", "buy"}, CallPanel(r, kind)
    PROVE  IInv'
<1> USE DEF store, history
<1>1. CASE Fault("refused") /\ Drop(r) /\ UNCHANGED <<panel, hooks>>
  <2>1. ~At(r, "first", "commit")
    BY DEF CallPanel, At
  <2> QED BY <1>1, <2>1, DropInv DEF CallPanel
<1>2. CASE /\ Push(req[r].to)
           /\ \/ req' = [req EXCEPT ![r].pc = "commit"] /\ UNCHANGED faults
              \/ Fault("unanswered") /\ Drop(r)
  <2>1. /\ TypeInv /\ req[r].kind = kind /\ req[r].pc = "panel" /\ Acting(req[r])
        /\ UNCHANGED <<now, store, connected, history, excused, begun>>
    BY DEF IInv, CallPanel, At, Acting
  <2>2. req[r].to \in Nat /\ req[r].kind # "start"
    BY <2>1, Typed DEF Steps
  <2>3. PICK e \in Nat : e = req[r].to
    BY <2>2
  <2>4. /\ panel' = e /\ panel' # None /\ hooks' \in Seq(Hooks) /\ FirstHooks' = FirstHooks
        /\ \E n \in Untold' : hooks'[n].exp = e /\ (\A k \in Untold' : LastTold(k)' => k = n)
        /\ \A k \in Untold' : hooks'[k].exp = e \/ (k \in Untold /\ hooks'[k] = hooks[k])
    BY <1>2, <2>1, <2>3, PushMove
  <2>5. /\ ReqInv' /\ Only(r) /\ faults \subseteq faults' /\ faults' \subseteq Faults
        /\ \/ /\ req'[r].pc = "commit" /\ req'[r].kind = kind /\ req'[r].of = req[r].of
              /\ req'[r].seen = req[r].seen /\ req'[r].to = e /\ UNCHANGED faults
           \/ req'[r] = Idle /\ Fault("unanswered") /\ Drop(r)
    <3>1. CASE req' = [req EXCEPT ![r].pc = "commit"] /\ UNCHANGED faults
      BY <2>1, <2>2, <2>3, <3>1, CommitMove DEF TypeInv, CountInv
    <3>2. CASE Fault("unanswered") /\ Drop(r)
      BY <2>1, <3>2, DropMove, FaultCounts DEF TypeInv
    <3> QED BY <1>2, <3>1, <3>2
  <2>6. TypeInv'
    <3>1. DataInv'
      BY <2>1, <2>4 DEF TypeInv, DataInv
    <3> QED BY <2>1, <2>4, <2>5, <3>1 DEF TypeInv, CountInv
  <2>7. current # None
    BY <2>1 DEF IInv, OpInv
  <2>8. RowInv'
    BY <2>1, <2>4, <2>7 DEF IInv, RowInv
  <2>9. "clash" \notin excused =>
            /\ \A o \in Requests : req[o].pc # "commit"
            /\ bought = None /\ current = "trial"
    BY <2>1, CallerAlone
  <2>10. OpInv' /\ StartInv' /\ ClaimInv' /\ RestartInv' /\ CalmInv'
    <3>1. CASE req'[r] = Idle /\ Fault("unanswered") /\ Drop(r)
      BY <2>1, <2>4, <2>9, <3>1, DropOps
    <3>2. CASE /\ req'[r].pc = "commit" /\ req'[r].kind = kind /\ req'[r].of = req[r].of
               /\ req'[r].to = e
      <4>1. /\ \A o \in Requests : req'[o].kind = req[o].kind /\ req'[o].of = req[o].of
            /\ \A o \in Requests : req'[o].pc = req[o].pc \/ o = r
            /\ \A o \in Requests : req'[o].to = req[o].to
        BY <2>1, <2>3, <2>5, <3>2 DEF Only
      <4>2. OpInv'
        BY <2>1, <3>2, <4>1 DEF IInv, OpInv, Acting
      <4>3. StartInv'
        BY <2>1, <2>2, <2>4, <3>2, <4>1 DEF IInv, StartInv, At
      <4>4. \A k : Holding(k)' = Holding(k)
        BY <2>1, <3>2, <4>1 DEF Holding
      <4>5. ClaimInv' /\ RestartInv'
        BY <2>1, <4>1, <4>4 DEF IInv, ClaimInv, RestartInv, Holding
      <4>6. CalmInv'
        <5> SUFFICES ASSUME "clash" \notin excused PROVE CalmInv' BY <2>1 DEF CalmInv
        <5>1. \A o, t \in Requests : req'[t].kind # "none" => ~Clash(req'[o], req'[t])
          BY <4>1 DEF IInv, CalmInv, Clash
        <5>2. \A o \in Requests : Acting(req'[o]) => current' = "trial"
          BY <2>1, <2>9
        <5>3. \A o \in Requests : req'[o].pc = "commit" => req'[o].to = panel'
          BY <2>4, <2>9, <3>2, <4>1
        <5> QED BY <2>1, <2>9, <5>1, <5>2, <5>3 DEF CalmInv
      <4> QED BY <4>2, <4>3, <4>5, <4>6
    <3> QED BY <2>5, <3>1, <3>2
  <2>11. FollowInv'
    <3>1. \A k \in Untold' : LastTold(k)' => hooks'[k].exp = panel'
      BY <2>4
    <3>2. Untold' # {}
      BY <2>4
    <3> QED BY <3>1, <3>2 DEF FollowInv
  <2>12. FirstInv'
    <3>1. FirstOps' \subseteq FirstOps
      BY <2>1, <2>5, IdleType DEF FirstOps, Only
    <3> QED BY <2>1, <2>4, <2>5, <3>1 DEF IInv, FirstInv
  <2>13. BoundInv'
    <3>1. Weight <= Weight'
      <4>1. CASE req'[r] = Idle /\ Fault("unanswered")
        BY <2>1, <2>5, <2>6, <4>1, WeightKept
      <4>2. CASE req'[r].pc = "commit" /\ req'[r].kind = kind /\ UNCHANGED faults
        <5>1. r \in Holding("bonus") <=> r \in Holding("bonus")'
          BY <2>1, <4>2 DEF Holding
        <5> QED BY <2>1, <2>5, <2>6, <4>2, <5>1, WeightKept
      <4> QED BY <2>5, <4>1, <4>2
    <3>2. Untouched' => Untouched /\ kind # "first"
      <4> SUFFICES ASSUME Untouched' PROVE Untouched /\ kind # "first" OBVIOUS
      <4>1. CASE kind # "first"
        <5>1. req[r].kind # "first" /\ req'[r].kind # "first"
          BY <2>1, <2>5, <4>1, IdleType
        <5> QED BY <2>1, <2>4, <2>5, <4>1, <5>1, UntouchedSame
      <4>2. ASSUME kind = "first" PROVE FALSE
        <5>1. req'[r] = Idle /\ Fault("unanswered")
          BY <2>5, <4>2 DEF Untouched, At
        <5>2. "again" \notin faults' /\ Unread'
          BY <2>1, <5>1, FaultCounts DEF Untouched, TypeInv
        <5>3. r \in FirstOps /\ FirstInv /\ "again" \notin faults
          BY <2>1, <2>5, <4>2, <5>2 DEF FirstOps, IInv
        <5>4. connected /\ FirstHooks = {} /\ \A o \in FirstOps : o = r
          BY <2>1, <5>3 DEF FirstInv, TypeInv, DataInv
        <5>5. PICK o \in Requests : At(o, "first", "read")'
          BY <2>1, <2>4, <5>2, <5>4 DEF Unread
        <5>6. o # r /\ o \in FirstOps
          BY <2>5, <5>1, <5>5, IdleType DEF At, Only, FirstOps
        <5> QED BY <5>4, <5>6
      <4> QED BY <4>1, <4>2
    <3>3. Modest' => kind # "buy"
      BY <2>1 DEF Modest, IInv, OpInv
    <3>4. ASSUME Modest', NEW x \in Int, NEW y \in Int, Bounded(x), x <= y,
                 x = now + Allowance \/ Untouched'
          PROVE  Bounded(y)'
      <4>1. e <= x
        <5>1. CASE kind = "bonus"
          BY <2>1, <2>3, <3>4, <5>1 DEF Bounded, Under
        <5>2. CASE kind = "first"
          <6>1. BoundInv /\ Modest /\ r \in Holding("first") /\ x = now + Allowance
            BY <2>1, <2>5, <3>2, <3>4, <5>2, ModestMove DEF IInv, Holding
          <6> QED BY <2>3, <6>1 DEF BoundInv
        <5> QED BY <3>3, <3>4, <5>1, <5>2
      <4>2. e <= y
        BY <3>4, <4>1
      <4>3. Under(req'[r], y)
        <5>1. CASE req'[r] = Idle
          BY <5>1, IdleType
        <5>2. CASE req'[r].pc = "commit" /\ req'[r].kind = kind /\ req'[r].seen = req[r].seen
                   /\ req'[r].to = e
          <6>1. kind = "bonus" => req[r].seen <= x /\ req[r].seen \in Nat
            BY <2>1, <3>4, Typed DEF Bounded, Under, Steps
          <6>2. kind = "bonus" => req[r].seen <= y
            BY <3>4, <6>1
          <6> QED BY <2>1, <2>2, <4>2, <5>2, <6>2 DEF Under
        <5> QED BY <2>5, <5>1, <5>2
      <4>4. rows'.trial # None => rows'.trial.exp <= y
        <5>1. rows.trial # None => rows.trial.exp <= x /\ rows.trial.exp \in Nat
          BY <2>1, <3>4, Created DEF Bounded
        <5> QED BY <2>1, <3>4, <5>1
      <4>5. \A k \in Untold' : hooks'[k].exp <= y
        <5>1. \A k \in Untold : hooks[k].exp \in Int /\ hooks[k].exp <= x
          BY <2>1, <3>4 DEF TypeInv, Hooks, Bounded, Untold
        <5>2. \A k \in Untold : hooks[k].exp <= y
          BY <3>4, <5>1
        <5> QED BY <2>4, <4>2, <5>2
      <4> QED BY <2>1, <2>5, <3>4, <4>3, <4>4, <4>5, BoundedMove
    <3>5. \A o \in Holding("first")' : o \in Holding("first") /\ req'[o].to = req[o].to
      BY <2>1, <2>3, <2>5, IdleType DEF Holding, Only
    <3>6. rows' = rows /\ now' = now /\ excused' = excused
      BY <2>1
    <3> QED BY <2>5, <2>6, <3>1, <3>2, <3>4, <3>5, <3>6, BoundStep
  <2> QED BY <2>6, <2>8, <2>10, <2>11, <2>12, <2>13 DEF IInv
<1> QED BY <1>1, <1>2 DEF CallPanel

-----------------------------------------------------------------------------
(* Operations that commit.                                                  *)

\* The expiry of a row that exists is set.
LEMMA RowMove ==
    ASSUME TypeInv, NEW k \in {"trial", "paid"}, rows[k] # None, NEW e \in Nat,
           rows' = [rows EXCEPT ![k].exp = e]
    PROVE  /\ rows' \in [{"trial", "paid"} -> {None} \cup Row]
           /\ rows'[k].exp = e /\ rows'[k] # None /\ rows'[k].created = rows[k].created
           /\ \A j \in {"trial", "paid"} \ {k} : rows'[j] = rows[j]
<1> DEFINE w == [rows[k] EXCEPT !.exp = e]
<1>1. rows \in [{"trial", "paid"} -> {None} \cup Row] /\ rows[k] \in Row
  BY DEF TypeInv, DataInv
<1>2. w \in Row /\ w.exp = e /\ w.created = rows[k].created
  BY <1>1 DEF Row
<1>3. rows' = [rows EXCEPT ![k] = w]
  BY <1>1
<1> HIDE DEF w
<1>4. w # None
  BY <1>2, TrialsAssumption DEF Row
<1> QED BY <1>1, <1>2, <1>3, <1>4

\* What a commit of an operation on the trial leaves of the others.
LEMMA CommitOps ==
    ASSUME IInv, NEW r \in Requests, Drop(r), req[r].pc = "commit", Acting(req[r]),
           UNCHANGED <<current, panel, bought, excused>>,
           rows.trial # None => rows'.trial # None,
           rows.paid # None => rows'.paid # None
    PROVE  OpInv' /\ StartInv' /\ CalmInv'
<1>1. Only(r) /\ req'[r] = Idle /\ TypeInv
  BY DropMove DEF IInv
<1>2. Idle.kind = "none" /\ Idle.pc = "idle" /\ ~Acting(Idle)
  BY IdleType DEF Acting
<1>3. OpInv'
  <2>1. \A o \in Requests : req'[o].kind = "first" /\ req'[o].pc # "read" => rows'[req'[o].of] # None
    <3> SUFFICES ASSUME NEW o \in Requests, req'[o].kind = "first", req'[o].pc # "read"
                 PROVE  rows'[req'[o].of] # None
      OBVIOUS
    <3>1. o # r /\ req'[o] = req[o] /\ rows[req[o].of] # None
      BY <1>1, <1>2 DEF IInv, OpInv, Only
    <3>2. req[o].of \in {"trial", "paid"}
      BY <1>1, <3>1, Typed DEF Steps
    <3> QED BY <3>1, <3>2
  <2> QED BY <1>1, <1>2, <2>1 DEF IInv, OpInv, Only
<1>4. StartInv'
  BY <1>1, <1>2 DEF IInv, StartInv, At, Only
<1>5. CalmInv'
  <2> SUFFICES ASSUME "clash" \notin excused PROVE CalmInv' BY DEF CalmInv
  <2>1. \A o, t \in Requests : req'[t].kind # "none" => ~Clash(req'[o], req'[t])
    BY <1>1, <1>2 DEF IInv, CalmInv, Clash, Only
  <2>2. \A o \in Requests : Acting(req'[o]) => current' = "trial"
    BY <1>1, <1>2 DEF IInv, CalmInv, Only
  <2>3. \A o \in Requests : req'[o].pc = "commit" => req'[o].to = panel'
    BY <1>1, <1>2 DEF IInv, CalmInv, Only
  <2>4. bought' # None => panel' = bought' + Term
    BY DEF IInv, CalmInv
  <2> QED BY <2>1, <2>2, <2>3, <2>4 DEF CalmInv
<1> QED BY <1>3, <1>4, <1>5

LEMMA GrantBonusInv == ASSUME IInv, NEW r \in Requests, GrantBonus(r) PROVE IInv'
<1>1. /\ UNCHANGED <<now, available, current, panel, connected, restarted, hooks, trials,
                     restart, bought, excused, begun, faults>>
      /\ Drop(r) /\ claimed' = claimed \cup {req[r].of} /\ bonuses' = bonuses + 1
      /\ rows' = [rows EXCEPT !.trial.exp = req[r].to]
  BY DEF GrantBonus
<1>2. /\ TypeInv /\ ReqInv' /\ Only(r) /\ req'[r] = Idle
      /\ req[r].kind = "bonus" /\ req[r].pc = "commit" /\ Acting(req[r])
  BY DropMove DEF IInv, GrantBonus, At, Acting
<1>3. /\ req[r].to \in Nat /\ req[r].of \in Broadcasts /\ r \in Holding("bonus")
      /\ current # None /\ rows.trial # None
  BY <1>2, Typed DEF Steps, Holding, IInv, OpInv, RowInv
<1>4. PICK e \in Nat : e = req[r].to
  BY <1>3
<1>5. /\ rows' \in [{"trial", "paid"} -> {None} \cup Row]
      /\ rows'.trial.exp = e /\ rows'.trial # None /\ rows'.trial.created = rows.trial.created
      /\ rows'.paid = rows.paid
  BY <1>1, <1>2, <1>3, <1>4, RowMove
<1>6. TypeInv'
  <2>1. DataInv'
    BY <1>1, <1>2, <1>3, <1>5 DEF TypeInv, DataInv
  <2> QED BY <1>1, <1>2, <2>1 DEF TypeInv, CountInv
<1>7. RowInv'
  BY <1>1, <1>3, <1>5 DEF IInv, RowInv, Untold
<1>8. OpInv' /\ StartInv' /\ CalmInv'
  BY <1>1, <1>2, <1>5, CommitOps
<1>9. Holding("bonus")' = Holding("bonus") \ {r} /\ Holding("first")' = Holding("first")
  BY <1>2, IdleType DEF Holding, Only
<1>10. ClaimInv'
  <2>1. req[r].of \notin claimed /\ IsFiniteSet(claimed)
    BY <1>2, <1>3, TrialsAssumption, FS_Subset DEF IInv, ClaimInv, TypeInv, DataInv
  <2>2. Cardinality(claimed') = Cardinality(claimed) + 1
    BY <1>1, <2>1, FS_AddElement
  <2>3. bonuses' = Cardinality(claimed')
    BY <1>1, <2>2 DEF IInv, ClaimInv
  <2>4. \A o \in Holding("bonus")' : o \in Holding("bonus") /\ o # r /\ req'[o] = req[o]
    BY <1>2, <1>9 DEF Only, Holding
  <2> QED BY <1>1, <1>3, <2>3, <2>4 DEF IInv, ClaimInv
<1>11. RestartInv'
  BY <1>1, <1>9 DEF IInv, RestartInv
<1>12. FollowInv'
  <2> SUFFICES ASSUME "clash" \notin excused, ~Astray PROVE FollowInv'
    BY <1>1 DEF FollowInv, Astray
  <2>1. e = panel /\ current = "trial"
    BY <1>2, <1>4 DEF IInv, CalmInv
  <2>2. rows'[current'].exp = panel'
    BY <1>1, <1>5, <2>1
  <2>3. \A k \in Untold' : LastTold(k)' => hooks'[k].exp = panel'
    BY <1>1, <1>3 DEF IInv, FollowInv, LastTold, Untold
  <2> QED BY <2>2, <2>3 DEF FollowInv
<1>13. FirstInv'
  <2>1. FirstOps' = FirstOps
    BY <1>2, IdleType DEF FirstOps, Only
  <2> QED BY <1>1, <2>1 DEF IInv, FirstInv, FirstHooks
<1>14. BoundInv'
  <2>1. Weight <= Weight'
    BY <1>1, <1>2, <1>6, WeightKept
  <2>2. Untouched' => Untouched
    <3>1. req[r].kind # "first" /\ req'[r].kind # "first"
      BY <1>2, IdleType
    <3> QED BY <1>1, <1>2, <3>1, UntouchedSame DEF FirstHooks
  <2>3. ASSUME NEW x \in Int, NEW y \in Int, Bounded(x), x <= y PROVE Bounded(y)'
    <3>1. e <= x
      BY <1>2, <1>4, <2>3 DEF Bounded, Under
    <3>2. rows'.trial.exp <= y
      BY <1>5, <2>3, <3>1
    <3>3. \A k \in Untold : hooks[k].exp \in Int /\ hooks[k].exp <= x
      BY <1>2, <2>3 DEF TypeInv, Hooks, Bounded, Untold
    <3>4. \A k \in Untold' : hooks'[k].exp <= y
      BY <1>1, <2>3, <3>3 DEF Untold
    <3> QED BY <1>2, <2>3, <3>2, <3>4, IdleType, BoundedMove
  <2>4. \A o \in Holding("first")' : o \in Holding("first") /\ req'[o].to = req[o].to
    BY <1>2, <1>9 DEF Holding, Only
  <2> QED BY <1>1, <1>3, <1>5, <1>6, <2>1, <2>2, <2>3, <2>4, BoundStep
<1> QED BY <1>6, <1>7, <1>8, <1>10, <1>11, <1>12, <1>13, <1>14 DEF IInv

LEMMA SaveClockInv == ASSUME IInv, NEW r \in Requests, SaveClock(r) PROVE IInv'
<1>1. /\ UNCHANGED <<now, available, current, panel, connected, claimed, hooks, trials,
                     bonuses, bought, excused, begun, faults>>
      /\ Drop(r) /\ restarted' = TRUE /\ restart' = now
      /\ rows' = [rows EXCEPT ![req[r].of].exp = req[r].to]
  BY DEF SaveClock
<1>2. /\ TypeInv /\ ReqInv' /\ Only(r) /\ req'[r] = Idle
      /\ req[r].kind = "first" /\ req[r].pc = "commit" /\ Acting(req[r])
  BY DropMove DEF IInv, SaveClock, At, Acting
<1>3. /\ req[r].to \in Nat /\ req[r].of \in {"trial", "paid"} /\ r \in Holding("first")
      /\ current # None /\ rows.trial # None /\ rows[req[r].of] # None
  BY <1>2, Typed DEF Steps, Holding, IInv, OpInv, RowInv
<1>4. PICK e \in Nat, j \in {"trial", "paid"} : e = req[r].to /\ j = req[r].of
  BY <1>3
<1>5. /\ rows' \in [{"trial", "paid"} -> {None} \cup Row]
      /\ rows'[j].exp = e /\ rows'[j] # None /\ rows'[j].created = rows[j].created
      /\ \A i \in {"trial", "paid"} \ {j} : rows'[i] = rows[i]
  BY <1>1, <1>2, <1>3, <1>4, RowMove
<1>6. /\ rows'.trial # None /\ rows'.trial.created = rows.trial.created
      /\ rows'.paid = None <=> rows.paid = None
  BY <1>3, <1>4, <1>5
<1>7. TypeInv'
  <2>1. DataInv'
    BY <1>1, <1>2, <1>5 DEF TypeInv, DataInv
  <2>2. now \in Nat
    BY <1>2, TrialsAssumption DEF TypeInv, DataInv
  <2> QED BY <1>1, <1>2, <2>1, <2>2 DEF TypeInv, CountInv
<1>8. RowInv'
  BY <1>1, <1>3, <1>6 DEF IInv, RowInv, Untold
<1>9. OpInv' /\ StartInv' /\ CalmInv'
  BY <1>1, <1>2, <1>3, <1>6, CommitOps
<1>10. Holding("bonus")' = Holding("bonus") /\ Holding("first")' = {}
  <2>1. Holding("first") = {r}
    BY <1>3 DEF IInv, RestartInv
  <2>2. Holding("bonus")' = Holding("bonus") /\ Holding("first")' = Holding("first") \ {r}
    BY <1>2, IdleType DEF Holding, Only
  <2> QED BY <2>1, <2>2
<1>11. ClaimInv'
  <2>1. \A o \in Holding("bonus") : req'[o] = req[o]
    BY <1>2 DEF Holding, Only
  <2> QED BY <1>1, <1>10, <2>1 DEF IInv, ClaimInv
<1>12. RestartInv'
  BY <1>1, <1>10 DEF RestartInv
<1>13. FollowInv'
  <2> SUFFICES ASSUME "clash" \notin excused, ~Astray PROVE FollowInv'
    BY <1>1 DEF FollowInv, Astray
  <2>1. e = panel /\ current = "trial"
    BY <1>2, <1>4 DEF IInv, CalmInv
  <2>2. j = "trial"
    <3>1. rows.paid = None
      BY <2>1, TrialsAssumption DEF IInv, RowInv
    <3> QED BY <1>3, <1>4, <3>1
  <2>3. rows'[current'].exp = panel'
    BY <1>1, <1>5, <2>1, <2>2
  <2>4. \A k \in Untold' : LastTold(k)' => hooks'[k].exp = panel'
    BY <1>1, <1>3 DEF IInv, FollowInv, LastTold, Untold
  <2> QED BY <2>3, <2>4 DEF FollowInv
<1>14. FirstInv'
  <2>1. FirstOps' \subseteq FirstOps
    BY <1>2, IdleType DEF FirstOps, Only
  <2> QED BY <1>1, <2>1 DEF IInv, FirstInv, FirstHooks
<1>15. BoundInv'
  <2>1. Weight <= Weight'
    <3>1. r \in Holding("bonus") <=> r \in Holding("bonus")'
      BY <1>10
    <3> QED BY <1>1, <1>2, <1>7, <3>1, WeightKept
  <2>2. ~Untouched'
    BY <1>1 DEF Untouched
  <2>3. ASSUME Modest', NEW x \in Int, NEW y \in Int, Bounded(x), x <= y, x = now + Allowance
        PROVE  Bounded(y)'
    <3>1. e <= x
      <4>1. Modest /\ BoundInv
        BY <1>1, <2>3, ModestMove DEF IInv
      <4> QED BY <1>3, <1>4, <2>3, <4>1 DEF BoundInv
    <3>2. rows'.trial.exp <= y
      <4>1. CASE j = "trial"
        BY <1>5, <2>3, <3>1, <4>1
      <4>2. CASE j = "paid"
        <5>1. rows'.trial = rows.trial
          BY <1>5, <4>2
        <5>2. rows.trial.exp \in Nat /\ rows.trial.exp <= x
          BY <1>2, <1>3, <2>3, Created DEF Bounded
        <5> QED BY <2>3, <5>1, <5>2
      <4> QED BY <4>1, <4>2
    <3>3. \A k \in Untold : hooks[k].exp \in Int /\ hooks[k].exp <= x
      BY <1>2, <2>3 DEF TypeInv, Hooks, Bounded, Untold
    <3>4. \A k \in Untold' : hooks'[k].exp <= y
      BY <1>1, <2>3, <3>3 DEF Untold
    <3> QED BY <1>2, <2>3, <3>2, <3>4, IdleType, BoundedMove
  <2> QED BY <1>1, <1>3, <1>6, <1>7, <1>10, <2>1, <2>2, <2>3, BoundStep
<1> QED BY <1>7, <1>8, <1>9, <1>11, <1>12, <1>13, <1>14, <1>15 DEF IInv

LEMMA ConvertInv == ASSUME IInv, NEW r \in Requests, Convert(r) PROVE IInv'
<1>1. /\ UNCHANGED <<now, available, panel, connected, restarted, claimed, hooks, trials,
                     bonuses, restart, excused, begun, faults>>
      /\ Drop(r) /\ current' = "paid" /\ bought' = req[r].to - Term
      /\ rows' = [rows EXCEPT !.paid = [exp |-> req[r].to, created |-> now]]
  BY DEF Convert
<1>2. /\ TypeInv /\ ReqInv' /\ Only(r) /\ req'[r] = Idle
      /\ req[r].kind = "buy" /\ req[r].pc = "commit"
  BY DropMove DEF IInv, Convert, At
<1>3. /\ current = "trial" /\ "buying" \in excused /\ rows.trial # None
      /\ \A o \in Requests : req[o].kind = "buy" => o = r
      /\ bought' \in Nat /\ bought' # None /\ bought' + Term = req[r].to /\ req[r].to \in Nat
  <2>1. /\ current = "trial" /\ "buying" \in excused
        /\ \A o \in Requests : req[o].kind = "buy" => o = r
    BY <1>2 DEF IInv, OpInv
  <2>2. req[r].to \in Nat /\ req[r].to >= Term
    BY <1>2, Typed DEF Steps
  <2>3. rows.trial # None
    BY <2>1, TrialsAssumption DEF IInv, RowInv
  <2>4. bought' \in Nat /\ bought' + Term = req[r].to
    BY <1>1, <2>2, TrialsAssumption
  <2> QED BY <2>1, <2>2, <2>3, <2>4, TrialsAssumption
<1>4. /\ rows' \in [{"trial", "paid"} -> {None} \cup Row]
      /\ rows'.paid # None /\ rows'.paid.exp = req[r].to /\ rows'.trial = rows.trial
  <2>1. now \in Nat
    BY <1>2, TrialsAssumption DEF TypeInv, DataInv
  <2> DEFINE w == [exp |-> req[r].to, created |-> now]
  <2>2. w \in Row /\ w # None /\ w.exp = req[r].to
    BY <1>3, <2>1, TrialsAssumption DEF Row
  <2>3. rows' = [rows EXCEPT !.paid = w] /\ rows \in [{"trial", "paid"} -> {None} \cup Row]
    BY <1>1, <1>2 DEF TypeInv, DataInv
  <2> HIDE DEF w
  <2> QED BY <2>2, <2>3
<1>5. TypeInv'
  <2>1. DataInv'
    BY <1>1, <1>2, <1>4 DEF TypeInv, DataInv
  <2>2. CountInv'
    BY <1>1, <1>2, <1>3 DEF TypeInv, CountInv
  <2> QED BY <1>1, <1>2, <2>1, <2>2 DEF TypeInv
<1>6. RowInv'
  <2>1. "paid" # None /\ "trial" # None /\ panel # None /\ trials = 1
    BY <1>3, TrialsAssumption DEF IInv, RowInv
  <2> QED BY <1>1, <1>3, <1>4, <2>1 DEF IInv, RowInv, Untold
<1>7. \A o \in Requests : o = r \/ req'[o] = req[o]
  BY <1>2 DEF Only
<1>8. OpInv'
  <2>1. \A o \in Requests : req'[o].kind = "first" /\ req'[o].pc # "read" => rows'[req'[o].of] # None
    <3> SUFFICES ASSUME NEW o \in Requests, req'[o].kind = "first", req'[o].pc # "read"
                 PROVE  rows'[req'[o].of] # None
      OBVIOUS
    <3>1. req'[o] = req[o] /\ rows[req[o].of] # None
      BY <1>2, <1>7, IdleType DEF IInv, OpInv
    <3>2. req[o].of \in {"trial", "paid"}
      BY <1>2, <3>1, Typed DEF Steps
    <3> QED BY <1>3, <1>4, <3>1, <3>2
  <2>2. \A o \in Requests : req'[o].kind # "buy"
    BY <1>2, <1>3, <1>7, IdleType
  <2>3. current' # None
    BY <1>1, TrialsAssumption
  <2> QED BY <1>1, <1>3, <2>1, <2>2, <2>3 DEF OpInv
<1>9. StartInv'
  <2>1. ASSUME NEW o \in Requests, At(o, "start", "commit")' PROVE FALSE
    <3>1. At(o, "start", "commit")
      BY <1>2, <1>7, <2>1, IdleType DEF At
    <3> QED BY <1>3, <3>1, TrialsAssumption DEF IInv, StartInv
  <2> QED BY <2>1 DEF StartInv
<1>10. Holding("bonus")' = Holding("bonus") /\ Holding("first")' = Holding("first")
  BY <1>2, <1>7, IdleType DEF Holding
<1>11. ClaimInv' /\ RestartInv'
  <2>1. \A o \in Holding("bonus") : req'[o] = req[o]
    BY <1>2, <1>7 DEF Holding
  <2> QED BY <1>1, <1>10, <2>1 DEF IInv, ClaimInv, RestartInv
<1>12. CalmInv'
  <2> SUFFICES ASSUME "clash" \notin excused PROVE CalmInv' BY <1>1 DEF CalmInv
  <2>1. \A o \in Requests : req'[o].kind = "none"
    <3> SUFFICES ASSUME NEW o \in Requests, o # r PROVE req[o].kind = "none"
      BY <1>2, <1>7, IdleType
    <3>1. ~Clash(req[o], req[r])
      BY <1>2 DEF IInv, CalmInv
    <3> QED BY <1>2, <1>3, <3>1 DEF Clash
  <2>2. \A o \in Requests : req'[o].pc # "commit"
    BY <1>2, <2>1 DEF ReqInv, Steps
  <2>3. req[r].to = panel
    BY <1>2 DEF IInv, CalmInv
  <2> QED BY <1>1, <1>3, <2>1, <2>2, <2>3 DEF CalmInv, Acting
<1>13. FollowInv'
  <2> SUFFICES ASSUME "clash" \notin excused, ~Astray PROVE FollowInv'
    BY <1>1 DEF FollowInv, Astray
  <2>1. req[r].to = panel
    BY <1>2 DEF IInv, CalmInv
  <2>2. rows'[current'].exp = panel'
    BY <1>1, <1>4, <2>1
  <2>3. \A k \in Untold' : LastTold(k)' => hooks'[k].exp = panel'
    <3>1. current # None
      BY <1>3, TrialsAssumption
    <3> QED BY <1>1, <3>1 DEF IInv, FollowInv, LastTold, Untold
  <2> QED BY <2>2, <2>3 DEF FollowInv
<1>14. FirstInv'
  <2>1. FirstOps' = FirstOps
    BY <1>2, <1>7, IdleType DEF FirstOps
  <2> QED BY <1>1, <2>1 DEF IInv, FirstInv, FirstHooks
<1>15. BoundInv'
  BY <1>1, <1>3 DEF BoundInv, Modest
<1> QED BY <1>5, <1>6, <1>8, <1>9, <1>11, <1>12, <1>13, <1>14, <1>15 DEF IInv

LEMMA ReadClockInv == ASSUME IInv, NEW r \in Requests, ReadClock(r) PROVE IInv'
<1> USE DEF store, history
<1>1. PICK k \in {"trial", "paid"} :
         /\ rows[k] # None
         /\ IF Window(rows[k]) > 0 /\ MayRestart
            THEN req' = [req EXCEPT ![r].pc = "panel", ![r].of = k,
                                    ![r].to = now + Window(rows[k])]
            ELSE Drop(r)
  BY DEF ReadClock
<1>2. CASE Drop(r)
  <2>1. r \notin Holding("bonus") /\ ~At(r, "first", "commit")
    BY DEF ReadClock, At, Holding
  <2> QED BY <1>2, <2>1, DropInv DEF ReadClock
<1>3. CASE Window(rows[k]) > 0 /\ MayRestart
           /\ req' = [req EXCEPT ![r].pc = "panel", ![r].of = k, ![r].to = now + Window(rows[k])]
  <2>1. /\ TypeInv /\ At(r, "first", "read") /\ req[r] \in RequestType /\ Steps(req[r])
        /\ Holding("first") = {}
        /\ UNCHANGED <<now, store, panel, connected, hooks, history, excused, begun, faults>>
    BY Typed DEF IInv, ReadClock
  <2>2. rows[k] \in Row /\ rows[k].exp \in Nat /\ rows[k].created \in Nat /\ now \in Nat
    BY <1>1, <2>1, TrialsAssumption DEF TypeInv, DataInv, Row
  <2>3. PICK e \in Nat : e = now + Window(rows[k])
    <3>1. now + Window(rows[k]) \in Nat
      BY <1>3, <2>2 DEF Window
    <3> QED BY <3>1
  <2> DEFINE q == [req[r] EXCEPT !.pc = "panel", !.of = k, !.to = e]
  <2>4. /\ q \in RequestType /\ q.kind = "first" /\ q.pc = "panel" /\ q.of = k /\ q.to = e
    BY <2>1 DEF RequestType, At
  <2>5. req' = [req EXCEPT ![r] = q]
    BY <1>3, <2>1, <2>3 DEF TypeInv, ReqInv
  <2> HIDE DEF q
  <2>6. Steps(q)
    BY <2>4 DEF Steps
  <2>7. /\ ReqInv' /\ Only(r) /\ req'[r].kind = "first" /\ req'[r].pc = "panel"
        /\ req'[r].of = k /\ req'[r].to = e
    BY <2>1, <2>4, <2>5, <2>6, PutReq DEF TypeInv
  <2>8. \A o \in Requests : o = r \/ req'[o] = req[o]
    BY <2>7 DEF Only
  <2>9. \A o \in Requests : req'[o].kind = req[o].kind
    BY <2>1, <2>7, <2>8 DEF At
  <2>10. TypeInv'
    BY <2>1, <2>7 DEF TypeInv, DataInv, CountInv
  <2>11. RowInv'
    BY <2>1 DEF IInv, RowInv, Untold
  <2>12. OpInv'
    <3>1. \A o \in Requests : req'[o].kind = "first" /\ req'[o].pc # "read" => rows'[req'[o].of] # None
      BY <1>1, <2>1, <2>7, <2>8 DEF IInv, OpInv
    <3> QED BY <2>1, <2>9, <3>1 DEF IInv, OpInv, Acting
  <2>13. StartInv'
    BY <2>1, <2>7, <2>8 DEF IInv, StartInv, At
  <2>14. Holding("bonus")' = Holding("bonus") /\ Holding("first")' = {r}
    BY <2>1, <2>7, <2>8 DEF Holding, At
  <2>15. ClaimInv'
    <3>1. \A o \in Holding("bonus") : req'[o] = req[o]
      BY <2>1, <2>8 DEF Holding, At
    <3> QED BY <2>1, <2>14, <3>1 DEF IInv, ClaimInv
  <2>16. RestartInv'
    BY <1>3, <2>1, <2>14 DEF IInv, RestartInv, MayRestart
  <2>17. CalmInv'
    <3> SUFFICES ASSUME "clash" \notin excused PROVE CalmInv' BY <2>1 DEF CalmInv
    <3>1. \A o, t \in Requests : req'[t].kind # "none" => ~Clash(req'[o], req'[t])
      <4>1. \A o \in Requests : req'[o].of = req[o].of \/ req'[o].kind # "bonus"
        BY <2>7, <2>8
      <4> QED BY <2>9, <4>1 DEF IInv, CalmInv, Clash
    <3>2. \A o \in Requests : Acting(req'[o]) => current' = "trial"
      BY <2>1, <2>9 DEF IInv, CalmInv, Acting
    <3>3. \A o \in Requests : req'[o].pc = "commit" => req'[o].to = panel'
      BY <2>1, <2>7, <2>8 DEF IInv, CalmInv
    <3> QED BY <2>1, <3>1, <3>2, <3>3 DEF IInv, CalmInv
  <2>18. FollowInv'
    BY <2>1 DEF IInv, FollowInv, LastTold, Untold, Astray
  <2>19. FirstInv'
    <3>1. FirstOps' = FirstOps
      BY <2>9 DEF FirstOps
    <3> QED BY <2>1, <3>1 DEF IInv, FirstInv, FirstHooks
  <2>20. BoundInv'
    <3>1. Weight <= Weight'
      <4>1. r \in Holding("bonus") <=> r \in Holding("bonus")'
        BY <2>14
      <4> QED BY <2>1, <2>7, <2>10, <4>1, WeightKept
    <3>2. Untouched' => Untouched
      <4>1. \A o \in Requests : At(o, "first", "commit") => At(o, "first", "commit")'
        BY <2>1, <2>8 DEF At
      <4>2. Unread
        BY <2>1 DEF Unread
      <4> QED BY <2>1, <4>1, <4>2, UntouchedKept
    <3>3. ASSUME NEW x \in Int, NEW y \in Int, Bounded(x), x <= y PROVE Bounded(y)'
      <4>1. Under(req'[r], y)
        BY <2>7 DEF Under
      <4> QED BY <2>1, <2>7, <3>3, <4>1, BoundedSame
    <3>4. ASSUME Modest' PROVE e <= now + Allowance
      <4>1. Modest /\ BoundInv
        BY <2>1, <3>4, ModestMove DEF IInv
      <4>2. k = "trial"
        BY <1>1, <4>1 DEF IInv, RowInv, OpInv, Modest
      <4>3. Untouched
        <5>1. Unread
          BY <2>1 DEF Unread
        <5>2. \A o \in Requests : ~At(o, "first", "commit")
          BY <2>1 DEF Holding, At
        <5> QED BY <1>3, <4>1, <5>1, <5>2 DEF Untouched, Modest, RestartRepeated, MayRestart
      <4>4. rows.trial.exp <= rows.trial.created + Allowance
        BY <1>1, <4>1, <4>2, <4>3 DEF BoundInv, Bounded
      <4>5. Allowance \in Nat
        BY <2>1, <2>10, AllowanceIs DEF TypeInv
      <4> QED BY <2>2, <2>3, <4>2, <4>4, <4>5 DEF Window
    <3>5. Modest' => \A o \in Holding("first")' : req'[o].to <= now + Allowance
      BY <2>7, <2>14, <3>4
    <3>6. rows' = rows /\ now' = now /\ excused' = excused /\ faults' = faults
      BY <2>1
    <3> QED BY <2>10, <3>1, <3>2, <3>3, <3>5, <3>6, BoundStep
  <2> QED BY <2>10, <2>11, <2>12, <2>13, <2>15, <2>16, <2>17, <2>18, <2>19, <2>20 DEF IInv
<1> QED BY <1>1, <1>2, <1>3

-----------------------------------------------------------------------------
(* A webhook leaves.                                                        *)

LEMMA WithoutKinds ==
    ASSUME TypeInv, NEW k \in DOMAIN hooks, Without(k)
    PROVE  /\ \A i \in Untold' : \E j \in Untold : hooks'[i] = hooks[j]
           /\ FirstHooks' # {} => FirstHooks # {}
           /\ (\A i, j \in FirstHooks : i = j) => \A i, j \in FirstHooks' : i = j
           /\ (\A i, j \in FirstHooks : i = j) /\ k \in FirstHooks => FirstHooks' = {}
<1>1. hooks \in Seq(Hooks) /\ Len(hooks) \in Nat /\ DOMAIN hooks = 1..Len(hooks)
  BY LenProperties DEF TypeInv
<1>2. \A i \in DOMAIN hooks' : i \in DOMAIN hooks /\ i + 1 \in DOMAIN hooks
                               /\ hooks'[i] = IF i < k THEN hooks[i] ELSE hooks[i + 1]
  BY WithoutSub
<1>3. \A i \in Untold' : \E j \in Untold : hooks'[i] = hooks[j]
  BY <1>2 DEF Untold
<1>4. \A i \in FirstHooks' : \/ i \in FirstHooks /\ i < k
                             \/ i + 1 \in FirstHooks /\ i >= k
  BY <1>1, <1>2 DEF FirstHooks
<1>5. \A i \in FirstHooks' : i \in Nat /\ k \in Nat
  BY <1>1, <1>2 DEF FirstHooks
<1>6. ASSUME \A i, j \in FirstHooks : i = j, NEW i \in FirstHooks', NEW j \in FirstHooks'
      PROVE  i = j
  BY <1>4, <1>5, <1>6
<1>7. ASSUME \A i, j \in FirstHooks : i = j, k \in FirstHooks, NEW i \in FirstHooks' PROVE FALSE
  BY <1>4, <1>5, <1>7
<1> QED BY <1>3, <1>4, <1>6, <1>7

\* In order: what is told next moves up by one.
LEMMA WithoutHead ==
    ASSUME TypeInv, 1 \in DOMAIN hooks, Without(1)
    PROVE  /\ \A i \in Untold' : i + 1 \in Untold /\ hooks'[i] = hooks[i + 1]
           /\ \A i \in Untold' : LastTold(i)' => LastTold(i + 1)
           /\ Untold' = {} => \A j \in Untold : j = 1 /\ LastTold(1)
<1>1. hooks \in Seq(Hooks) /\ Len(hooks) \in Nat /\ DOMAIN hooks = 1..Len(hooks)
  BY LenProperties DEF TypeInv
<1>2. \A i \in DOMAIN hooks' : /\ i \in DOMAIN hooks /\ i + 1 \in DOMAIN hooks
                               /\ hooks'[i] = IF i < 1 THEN hooks[i] ELSE hooks[i + 1]
  BY WithoutSub
<1>3. DOMAIN hooks' = 1..(Len(hooks) - 1)
  BY <1>1, LenProperties DEF Without
<1>4. \A i \in DOMAIN hooks' : hooks'[i] = hooks[i + 1] /\ i \in Nat
  BY <1>1, <1>2
<1>5. \A i \in Untold' : i + 1 \in Untold /\ hooks'[i] = hooks[i + 1]
  BY <1>2, <1>4 DEF Untold
<1>6. ASSUME NEW j \in Untold, j # 1 PROVE j - 1 \in Untold' /\ j \in Nat
  <2>1. j \in 1..Len(hooks) /\ j - 1 \in 1..(Len(hooks) - 1) /\ (j - 1) + 1 = j
    BY <1>1, <1>6 DEF Untold
  <2>2. hooks'[j - 1] = hooks[j]
    BY <1>3, <1>4, <2>1
  <2> QED BY <1>3, <2>1, <2>2 DEF Untold
<1>7. ASSUME NEW i \in Untold', \A j \in Untold' : j <= i PROVE LastTold(i + 1)
  <2>1. i \in Nat
    BY <1>4 DEF Untold
  <2>2. ASSUME NEW j \in Untold PROVE j <= i + 1
    <3>1. CASE j = 1
      BY <2>1, <3>1
    <3>2. CASE j # 1
      BY <1>6, <1>7, <2>1, <3>2
    <3> QED BY <3>1, <3>2
  <2> QED BY <1>5, <2>2 DEF LastTold
<1>8. ASSUME Untold' = {}, NEW j \in Untold PROVE j = 1 /\ LastTold(1)
  <2>1. \A i \in Untold : i = 1
    BY <1>6, <1>8
  <2> QED BY <2>1 DEF LastTold
<1> QED BY <1>5, <1>7, <1>8 DEF LastTold

\* How a webhook is taken from those on their way, or stays.
LEMMA Taken ==
    ASSUME TypeInv, Deliver
    PROVE  \E k \in DOMAIN hooks :
             /\ Handle(k)
             /\ \/ k = 1 /\ Without(1) /\ UNCHANGED faults
                \/ Fault("again") /\ UNCHANGED hooks
                \/ Fault("late") /\ Without(k)
<1>1. hooks \in Seq(Hooks) /\ Len(hooks) \in Nat /\ DOMAIN hooks = 1..Len(hooks)
  BY LenProperties DEF TypeInv
<1>2. hooks # <<>> /\ 1 \in DOMAIN hooks
  <2>1. hooks # <<>>
    BY DEF Deliver
  <2>2. Len(hooks) # 0
    BY <1>1, <2>1, EmptySeq
  <2> QED BY <1>1, <2>1, <2>2
<1>3. CASE Handle(1) /\ hooks' = Tail(hooks) /\ UNCHANGED faults
  BY <1>2, <1>3, WithoutFirst
<1>4. CASE Handle(1) /\ Fault("again") /\ UNCHANGED hooks
  BY <1>2, <1>4
<1>5. CASE \E k \in 2..Len(hooks) : Handle(k) /\ Fault("late") /\ hooks' = RemoveAt(hooks, k)
  <2>1. PICK k \in 2..Len(hooks) : Handle(k) /\ Fault("late") /\ hooks' = RemoveAt(hooks, k)
    BY <1>5
  <2>2. k \in DOMAIN hooks /\ Without(k)
    BY <1>1, <2>1, WithoutLater
  <2> QED BY <2>1, <2>2
<1> QED BY <1>3, <1>4, <1>5 DEF Deliver

LEMMA TakenAway ==
    ASSUME TypeInv, NEW k \in DOMAIN hooks,
           \/ k = 1 /\ Without(1) /\ UNCHANGED faults
           \/ Fault("again") /\ UNCHANGED hooks
           \/ Fault("late") /\ Without(k)
    PROVE  /\ hooks' \in Seq(Hooks) /\ faults \subseteq faults' /\ faults' \subseteq Faults
           /\ "again" \notin faults' => Without(k)
           /\ ~Astray' => ~Astray /\ k = 1 /\ Without(1)
           /\ \A i \in Untold' : \E j \in Untold : hooks'[i] = hooks[j]
           /\ FirstHooks' # {} => FirstHooks # {}
<1>1. CASE Fault("again") /\ UNCHANGED hooks
  <2>1. /\ faults \subseteq faults' /\ faults' \subseteq Faults /\ "again" \in faults'
    BY <1>1, FaultCounts DEF TypeInv
  <2> QED BY <1>1, <2>1 DEF TypeInv, Astray, Untold, FirstHooks
<1>2. CASE Without(k) /\ ((k = 1 /\ UNCHANGED faults) \/ Fault("late"))
  <2>1. /\ \A i \in Untold' : \E j \in Untold : hooks'[i] = hooks[j]
        /\ FirstHooks' # {} => FirstHooks # {}
    BY <1>2, WithoutKinds
  <2>2. /\ faults \subseteq faults' /\ faults' \subseteq Faults
        /\ ~Astray' => ~Astray /\ k = 1
    BY <1>2, FaultCounts DEF TypeInv, CountInv, Astray
  <2>3. hooks' \in Seq(Hooks)
    BY <1>2 DEF Without
  <2> QED BY <1>2, <2>1, <2>2, <2>3
<1> QED BY <1>1, <1>2

-----------------------------------------------------------------------------
(* Steps of the panel, and of time.                                         *)

LEMMA WeightStill ==
    ASSUME IInv, TypeInv', req' = req, bonuses' = bonuses,
           UNCHANGED faults \/ \E k : Fault(k)
    PROVE  Weight <= Weight'
<1>1. Holding("bonus")' = Holding("bonus")
  BY DEF Holding
<1>2. CountInv /\ Cardinality(faults) \in Nat /\ Cardinality(Holding("bonus")) \in Nat
      /\ bonuses \in Nat
  BY Finite DEF IInv, TypeInv, CountInv
<1>3. CASE UNCHANGED faults
  BY <1>1, <1>2, <1>3 DEF Weight
<1>4. CASE \E k : Fault(k)
  <2>1. Cardinality(faults') = Cardinality(faults) + 1
    BY <1>2, <1>4, FaultCounts
  <2> QED BY <1>1, <1>2, <2>1 DEF Weight
<1> QED BY <1>3, <1>4

LEMMA BoundedStill ==
    ASSUME NEW x \in Int, NEW y \in Int, x <= y, TypeInv, Bounded(x), req' = req,
           rows'.trial # None => rows'.trial.exp <= y,
           \A i \in Untold' : \E j \in Untold : hooks'[i] = hooks[j]
    PROVE  Bounded(y)'
<1>1. ASSUME NEW o \in Requests PROVE Under(req'[o], y)
  <2>1. Under(req[o], x) /\ req'[o] = req[o]
    BY DEF Bounded
  <2>2. req[o] \in RequestType /\ Steps(req[o])
    BY Typed
  <2>3. /\ req[o].kind = "bonus" => req[o].seen \in Int
        /\ req[o].kind = "bonus" /\ req[o].pc \in {"panel", "commit"} => req[o].to \in Int
        /\ req[o].kind = "start" /\ req[o].pc = "commit" => req[o].to \in Int
    BY <2>2 DEF Steps
  <2> QED BY <2>1, <2>3 DEF Under
<1>2. \A j \in Untold : hooks[j].exp \in Int /\ hooks[j].exp <= x
  BY DEF TypeInv, Hooks, Bounded, Untold
<1>3. \A i \in Untold' : hooks'[i].exp <= y
  BY <1>2
<1> QED BY <1>1, <1>3 DEF Bounded

\* What only rows and webhooks change leaves the operations as they are.
LEMMA OpsStill ==
    ASSUME IInv, UNCHANGED <<req, current, panel, restarted, claimed, bonuses, restart, bought,
                             excused>>,
           \A k \in {"trial", "paid"} : rows[k] # None => rows'[k] # None
    PROVE  OpInv' /\ StartInv' /\ ClaimInv' /\ RestartInv' /\ CalmInv'
<1>1. OpInv'
  <2>1. \A o \in Requests : req'[o].kind = "first" /\ req'[o].pc # "read" => rows'[req'[o].of] # None
    <3> SUFFICES ASSUME NEW o \in Requests, req[o].kind = "first", req[o].pc # "read"
                 PROVE  rows'[req[o].of] # None
      OBVIOUS
    <3>1. rows[req[o].of] # None /\ req[o].of \in {"trial", "paid"}
      BY Typed DEF IInv, OpInv, Steps
    <3> QED BY <3>1
  <2> QED BY <2>1 DEF IInv, OpInv
<1>2. StartInv'
  BY DEF IInv, StartInv, At
<1>3. ClaimInv' /\ RestartInv'
  BY DEF IInv, ClaimInv, RestartInv, Holding
<1>4. CalmInv'
  BY DEF IInv, CalmInv
<1> QED BY <1>1, <1>2, <1>3, <1>4

LEMMA ModifiedInv ==
    ASSUME IInv, NEW k \in DOMAIN hooks, Modified(hooks[k]),
           UNCHANGED <<now, panel, connected, history>>,
           \/ k = 1 /\ Without(1) /\ UNCHANGED faults
           \/ Fault("again") /\ UNCHANGED hooks
           \/ Fault("late") /\ Without(k)
    PROVE  IInv'
<1>1. /\ UNCHANGED <<now, panel, connected, available, current, restarted, claimed, req,
                     excused, begun, trials, bonuses, restart, bought>>
      /\ rows' = [rows EXCEPT ![current].exp = hooks[k].exp]
      /\ k \in Untold /\ TypeInv
  BY DEF Modified, Synced, history, Untold, IInv
<1>2. /\ hooks' \in Seq(Hooks) /\ faults \subseteq faults' /\ faults' \subseteq Faults
      /\ "again" \notin faults' => Without(k)
      /\ ~Astray' => ~Astray /\ k = 1 /\ Without(1)
      /\ \A i \in Untold' : \E j \in Untold : hooks'[i] = hooks[j]
      /\ FirstHooks' # {} => FirstHooks # {}
  BY <1>1, TakenAway
<1>3. /\ current # None /\ current \in {"trial", "paid"} /\ rows[current] # None
      /\ rows.trial # None /\ hooks[k].exp \in Nat
  <2>1. current # None /\ current \in {"trial", "paid"}
    BY <1>1 DEF IInv, RowInv, TypeInv, DataInv
  <2>2. rows[current] # None /\ rows.trial # None
    BY <2>1, TrialsAssumption DEF IInv, RowInv
  <2>3. hooks[k].exp \in Nat
    BY <1>1 DEF TypeInv, Hooks, Untold
  <2> QED BY <2>1, <2>2, <2>3
<1>4. PICK c \in {"trial", "paid"}, e \in Nat : c = current /\ e = hooks[k].exp
  BY <1>3
<1>5. /\ rows' \in [{"trial", "paid"} -> {None} \cup Row]
      /\ rows'[c].exp = e /\ rows'[c] # None /\ rows'[c].created = rows[c].created
      /\ \A i \in {"trial", "paid"} \ {c} : rows'[i] = rows[i]
  BY <1>1, <1>3, <1>4, RowMove
<1>6. /\ rows'.trial # None /\ rows'.trial.created = rows.trial.created
      /\ rows'.paid = None <=> rows.paid = None
  BY <1>3, <1>4, <1>5
<1>7. TypeInv'
  <2>1. DataInv'
    BY <1>1, <1>5 DEF TypeInv, DataInv
  <2> QED BY <1>1, <1>2, <2>1 DEF TypeInv, CountInv, ReqInv
<1>8. RowInv'
  BY <1>1, <1>3, <1>6 DEF IInv, RowInv
<1>9. OpInv' /\ StartInv' /\ ClaimInv' /\ RestartInv' /\ CalmInv'
  BY <1>1, <1>3, <1>6, OpsStill
<1>10. FollowInv'
  <2> SUFFICES ASSUME "clash" \notin excused, ~Astray' PROVE FollowInv'
    BY <1>1 DEF FollowInv
  <2>1. /\ ~Astray /\ k = 1 /\ Without(1) /\ \A i \in Untold : LastTold(i) => hooks[i].exp = panel
    BY <1>2, <1>3 DEF IInv, FollowInv
  <2>2. /\ \A i \in Untold' : i + 1 \in Untold /\ hooks'[i] = hooks[i + 1]
        /\ \A i \in Untold' : LastTold(i)' => LastTold(i + 1)
        /\ Untold' = {} => \A j \in Untold : j = 1 /\ LastTold(1)
    BY <1>1, <2>1, WithoutHead
  <2>3. \A i \in Untold' : LastTold(i)' => hooks'[i].exp = panel'
    BY <1>1, <2>1, <2>2
  <2>4. ASSUME Untold' = {} PROVE rows'[current'].exp = panel'
    <3>1. hooks[1].exp = panel
      BY <1>1, <2>1, <2>2, <2>4
    <3> QED BY <1>1, <1>4, <1>5, <2>1, <3>1
  <2> QED BY <2>3, <2>4 DEF FollowInv
<1>11. FirstInv'
  <2> SUFFICES ASSUME "again" \notin faults' PROVE FirstInv' BY DEF FirstInv
  <2>1. FirstInv /\ "again" \notin faults /\ Without(k)
    BY <1>2 DEF IInv
  <2>2. FirstOps' = FirstOps
    BY <1>1 DEF FirstOps
  <2>3. (\A i, j \in FirstHooks : i = j) => \A i, j \in FirstHooks' : i = j
    BY <1>1, <2>1, WithoutKinds
  <2> QED BY <1>1, <1>2, <2>1, <2>2, <2>3 DEF FirstInv
<1>12. BoundInv'
  <2>1. Weight <= Weight'
    BY <1>1, <1>7, WeightStill
  <2>2. Untouched' => Untouched
    <3>1. \A o \in Requests : At(o, "first", "commit") => At(o, "first", "commit")'
      BY <1>1 DEF At
    <3>2. Unread' => Unread
      BY <1>1, <1>2 DEF Unread, At
    <3> QED BY <1>1, <1>2, <3>1, <3>2, UntouchedKept
  <2>3. ASSUME NEW x \in Int, NEW y \in Int, Bounded(x), x <= y PROVE Bounded(y)'
    <3>1. e <= x /\ rows.trial.exp <= x /\ rows.trial.exp \in Nat
      BY <1>1, <1>3, <1>4, <2>3, Created DEF Bounded
    <3>2. rows'.trial.exp <= y
      BY <1>4, <1>5, <2>3, <3>1
    <3> QED BY <1>1, <1>2, <2>3, <3>2, BoundedStill
  <2>4. \A o \in Holding("first")' : o \in Holding("first") /\ req'[o].to = req[o].to
    BY <1>1 DEF Holding
  <2> QED BY <1>1, <1>2, <1>3, <1>6, <1>7, <2>1, <2>2, <2>3, <2>4, BoundStep
<1> QED BY <1>7, <1>8, <1>9, <1>10, <1>11, <1>12 DEF IInv

LEMMA FirstConnectedInv ==
    ASSUME IInv, NEW k \in DOMAIN hooks, FirstConnected(hooks[k]),
           UNCHANGED <<now, panel, connected, history>>,
           \/ k = 1 /\ Without(1) /\ UNCHANGED faults
           \/ Fault("again") /\ UNCHANGED hooks
           \/ Fault("late") /\ Without(k)
    PROVE  IInv'
<1>1. /\ UNCHANGED <<now, panel, connected, available, rows, current, restarted, claimed,
                     trials, bonuses, restart, bought>>
      /\ k \in FirstHooks /\ k \notin Untold /\ TypeInv
  BY DEF FirstConnected, history, store, FirstHooks, Untold, IInv
<1>2. /\ hooks' \in Seq(Hooks) /\ faults \subseteq faults' /\ faults' \subseteq Faults
      /\ "again" \notin faults' => Without(k)
      /\ ~Astray' => ~Astray /\ k = 1 /\ Without(1)
      /\ \A i \in Untold' : \E j \in Untold : hooks'[i] = hooks[j]
      /\ FirstHooks' # {} => FirstHooks # {}
  BY <1>1, TakenAway
<1>3. UNCHANGED faults \/ \E f : Fault(f)
  OBVIOUS
<1>4. RowInv'
  BY <1>1, <1>2 DEF IInv, RowInv
<1>5. ASSUME excused \subseteq excused' PROVE FollowInv'
  <2> SUFFICES ASSUME "clash" \notin excused, ~Astray', current # None PROVE FollowInv'
    BY <1>1, <1>5 DEF FollowInv
  <2>1. /\ ~Astray /\ k = 1 /\ Without(1) /\ \A i \in Untold : LastTold(i) => hooks[i].exp = panel
        /\ Untold = {} => rows[current].exp = panel
    BY <1>2 DEF IInv, FollowInv
  <2>2. /\ \A i \in Untold' : i + 1 \in Untold /\ hooks'[i] = hooks[i + 1]
        /\ \A i \in Untold' : LastTold(i)' => LastTold(i + 1)
        /\ Untold' = {} => \A j \in Untold : j = 1 /\ LastTold(1)
    BY <1>1, <2>1, WithoutHead
  <2>3. \A i \in Untold' : LastTold(i)' => hooks'[i].exp = panel'
    BY <1>1, <2>1, <2>2
  <2>4. Untold' = {} => Untold = {}
    BY <1>1, <2>1, <2>2
  <2> QED BY <1>1, <2>1, <2>3, <2>4 DEF FollowInv
<1>6. "again" \notin faults' =>
          /\ connected /\ FirstOps = {} /\ FirstHooks' = {}
  <2> SUFFICES ASSUME "again" \notin faults' PROVE connected /\ FirstOps = {} /\ FirstHooks' = {}
    OBVIOUS
  <2>1. FirstInv /\ Without(k) /\ "again" \notin faults
    BY <1>2 DEF IInv
  <2>2. connected /\ FirstOps = {} /\ \A i, j \in FirstHooks : i = j
    BY <1>1, <2>1 DEF FirstInv
  <2> QED BY <1>1, <2>1, <2>2, WithoutKinds
<1>7. Unread
  BY <1>1 DEF Unread
<1>8. CASE UNCHANGED <<req, excused, begun>>
  <2>1. TypeInv'
    BY <1>1, <1>2, <1>8 DEF TypeInv, DataInv, CountInv, ReqInv
  <2>2. OpInv' /\ StartInv' /\ ClaimInv' /\ RestartInv' /\ CalmInv'
    BY <1>1, <1>8, OpsStill
  <2>3. FirstInv'
    BY <1>1, <1>6, <1>8 DEF FirstInv, FirstOps
  <2>4. BoundInv'
    <3>1. Weight <= Weight'
      BY <1>1, <1>3, <1>8, <2>1, WeightStill
    <3>2. Untouched' => Untouched
      <4>1. \A o \in Requests : At(o, "first", "commit") => At(o, "first", "commit")'
        BY <1>8 DEF At
      <4> QED BY <1>1, <1>2, <1>7, <4>1, UntouchedKept
    <3>3. ASSUME NEW x \in Int, NEW y \in Int, Bounded(x), x <= y PROVE Bounded(y)'
      <4>1. rows'.trial # None => rows'.trial.exp <= y
        <5>1. rows.trial # None => rows.trial.exp <= x /\ rows.trial.exp \in Nat
          BY <1>1, <3>3, Created DEF Bounded
        <5> QED BY <1>1, <3>3, <5>1
      <4> QED BY <1>1, <1>2, <1>8, <3>3, <4>1, BoundedStill
    <3>4. \A o \in Holding("first")' : o \in Holding("first") /\ req'[o].to = req[o].to
      BY <1>8 DEF Holding
    <3> QED BY <1>1, <1>2, <1>8, <2>1, <3>1, <3>2, <3>3, <3>4, BoundStep
  <2> QED BY <1>4, <1>5, <1>8, <2>1, <2>2, <2>3, <2>4 DEF IInv
<1>9. CASE OnTrial /\ \E r \in Requests : Begin(r, [Idle EXCEPT !.kind = "first", !.pc = "read"])
  <2> DEFINE q == [Idle EXCEPT !.kind = "first", !.pc = "read"]
  <2>1. q \in RequestType /\ Steps(q) /\ q.kind = "first" /\ q.pc = "read" /\ \A y : Under(q, y)
    BY DEF Idle, RequestType, Steps, Under
  <2>2. PICK r \in Requests : Begin(r, q)
    BY <1>9
  <2> HIDE DEF q
  <2>3. /\ ReqInv' /\ Only(r) /\ req'[r] = q /\ req[r].kind = "none" /\ begun' \in 0..MaxBegun
        /\ excused' \subseteq {"clash", "revived", "buying"} /\ excused \subseteq excused'
    BY <1>1, <2>1, <2>2, BeginMove
  <2>4. TypeInv'
    BY <1>1, <1>2, <2>3 DEF TypeInv, DataInv, CountInv
  <2>5. OpInv' /\ StartInv' /\ ClaimInv' /\ RestartInv' /\ CalmInv'
    BY <1>1, <1>9, <2>1, <2>2, BeginOps DEF OnTrial
  <2>6. FirstInv'
    <3>1. FirstOps' \subseteq FirstOps \cup {r}
      BY <2>3 DEF FirstOps, Only
    <3> QED BY <1>1, <1>6, <3>1 DEF FirstInv
  <2>7. BoundInv'
    <3>1. r \notin Holding("bonus") /\ r \notin Holding("bonus")' /\ r \notin Holding("first")'
      BY <2>1, <2>3 DEF Holding
    <3>2. Weight <= Weight'
      BY <1>1, <1>3, <2>3, <2>4, <3>1, WeightKept
    <3>3. Untouched' => Untouched
      <4>1. \A o \in Requests : At(o, "first", "commit") => At(o, "first", "commit")'
        BY <2>3 DEF At, Only
      <4> QED BY <1>1, <1>2, <1>7, <4>1, UntouchedKept
    <3>4. ASSUME NEW x \in Int, NEW y \in Int, Bounded(x), x <= y PROVE Bounded(y)'
      <4>1. rows'.trial # None => rows'.trial.exp <= y
        <5>1. rows.trial # None => rows.trial.exp <= x /\ rows.trial.exp \in Nat
          BY <1>1, <3>4, Created DEF Bounded
        <5> QED BY <1>1, <3>4, <5>1
      <4>2. \A j \in Untold : hooks[j].exp \in Int /\ hooks[j].exp <= x
        BY <1>1, <3>4 DEF TypeInv, Hooks, Bounded, Untold
      <4>3. \A i \in Untold' : hooks'[i].exp <= y
        BY <1>2, <3>4, <4>2
      <4> QED BY <1>1, <2>1, <2>3, <3>4, <4>1, <4>3, BoundedMove
    <3>5. \A o \in Holding("first")' : o \in Holding("first") /\ req'[o].to = req[o].to
      BY <2>3, <3>1 DEF Holding, Only
    <3> QED BY <1>1, <1>2, <2>3, <2>4, <3>2, <3>3, <3>4, <3>5, BoundStep
  <2> QED BY <1>4, <1>5, <2>3, <2>4, <2>5, <2>6, <2>7 DEF IInv
<1> QED BY <1>8, <1>9 DEF FirstConnected

LEMMA DeliverInv == ASSUME IInv, Deliver PROVE IInv'
<1>1. PICK k \in DOMAIN hooks :
        /\ Handle(k)
        /\ \/ k = 1 /\ Without(1) /\ UNCHANGED faults
           \/ Fault("again") /\ UNCHANGED hooks
           \/ Fault("late") /\ Without(k)
  BY Taken DEF IInv
<1>2. CASE Modified(hooks[k])
  BY <1>1, <1>2, ModifiedInv DEF Handle
<1>3. CASE FirstConnected(hooks[k])
  BY <1>1, <1>3, FirstConnectedInv DEF Handle
<1> QED BY <1>1, <1>2, <1>3 DEF Handle

LEMMA ConnectsInv == ASSUME IInv, Connects PROVE IInv'
<1> DEFINE h == [kind |-> "first", exp |-> None]
           n == Len(hooks) + 1
<1>1. /\ UNCHANGED <<now, available, rows, current, restarted, claimed, panel, req, trials,
                     bonuses, restart, bought, excused, begun, faults>>
      /\ ~connected /\ connected' = TRUE /\ hooks' = Append(hooks, h) /\ TypeInv
  BY DEF Connects, store, history, IInv
<1>2. h \in Hooks /\ h.kind = "first"
  BY DEF Hooks
<1> HIDE DEF h
<1>3. /\ hooks' \in Seq(Hooks) /\ DOMAIN hooks' = DOMAIN hooks \cup {n}
      /\ n \notin DOMAIN hooks /\ hooks'[n] = h
      /\ \A i \in DOMAIN hooks : hooks'[i] = hooks[i]
  BY <1>1, <1>2, AppendMove
<1> HIDE DEF n
<1>4. Untold' = Untold /\ \A i \in Untold : hooks'[i] = hooks[i]
  BY <1>2, <1>3 DEF Untold
<1>5. FirstHooks' = FirstHooks \cup {n}
  BY <1>2, <1>3 DEF FirstHooks
<1>6. TypeInv'
  BY <1>1, <1>3 DEF TypeInv, DataInv, CountInv, ReqInv
<1>7. RowInv'
  BY <1>1, <1>4 DEF IInv, RowInv
<1>8. OpInv' /\ StartInv' /\ ClaimInv' /\ RestartInv' /\ CalmInv'
  BY <1>1, OpsStill
<1>9. FollowInv'
  BY <1>1, <1>4 DEF IInv, FollowInv, LastTold, Astray
<1>10. FirstInv'
  <2>1. FirstOps' = FirstOps
    BY <1>1 DEF FirstOps
  <2> QED BY <1>1, <1>5, <2>1 DEF IInv, FirstInv
<1>11. BoundInv'
  <2>1. Weight <= Weight'
    BY <1>1, <1>6, WeightStill
  <2>2. Untouched' => Untouched
    <3>1. \A o \in Requests : At(o, "first", "commit") => At(o, "first", "commit")'
      BY <1>1 DEF At
    <3> QED BY <1>1, <3>1, UntouchedKept DEF Unread
  <2>3. ASSUME NEW x \in Int, NEW y \in Int, Bounded(x), x <= y PROVE Bounded(y)'
    <3>1. rows'.trial # None => rows'.trial.exp <= y
      <4>1. rows.trial # None => rows.trial.exp <= x /\ rows.trial.exp \in Nat
        BY <1>1, <2>3, Created DEF Bounded
      <4> QED BY <1>1, <2>3, <4>1
    <3> QED BY <1>1, <1>4, <2>3, <3>1, BoundedStill
  <2>4. \A o \in Holding("first")' : o \in Holding("first") /\ req'[o].to = req[o].to
    BY <1>1 DEF Holding
  <2> QED BY <1>1, <1>6, <2>1, <2>2, <2>3, <2>4, BoundStep
<1> QED BY <1>6, <1>7, <1>8, <1>9, <1>10, <1>11 DEF IInv

LEMMA LoseInv == ASSUME IInv, Lose PROVE IInv'
<1>1. /\ UNCHANGED <<now, available, rows, current, restarted, claimed, panel, connected, req,
                     trials, bonuses, restart, bought, excused, begun>>
      /\ hooks # <<>> /\ Fault("lost") /\ hooks' = Tail(hooks) /\ TypeInv
  BY DEF Lose, store, history, IInv
<1>2. Without(1) /\ 1 \in DOMAIN hooks
  BY <1>1, WithoutFirst
<1>3. faults \subseteq faults' /\ faults' \subseteq Faults /\ "lost" \in faults'
  BY <1>1, FaultCounts DEF TypeInv
<1>4. /\ \A i \in Untold' : \E j \in Untold : hooks'[i] = hooks[j]
      /\ FirstHooks' # {} => FirstHooks # {}
      /\ (\A i, j \in FirstHooks : i = j) => \A i, j \in FirstHooks' : i = j
  BY <1>1, <1>2, WithoutKinds
<1>5. TypeInv'
  BY <1>1, <1>2, <1>3 DEF TypeInv, DataInv, CountInv, ReqInv, Without
<1>6. RowInv'
  BY <1>1, <1>4 DEF IInv, RowInv
<1>7. OpInv' /\ StartInv' /\ ClaimInv' /\ RestartInv' /\ CalmInv'
  BY <1>1, OpsStill
<1>8. FollowInv'
  BY <1>3 DEF FollowInv, Astray
<1>9. FirstInv'
  <2>1. FirstOps' = FirstOps
    BY <1>1 DEF FirstOps
  <2> QED BY <1>1, <1>3, <1>4, <2>1 DEF IInv, FirstInv
<1>10. BoundInv'
  <2>1. Weight <= Weight'
    BY <1>1, <1>5, WeightStill
  <2>2. Untouched' => Untouched
    <3>1. \A o \in Requests : At(o, "first", "commit") => At(o, "first", "commit")'
      BY <1>1 DEF At
    <3>2. Unread' => Unread
      BY <1>1, <1>4 DEF Unread, At
    <3> QED BY <1>1, <1>3, <3>1, <3>2, UntouchedKept
  <2>3. ASSUME NEW x \in Int, NEW y \in Int, Bounded(x), x <= y PROVE Bounded(y)'
    <3>1. rows'.trial # None => rows'.trial.exp <= y
      <4>1. rows.trial # None => rows.trial.exp <= x /\ rows.trial.exp \in Nat
        BY <1>1, <2>3, Created DEF Bounded
      <4> QED BY <1>1, <2>3, <4>1
    <3> QED BY <1>1, <1>4, <2>3, <3>1, BoundedStill
  <2>4. \A o \in Holding("first")' : o \in Holding("first") /\ req'[o].to = req[o].to
    BY <1>1 DEF Holding
  <2> QED BY <1>1, <1>3, <1>5, <2>1, <2>2, <2>3, <2>4, BoundStep
<1> QED BY <1>5, <1>6, <1>7, <1>8, <1>9, <1>10 DEF IInv

LEMMA DayInv == ASSUME IInv, Day PROVE IInv'
<1>1. /\ UNCHANGED <<available, rows, current, restarted, claimed, panel, connected, hooks, req,
                     trials, bonuses, restart, bought, excused, begun, faults>>
      /\ now < MaxTime /\ now' = now + 1 /\ TypeInv
      /\ \A r \in Requests : req[r].pc = "idle"
  BY DEF Day, store, history, IInv
<1>2. now \in Nat /\ now' \in 0..MaxTime /\ now <= now' /\ now' \in Nat
  BY <1>1, TrialsAssumption DEF TypeInv, DataInv
<1>3. TypeInv'
  BY <1>1, <1>2 DEF TypeInv, DataInv, CountInv, ReqInv
<1>4. RowInv'
  <2>1. rows'.trial # None => rows'.trial.created <= now'
    BY <1>1, <1>2, Created DEF IInv, RowInv
  <2> QED BY <1>1, <2>1 DEF IInv, RowInv, Untold
<1>5. OpInv' /\ StartInv' /\ ClaimInv' /\ RestartInv' /\ CalmInv'
  BY <1>1, OpsStill
<1>6. FollowInv'
  BY <1>1 DEF IInv, FollowInv, LastTold, Untold, Astray
<1>7. FirstInv'
  BY <1>1 DEF IInv, FirstInv, FirstHooks, FirstOps
<1>8. BoundInv'
  <2> SUFFICES ASSUME Modest' PROVE BoundInv' BY DEF BoundInv
  <2>1. Modest /\ BoundInv
    BY <1>1, ModestMove DEF IInv
  <2>2. Weight' = Weight /\ Allowance \in Nat
    BY <1>1, <1>3, AllowanceIs DEF Weight, Holding, TypeInv
  <2>3. Allowance' = Allowance
    BY <2>2 DEF Allowance
  <2>4. ASSUME NEW x \in Int, NEW y \in Int, x <= y, Bounded(x) PROVE Bounded(y)'
    <3>1. rows'.trial # None => rows'.trial.exp <= y
      <4>1. rows.trial # None => rows.trial.exp <= x /\ rows.trial.exp \in Nat
        BY <1>1, <2>4, Created DEF Bounded
      <4> QED BY <1>1, <2>4, <4>1
    <3>2. \A i \in Untold' : \E j \in Untold : hooks'[i] = hooks[j]
      BY <1>1 DEF Untold
    <3> QED BY <1>1, <2>4, <3>1, <3>2, BoundedStill
  <2>5. Bounded(now + Allowance)'
    <3>1. PICK x \in Int : x = now + Allowance
      BY <1>2, <2>2
    <3>2. now' + Allowance = x + 1
      BY <1>1, <1>2, <2>2, <3>1
    <3>3. PICK y \in Int : y = now' + Allowance
      BY <3>2
    <3>4. x <= y
      BY <3>2, <3>3
    <3>5. Bounded(x)
      BY <2>1, <3>1 DEF BoundInv
    <3>6. Bounded(y)'
      BY <2>4, <3>4, <3>5
    <3> QED BY <2>3, <3>3, <3>6 DEF Bounded
  <2>6. Holding("first")' = {}
    BY <1>1 DEF Holding
  <2>7. ASSUME Untouched', rows'.trial # None PROVE Bounded(rows.trial.created + Allowance)'
    <3>1. Untouched
      BY <1>1, <2>7 DEF Untouched, Unread, At, FirstHooks
    <3>2. PICK x \in Int : x = rows.trial.created + Allowance
      BY <1>1, <2>2, <2>7, Created
    <3>3. Bounded(x)
      BY <1>1, <2>1, <2>7, <3>1, <3>2 DEF BoundInv
    <3>4. Bounded(x)'
      BY <2>4, <3>3
    <3> QED BY <1>1, <2>3, <3>2, <3>4 DEF Bounded
  <2> QED BY <2>5, <2>6, <2>7 DEF BoundInv
<1> QED BY <1>3, <1>4, <1>5, <1>6, <1>7, <1>8 DEF IInv

LEMMA StillInv == ASSUME IInv, UNCHANGED vars PROVE IInv'
<1>1. UNCHANGED <<now, available, rows, current, restarted, claimed, panel, connected, hooks, req,
                  trials, bonuses, restart, bought, excused, begun, faults>>
  BY DEF vars
<1>2. TypeInv' /\ RowInv' /\ OpInv' /\ StartInv'
  BY <1>1 DEF IInv, TypeInv, DataInv, CountInv, ReqInv, RowInv, Untold, OpInv, StartInv, At
<1>3. ClaimInv' /\ RestartInv' /\ CalmInv'
  BY <1>1 DEF IInv, ClaimInv, RestartInv, Holding, CalmInv
<1>4. FollowInv' /\ FirstInv'
  BY <1>1 DEF IInv, FollowInv, LastTold, Untold, Astray, FirstInv, FirstHooks, FirstOps
<1>5. BoundInv'
  BY <1>1 DEF IInv, BoundInv, Bounded, Modest, RestartRepeated, Untouched, Unread, At, FirstHooks,
              Allowance, Weight, Holding, Untold
<1> QED BY <1>2, <1>3, <1>4, <1>5 DEF IInv

-----------------------------------------------------------------------------
(* The invariant holds.                                                     *)

LEMMA InitInv == Init => IInv
<1> SUFFICES ASSUME Init PROVE IInv OBVIOUS
<1>1. /\ now = 0 /\ available = TRUE /\ rows = [trial |-> None, paid |-> None] /\ current = None
      /\ panel = None /\ connected = FALSE /\ restarted = FALSE /\ claimed = {} /\ hooks = <<>>
      /\ req = [r \in Requests |-> Idle] /\ trials = 0 /\ bonuses = 0 /\ restart = None
      /\ bought = None /\ excused = {} /\ begun = 0 /\ faults = {}
  BY DEF Init
<1>2. \A r \in Requests : req[r] = Idle /\ req[r].kind = "none" /\ req[r].pc = "idle"
  BY <1>1, IdleType
<1>3. DOMAIN hooks = {} /\ hooks \in Seq(Hooks)
  BY <1>1, EmptySeq
<1>4. TypeInv
  <2>1. rows \in [{"trial", "paid"} -> {None} \cup Row]
    BY <1>1
  <2>2. DataInv
    <3>1. 0 \in 0..MaxTime
      BY TrialsAssumption
    <3> QED BY <1>1, <2>1, <3>1 DEF DataInv
  <2>3. ReqInv
    BY <1>1, <1>2, IdleType DEF ReqInv
  <2>4. CountInv
    BY <1>1, TrialsAssumption DEF CountInv
  <2> QED BY <1>3, <2>2, <2>3, <2>4 DEF TypeInv
<1>5. rows.trial = None /\ rows.paid = None
  BY <1>1
<1>6. RowInv
  BY <1>1, <1>3, <1>5, TrialsAssumption DEF RowInv, Untold
<1>7. OpInv /\ StartInv
  BY <1>1, <1>2 DEF OpInv, StartInv, Acting, At
<1>8. \A k : Holding(k) = {}
  BY <1>2 DEF Holding
<1>9. ClaimInv /\ RestartInv
  BY <1>1, <1>8, FS_EmptySet DEF ClaimInv, RestartInv
<1>10. CalmInv
  BY <1>1, <1>2 DEF CalmInv, Clash, Acting
<1>11. FollowInv
  BY <1>1 DEF FollowInv
<1>12. FirstInv
  BY <1>2, <1>3 DEF FirstInv, FirstHooks, FirstOps
<1>13. BoundInv
  <2>1. \A x : Bounded(x)
    BY <1>1, <1>2, <1>3, <1>5, IdleType DEF Bounded, Untold
  <2> QED BY <1>5, <1>8, <2>1 DEF BoundInv
<1> QED BY <1>4, <1>6, <1>7, <1>9, <1>10, <1>11, <1>12, <1>13 DEF IInv

LEMMA NextInv == IInv /\ [Next]_vars => IInv'
<1> SUFFICES ASSUME IInv, [Next]_vars PROVE IInv' OBVIOUS
<1>1. CASE UNCHANGED vars
  BY <1>1, StillInv
<1>2. CASE Connects \/ Deliver \/ Lose \/ Day
  BY <1>2, ConnectsInv, DeliverInv, LoseInv, DayInv
<1>3. ASSUME NEW r \in Requests,
             \/ AskTrial(r) \/ CreateUser(r) \/ RecordTrial(r)
             \/ \E b \in Broadcasts : PressBonus(r, b)
             \/ Claim(r) \/ GrantBonus(r)
             \/ ReadClock(r) \/ SaveClock(r) \/ Buy(r) \/ Convert(r) \/ Crash(r)
             \/ \E kind \in {"bonus", "first", "buy"} : CallPanel(r, kind)
      PROVE  IInv'
  BY <1>3, AskTrialInv, CreateUserInv, RecordTrialInv, PressBonusInv, ClaimInvKept,
     GrantBonusInv, ReadClockInv, SaveClockInv, BuyInv, ConvertInv, CrashInv, CallPanelInv
<1> QED BY <1>1, <1>2, <1>3 DEF Next

\* What the operations, the panel and its webhooks rely on holds in every state, whatever
\* overlaps, fails, is repeated or gets lost.
THEOREM Invariant == Spec => []IInv
<1>1. Init => IInv
  BY InitInv
<1>2. IInv /\ [Next]_vars => IInv'
  BY NextInv
<1> QED BY <1>1, <1>2, PTL DEF Spec

\* A user gets one trial, and no more days of it than were granted, however many operations
\* run at once, whatever the panel answers, and whatever becomes of its webhooks.
THEOREM GrantedAndNoMore == Spec => []GrantedOnce
<1>1. IInv => GrantedOnce
  <2> SUFFICES ASSUME IInv PROVE GrantedOnce OBVIOUS
  <2>1. TypeInv /\ RowInv /\ ClaimInv /\ BoundInv
    BY DEF IInv
  <2>2. TypeOK
    <3>1. current # None => rows[current] # None
      <4>1. current = "trial" => rows.trial # None
        BY <2>1, TrialsAssumption DEF RowInv
      <4>2. current = "paid" => rows.paid # None
        BY <2>1 DEF RowInv
      <4> QED BY <2>1, <4>1, <4>2 DEF TypeInv, DataInv
    <3>2. ToSet(hooks) \subseteq [kind : {"modified", "first"}, exp : Nat \cup {None}]
      <4>1. \A k \in DOMAIN hooks : hooks[k] \in Hooks
        BY <2>1, ElementOfSeq, LenProperties DEF TypeInv
      <4> QED BY <4>1 DEF ToSet, Hooks
    <3>3. \A r \in Requests : req[r].kind \in {"none", "start", "bonus", "first", "buy"}
      BY <2>1 DEF TypeInv, ReqInv, RequestType
    <3> QED BY <2>1, <3>1, <3>2, <3>3 DEF TypeOK, TypeInv, DataInv, CountInv
  <2>3. OneTrial
    BY <2>1 DEF RowInv, OneTrial
  <2>4. NoMoreThanGranted
    <3> SUFFICES ASSUME Quiet, current = "trial", ~RestartRepeated,
                        excused \cap {"revived", "buying"} = {}
                 PROVE  /\ bonuses <= Cardinality(Broadcasts)
                        /\ rows.trial.exp - now <= Granted + Bonus * (bonuses + Cardinality(faults))
      BY DEF NoMoreThanGranted
    <3>1. bonuses <= Cardinality(Broadcasts)
      BY <2>1, TrialsAssumption, FS_Subset DEF ClaimInv, TypeInv, DataInv
    <3>2. Holding("bonus") = {} /\ Cardinality(Holding("bonus")) = 0
      BY FS_EmptySet DEF Quiet, Holding
    <3>3. /\ bonuses \in Nat /\ Cardinality(faults) \in Nat
      BY <2>1, Finite DEF TypeInv, CountInv
    <3>4. Weight = bonuses + Cardinality(faults)
      BY <3>2, <3>3 DEF Weight
    <3>5. rows.trial # None /\ rows.trial.exp \in Nat /\ now \in Nat
      BY <2>1, Created, TrialsAssumption DEF RowInv, TypeInv, DataInv
    <3>6. rows.trial.exp <= now + Allowance
      BY <2>1, <3>5 DEF BoundInv, Bounded, Modest
    <3>7. Allowance \in Nat /\ Allowance = Granted + Bonus * (bonuses + Cardinality(faults))
      <4>1. Bonus * (bonuses + Cardinality(faults)) \in Nat
        BY <3>3, TrialsAssumption
      <4> QED BY <3>4, <4>1, TrialsAssumption DEF Allowance
    <3>8. rows.trial.exp - now <= Allowance
      BY <3>5, <3>6, <3>7
    <3> QED BY <3>1, <3>7, <3>8
  <2> QED BY <2>2, <2>3, <2>4 DEF GrantedOnce
<1> QED BY <1>1, Invariant, PTL

\* Once all is answered and delivered, database and panel have the same expiry, and it is at
\* least what was paid for, unless operations that compute from one subscription overlapped
\* or the panel's webhooks went astray.
THEOREM Settles == Spec => []SettledWhenQuiet
<1>1. IInv => SettledWhenQuiet
  <2> SUFFICES ASSUME IInv, Quiet, "clash" \notin excused, ~Astray
               PROVE  /\ bought # None => panel >= bought + Term /\ rows.paid.exp >= bought + Term
                      /\ current # None => rows[current].exp = panel
    BY DEF SettledWhenQuiet, PaidIsKept, RowFollowsPanel
  <2>1. TypeInv /\ RowInv /\ CalmInv /\ FollowInv
    BY DEF IInv
  <2>2. Untold = {}
    BY EmptySeq DEF Quiet, Untold
  <2>3. current # None => rows[current].exp = panel
    BY <2>1, <2>2 DEF FollowInv
  <2>4. ASSUME bought # None PROVE panel >= bought + Term /\ rows.paid.exp >= bought + Term
    <3>1. panel = bought + Term /\ current = "paid" /\ current # None
      BY <2>1, <2>4, TrialsAssumption DEF CalmInv, RowInv
    <3>2. bought + Term \in Nat
      BY <2>1, <2>4, TrialsAssumption DEF TypeInv, CountInv
    <3> QED BY <2>3, <3>1, <3>2
  <2> QED BY <2>3, <2>4
<1> QED BY <1>1, Invariant, PTL

\* The clock of a trial restarts once, whatever the panel repeats and whatever fails.
THEOREM RestartedOnce == Spec => RestartsOnce
<1>1. IInv /\ [Next]_vars => [restart' # restart => restart = None]_vars
  <2> SUFFICES ASSUME IInv, Next, restart' # restart PROVE restart = None OBVIOUS
  <2> USE DEF history
  <2>1. ASSUME NEW r \in Requests, SaveClock(r) PROVE restart = None
    <3>1. r \in Holding("first")
      BY <2>1 DEF SaveClock, At, Holding
    <3> QED BY <3>1 DEF IInv, RestartInv
  <2>2. ASSUME NEW r \in Requests,
               \/ AskTrial(r) \/ CreateUser(r) \/ RecordTrial(r)
               \/ \E b \in Broadcasts : PressBonus(r, b)
               \/ Claim(r) \/ GrantBonus(r) \/ ReadClock(r) \/ Buy(r) \/ Convert(r) \/ Crash(r)
        PROVE  FALSE
    BY <2>2 DEF AskTrial, CreateUser, RecordTrial, PressBonus, Claim, GrantBonus, ReadClock, Buy,
                Convert, Crash
  <2>3. ASSUME NEW r \in Requests, NEW kind, CallPanel(r, kind) PROVE FALSE
    BY <2>3 DEF CallPanel
  <2>4. ASSUME Connects \/ Deliver \/ Lose \/ Day PROVE FALSE
    BY <2>4 DEF Connects, Deliver, Handle, Lose, Day
  <2> QED BY <2>1, <2>2, <2>3, <2>4 DEF Next
<1> QED BY <1>1, Invariant, PTL DEF Spec, RestartsOnce

=============================================================================
