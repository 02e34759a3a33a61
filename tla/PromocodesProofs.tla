-------------------------- MODULE PromocodesProofs --------------------------
(* Theorems of Promocodes for any users, requests, rewards and limits.      *)
EXTENDS Promocodes, FiniteSetTheorems, TLAPS

(***************************************************************************)
(* The inductive invariant, in five parts over the types.                  *)
(***************************************************************************)

Excuses == {"clash", "parallel", "stray"}

RequestType == [pc : {"idle", "read", "panel", "commit"}, user : Users \cup {None},
                kind : {"promo", "purchase"}, seen : Codes \cup BOOLEAN \cup {None},
                base : Days, cut : BOOLEAN]

Flying(r) == req[r].pc # "idle"

ReqOK ==
    \A r \in Requests : req[r].pc \in {"idle", "read", "panel", "commit"}
                         /\ (req[r].pc # "idle" => req[r].user \in Users)

ReqInv ==
    /\ ReqOK
    /\ req \in [Requests -> RequestType]
    /\ \A r \in Requests :
        /\ Flying(r) <=> req[r].user # None
        /\ Flying(r) => IF req[r].kind = "promo" THEN req[r].seen \in Codes
                        ELSE req[r].seen \in BOOLEAN

TypeInv ==
    /\ TypeOK /\ ReqInv
    /\ IsFiniteSet(acts)
    /\ invoices \in [Users -> SUBSET [n : Nat, cut : BOOLEAN]]
    /\ bought \in [Users -> [full : Nat, cut : Nat]]
    /\ won \in [Users -> [days : Nat, cut : Nat]]
    /\ excused \in [Users -> SUBSET Excuses]
    /\ widest \in [max : Nat, unlimited : BOOLEAN, reusable : BOOLEAN]

\* What the code allows, now or when it was validated, its administrator once allowed.
Covered(c) ==
    /\ c.max = 0 => widest.unlimited
    /\ c.max <= widest.max
    /\ c.reusable => widest.reusable

CodeInv ==
    /\ code # None => Covered(code)
    /\ \A r \in Requests : Flying(r) /\ req[r].kind = "promo" => Covered(req[r].seen)
    /\ LimitHeld /\ OncePerUser

\* What was read is earned, whatever has happened since.
Reading(r) == req[r].pc \in {"panel", "commit"}

EarnInv ==
    /\ \A u \in Users : IF sub[u] = None THEN Earned(u) = 0 ELSE sub[u] <= Earned(u)
    /\ \A r \in Requests, u \in Users :
        Reading(r) /\ req[r].user = u /\ req[r].base # None => req[r].base <= Earned(u)

\* A request that pushed an expiry and has yet to record it.
Pushed(r) ==
    /\ req[r].pc = "commit"
    /\ req[r].kind = "promo" => req[r].seen.type # "PURCHASE_DISCOUNT"

\* A discount has nothing to push.
PushInv ==
    \A r \in Requests : req[r].pc = "panel" /\ req[r].kind = "promo"
                           => req[r].seen.type # "PURCHASE_DISCOUNT"

\* While the requests of a user follow one another, what was read is still there, and
\* the panel is ahead of the row by what the one in flight pushed.
Alone(u) == \A q, r \in Requests : req[q].user = u /\ req[r].user = u => q = r

CalmAt(u) ==
    "clash" \notin excused[u] =>
        /\ Alone(u)
        /\ sub[u] # None => sub[u] = Earned(u)
        /\ \A r \in Requests : req[r].user = u =>
            /\ Reading(r) => req[r].base = sub[u]
            /\ Pushed(r) => panel[u] = Expiry(r)
        /\ "stray" \notin excused[u] /\ (\A r \in Requests : req[r].user = u => ~Pushed(r))
              => panel[u] = sub[u]

CalmInv == \A u \in Users : CalmAt(u)

\* A user's discount is one that was won and is not spent; an invoice or a purchase
\* priced with it is the only one of its user, and resets it.
Buying(r, u) == req[r].user = u /\ req[r].kind = "purchase"

SpendAt(u) ==
    excused[u] \cap {"clash", "parallel"} = {} =>
        /\ bought[u].cut <= won[u].cut
        /\ discount[u] => bought[u].cut < won[u].cut
        /\ \A i, j \in invoices[u] : i = j
        /\ \A i \in invoices[u] : i.cut => discount[u]
        /\ \A r \in Requests : Buying(r, u) =>
            /\ invoices[u] = {}
            /\ req[r].cut => req[r].seen /\ discount[u]

SpendInv == \A u \in Users : SpendAt(u)

IInv == TypeInv /\ CodeInv /\ EarnInv /\ PushInv /\ CalmInv /\ SpendInv

-----------------------------------------------------------------------------
(* Types.                                                                   *)

LEMMA InitType == Init => TypeInv
<1> SUFFICES ASSUME Init PROVE TypeInv OBVIOUS
<1> USE PromocodesAssumption
<1>1. NoRequest \in RequestType
  BY DEF NoRequest, RequestType, Days
<1>2. TypeOK
  BY DEF Init, TypeOK, Days, NoRequest
<1> QED BY <1>1, <1>2, FS_EmptySet
        DEF Init, TypeInv, TypeOK, ReqInv, ReqOK, Flying, NoRequest, Excuses

\* The requests are typed as long as the one that moves is.
LEMMA MoveType ==
    ASSUME TypeInv, NEW r \in Requests, NEW x \in RequestType,
           req' = [req EXCEPT ![r] = x],
           x.pc # "idle" <=> x.user # None,
           x.pc # "idle" => IF x.kind = "promo" THEN x.seen \in Codes ELSE x.seen \in BOOLEAN
    PROVE  /\ ReqInv'
           /\ \A q \in Requests : req'[q] = IF q = r THEN x ELSE req[q]
<1>1. \A q \in Requests : req'[q] = IF q = r THEN x ELSE req[q]
  BY DEF TypeInv, ReqInv
<1>2. req' \in [Requests -> RequestType]
  BY DEF TypeInv, ReqInv
<1>3. ReqOK'
  BY <1>2 DEF ReqOK, RequestType, Flying, TypeInv, ReqInv
<1> QED BY <1>1, <1>2, <1>3 DEF TypeInv, ReqInv, Flying

LEMMA DropType ==
    ASSUME TypeInv, NEW r \in Requests, Drop(r)
    PROVE  /\ ReqInv'
           /\ \A q \in Requests : req'[q] = IF q = r THEN NoRequest ELSE req[q]
<1>1. NoRequest \in RequestType /\ NoRequest.pc = "idle" /\ NoRequest.user = None
  BY DEF NoRequest, RequestType, Days
<1> QED BY <1>1, MoveType DEF Drop

LEMMA EditedCode == ASSUME TypeInv, CreatePromocode \/ UpdatePromocode PROVE code' \in Codes
<1>1. CASE CreatePromocode
  <2>1. PICK t \in RewardTypes, n \in Limits :
          code' = [active |-> TRUE, max |-> n, reusable |-> FALSE, type |-> t]
    BY <1>1 DEF CreatePromocode
  <2> QED BY <2>1 DEF Codes
<1>2. CASE UpdatePromocode
  <2>1. code \in Codes
    BY <1>2 DEF UpdatePromocode, TypeInv, TypeOK
  <2>2. code.active \in BOOLEAN /\ code.reusable \in BOOLEAN
    BY <2>1 DEF Codes
  <2>3. \A b \in BOOLEAN : [code EXCEPT !.active = b] \in Codes
                           /\ [code EXCEPT !.reusable = b] \in Codes
    BY <2>1 DEF Codes
  <2>4. [code EXCEPT !.active = ~@] \in Codes /\ [code EXCEPT !.reusable = ~@] \in Codes
    <3>1. (~code.active) \in BOOLEAN /\ (~code.reusable) \in BOOLEAN
      OBVIOUS
    <3> QED BY <2>3, <3>1, Zenon
  <2>5. \A n \in Limits : [code EXCEPT !.max = n] \in Codes
    BY <2>1 DEF Codes
  <2>6. \A t \in RewardTypes : [code EXCEPT !.type = t] \in Codes
    BY <2>1 DEF Codes
  <2> QED BY <1>2, <2>4, <2>5, <2>6, Zenon DEF UpdatePromocode
<1> QED BY <1>1, <1>2

LEMMA EditType == ASSUME TypeInv, CreatePromocode \/ UpdatePromocode PROVE TypeInv'
<1> USE PromocodesAssumption
<1>1. code' \in Codes /\ Edit
  BY EditedCode DEF CreatePromocode, UpdatePromocode
<1>2. widest' \in [max : Nat, unlimited : BOOLEAN, reusable : BOOLEAN]
  <2>1. code'.max \in Nat /\ widest.max \in Nat
    <3>1. code'.max \in Limits \cup {0}
      BY <1>1 DEF Codes
    <3>2. widest \in [max : Nat, unlimited : BOOLEAN, reusable : BOOLEAN]
      BY DEF TypeInv
    <3>3. widest.max \in Nat
      BY <3>2
    <3>4. \A n \in Limits \cup {0} : n \in Nat
      OBVIOUS
    <3>5. code'.max \in Nat
      BY <3>1, <3>4, Zenon
    <3> QED BY <3>3, <3>5, Zenon
  <2>2. (widest.unlimited \/ code'.max = 0) \in BOOLEAN
        /\ (widest.reusable \/ code'.reusable) \in BOOLEAN
    OBVIOUS
  <2>3. \A n \in Nat, a, b \in BOOLEAN :
          [max |-> n, unlimited |-> a, reusable |-> b]
            \in [max : Nat, unlimited : BOOLEAN, reusable : BOOLEAN]
    OBVIOUS
  <2>4. (IF code'.max > widest.max THEN code'.max ELSE widest.max) \in Nat
    BY <2>1
  <2>5. [max |-> IF code'.max > widest.max THEN code'.max ELSE widest.max,
         unlimited |-> widest.unlimited \/ code'.max = 0,
         reusable |-> widest.reusable \/ code'.reusable]
          \in [max : Nat, unlimited : BOOLEAN, reusable : BOOLEAN]
    BY <2>2, <2>3, <2>4, Zenon
  <2> QED BY <1>1, <2>5, Zenon DEF Edit, Widen
<1>3. ReqInv'
  BY <1>1 DEF Edit, TypeInv, ReqInv, ReqOK, Flying
<1> QED BY <1>1, <1>2, <1>3 DEF Edit, access, orders, TypeInv, TypeOK

LEMMA ValidateType == ASSUME TypeInv, NEW r \in Requests, NEW u \in Users, Validate(r, u)
                      PROVE  TypeInv'
<1> DEFINE x == [pc |-> "read", user |-> u, kind |-> "promo", seen |-> code, base |-> None,
                 cut |-> FALSE]
<1>1. code \in Codes
  BY DEF Validate, Valid, TypeInv, TypeOK
<1>2. x \in RequestType
  BY <1>1 DEF RequestType, Days
<1>3. req' = [req EXCEPT ![r] = x]
  BY Zenon DEF Validate, Begin
<1>4. excused' \in [Users -> SUBSET Excuses]
  BY DEF Validate, Excuse, TypeInv, Excuses
<1>5. x.pc = "read" /\ x.user # None /\ x.kind = "promo" /\ x.seen \in Codes
  BY <1>1, PromocodesAssumption
<1> HIDE DEF x
<1>6. ReqInv'
  BY <1>2, <1>3, <1>5, MoveType
<1>7. begun' \in 0 .. MaxBegun
  BY PromocodesAssumption DEF Validate, Begin, TypeInv, TypeOK
<1> QED BY <1>4, <1>6, <1>7 DEF Validate, admin, access, orders, TypeInv, TypeOK, ReqInv, ReqOK

LEMMA PayType == ASSUME TypeInv, NEW r \in Requests, NEW u \in Users, Pay(r, u) PROVE TypeInv'
<1>1. PICK i \in invoices[u] :
        /\ invoices' = [invoices EXCEPT ![u] = @ \ {i}]
        /\ Begin(r, [pc |-> "read", user |-> u, kind |-> "purchase",
                     seen |-> discount[u], base |-> None, cut |-> i.cut])
  BY DEF Pay
<1> DEFINE x == [pc |-> "read", user |-> u, kind |-> "purchase", seen |-> discount[u],
                 base |-> None, cut |-> i.cut]
<1>2. discount[u] \in BOOLEAN /\ i.cut \in BOOLEAN
  BY DEF TypeInv, TypeOK
<1>3. x \in RequestType
  BY <1>2 DEF RequestType, Days
<1>4. req' = [req EXCEPT ![r] = x] /\ begun' \in 0 .. MaxBegun
  <2>1. begun' \in 0 .. MaxBegun
    BY <1>1, PromocodesAssumption DEF Begin, TypeInv, TypeOK
  <2> QED BY <1>1, <2>1, Zenon DEF Begin
<1>5. excused' \in [Users -> SUBSET Excuses]
  <2>1. excused' = excused \/ excused' = [excused EXCEPT ![u] = @ \cup {"clash"}]
    BY Zenon DEF Pay, Excuse
  <2> QED BY <2>1 DEF TypeInv, Excuses
<1>6. invoices' \in [Users -> SUBSET [n : Nat, cut : BOOLEAN]]
  BY <1>1 DEF TypeInv
<1>7. x.pc = "read" /\ x.user # None /\ x.kind = "purchase" /\ x.seen \in BOOLEAN
  BY <1>2, PromocodesAssumption
<1> HIDE DEF x
<1>8. ReqInv'
  BY <1>3, <1>4, <1>7, MoveType
<1> QED BY <1>4, <1>5, <1>6, <1>8 DEF Pay, admin, access, TypeInv, TypeOK, ReqInv, ReqOK

LEMMA InvoiceType == ASSUME TypeInv, NEW u \in Users, Invoice(u) PROVE TypeInv'
<1>1. excused' \in [Users -> SUBSET Excuses]
  BY DEF Invoice, Excuse, TypeInv, Excuses
<1>2. issued \in Nat /\ discount[u] \in BOOLEAN
  BY DEF TypeInv, TypeOK
<1>3. [n |-> issued, cut |-> discount[u]] \in [n : Nat, cut : BOOLEAN]
  BY <1>2
<1>4. invoices' \in [Users -> SUBSET [n : Nat, cut : BOOLEAN]]
  BY <1>3 DEF Invoice, TypeInv
<1>5. ReqInv'
  BY DEF Invoice, TypeInv, ReqInv, ReqOK, Flying
<1> QED BY <1>1, <1>4, <1>5, PromocodesAssumption
        DEF Invoice, admin, access, TypeInv, TypeOK

LEMMA ReadType == ASSUME TypeInv, NEW r \in Requests, ReadSubscription(r) PROVE TypeInv'
<1>1. PICK s \in {"panel", "commit"} :
        req' = [req EXCEPT ![r].base = sub[req[r].user], ![r].pc = s]
  BY DEF ReadSubscription
<1> DEFINE x == [req[r] EXCEPT !.base = sub[req[r].user], !.pc = s]
<1>2. req[r] \in RequestType /\ Flying(r) /\ sub[req[r].user] \in Days
  BY DEF TypeInv, TypeOK, ReqInv, ReadSubscription, Flying
<1>3. x \in RequestType /\ x.pc = s /\ x.user = req[r].user /\ x.kind = req[r].kind
      /\ x.seen = req[r].seen
  BY <1>2 DEF RequestType
<1>4. req' = [req EXCEPT ![r] = x]
  BY <1>1 DEF TypeInv, ReqInv
<1> HIDE DEF x
<1>5. ReqInv'
  BY <1>2, <1>3, <1>4, MoveType DEF TypeInv, ReqInv
<1> QED BY <1>5 DEF ReadSubscription, admin, access, orders, TypeInv, TypeOK, ReqInv, ReqOK

LEMMA ExpiryType == ASSUME TypeInv, NEW r \in Requests
                    PROVE  /\ Expiry(r) \in Nat
                           /\ Expiry(r) = (IF req[r].base = None THEN 0 ELSE req[r].base)
                                          + (IF req[r].kind = "promo" THEN Reward ELSE Term)
BY PromocodesAssumption DEF Expiry, TypeInv, ReqInv, RequestType, Days

LEMMA CallType == ASSUME TypeInv, NEW r \in Requests, CallPanel(r) PROVE TypeInv'
<1>1. req[r].user \in Users /\ Flying(r) /\ req[r] \in RequestType
  BY DEF TypeInv, TypeOK, ReqInv, CallPanel, Flying
<1>2. panel' \in [Users -> Days]
  BY <1>1, ExpiryType DEF CallPanel, TypeInv, TypeOK, Days
<1>3. excused' \in [Users -> SUBSET Excuses]
  BY <1>1 DEF CallPanel, Excuse, TypeInv, Excuses
<1>4. faults' \in 0 .. MaxFaults
  BY PromocodesAssumption DEF CallPanel, Fault, TypeInv, TypeOK
<1>5. ReqInv'
  <2>1. CASE Drop(r)
    BY <2>1, DropType
  <2>2. CASE req' = [req EXCEPT ![r].pc = "commit"]
    <3> DEFINE x == [req[r] EXCEPT !.pc = "commit"]
    <3>1. x \in RequestType /\ x.pc = "commit" /\ x.user = req[r].user
          /\ x.kind = req[r].kind /\ x.seen = req[r].seen
      BY <1>1 DEF RequestType
    <3>2. req' = [req EXCEPT ![r] = x]
      BY <2>2 DEF TypeInv, ReqInv
    <3> HIDE DEF x
    <3> QED BY <1>1, <3>1, <3>2, MoveType DEF TypeInv, ReqInv
  <2> QED BY <2>1, <2>2 DEF CallPanel
<1> QED BY <1>2, <1>3, <1>4, <1>5
        DEF CallPanel, admin, orders, TypeInv, TypeOK, ReqInv, ReqOK

LEMMA RefuseType == ASSUME TypeInv, NEW r \in Requests, Refuse(r) PROVE TypeInv'
<1>1. excused' \in [Users -> SUBSET Excuses]
  BY DEF Refuse, Excuse, TypeInv, Excuses
<1> QED BY <1>1, DropType
        DEF Refuse, admin, access, orders, TypeInv, TypeOK, ReqInv, ReqOK

LEMMA CrashType == ASSUME TypeInv, NEW r \in Requests, Crash(r) PROVE TypeInv'
<1>1. excused' \in [Users -> SUBSET Excuses]
  BY DEF Crash, Excuse, TypeInv, Excuses
<1>2. faults' \in 0 .. MaxFaults
  BY PromocodesAssumption DEF Crash, Fault, TypeInv, TypeOK
<1>3. ReqInv'
  BY DropType DEF Crash
<1> QED BY <1>1, <1>2, <1>3
        DEF Crash, admin, access, orders, TypeInv, TypeOK, ReqInv, ReqOK

LEMMA ActivateType == ASSUME TypeInv, NEW r \in Requests, Activate(r) PROVE TypeInv'
<1>1. req[r].user \in Users /\ Used \in Nat /\ Drop(r)
  BY FS_CardinalityType DEF Activate, TypeInv, TypeOK, Used
<1>2. acts' = acts \cup {[id |-> Used + 1, user |-> req[r].user]}
  BY DEF Activate
<1>3. IsFiniteSet(acts')
  <2>1. IsFiniteSet(acts)
    BY DEF TypeInv
  <2>2. IsFiniteSet(acts \cup {[id |-> Used + 1, user |-> req[r].user]})
    BY <2>1, FS_AddElement, Zenon
  <2> QED BY <1>2, <2>2, Zenon
<1>4. acts' \subseteq [id : Nat, user : Users]
  BY <1>1, <1>2 DEF TypeInv, TypeOK
<1>5. sub' \in [Users -> Days]
  BY <1>1, ExpiryType DEF Activate, Persist, TypeInv, TypeOK, Days
<1>6. won' \in [Users -> [days : Nat, cut : Nat]]
  BY <1>1 DEF Activate, TypeInv
<1>7. excused' \in [Users -> SUBSET Excuses]
  BY <1>1 DEF Activate, Settled, TypeInv
<1>8. discount' \in [Users -> BOOLEAN]
  BY <1>1 DEF Activate, TypeInv, TypeOK
<1>9. ReqInv'
  BY <1>1, DropType
<1> QED BY <1>3, <1>4, <1>5, <1>6, <1>7, <1>8, <1>9
        DEF Activate, admin, orders, TypeInv, TypeOK, ReqInv, ReqOK

LEMMA PurchaseType == ASSUME TypeInv, NEW r \in Requests, Purchase(r) PROVE TypeInv'
<1>1. req[r].user \in Users /\ Drop(r)
  BY DEF Purchase, TypeInv, TypeOK
<1>2. sub' \in [Users -> Days]
  BY <1>1, ExpiryType DEF Purchase, Persist, TypeInv, TypeOK, Days
<1>3. bought' \in [Users -> [full : Nat, cut : Nat]]
  BY <1>1 DEF Purchase, TypeInv
<1>4. excused' \in [Users -> SUBSET Excuses]
  BY <1>1 DEF Purchase, Settled, TypeInv
<1>5. discount' \in [Users -> BOOLEAN]
  BY <1>1 DEF Purchase, Spend, TypeInv, TypeOK
<1>6. ReqInv'
  BY <1>1, DropType
<1> QED BY <1>2, <1>3, <1>4, <1>5, <1>6 DEF Purchase, admin, TypeInv, TypeOK, ReqInv, ReqOK

LEMMA NextType == TypeInv /\ [Next]_vars => TypeInv'
<1> SUFFICES ASSUME TypeInv, [Next]_vars PROVE TypeInv' OBVIOUS
<1>1. CASE UNCHANGED vars
  BY <1>1 DEF vars, TypeInv, TypeOK, ReqInv, ReqOK, Flying
<1> QED BY <1>1, EditType, ValidateType, PayType, InvoiceType, ReadType, CallType, RefuseType,
           CrashType, ActivateType, PurchaseType DEF Next

-----------------------------------------------------------------------------
(* What a step makes of the requests.                                       *)

LEMMA ValidateMove ==
    ASSUME TypeInv, NEW r \in Requests, NEW u \in Users, Validate(r, u)
    PROVE  /\ req[r].user = None /\ ~Flying(r)
           /\ req'[r].pc = "read" /\ req'[r].user = u /\ req'[r].kind = "promo"
           /\ req'[r].seen = code
           /\ \A q \in Requests \ {r} : req'[q] = req[q]
<1>1. req' = [req EXCEPT ![r] = [pc |-> "read", user |-> u, kind |-> "promo",
                                 seen |-> code, base |-> None, cut |-> FALSE]]
  BY Zenon DEF Validate, Begin
<1>2. req[r].pc = "idle" /\ req \in [Requests -> RequestType]
      /\ (Flying(r) <=> req[r].user # None)
  BY DEF Validate, Begin, TypeInv, ReqInv
<1> QED BY <1>1, <1>2 DEF Flying

LEMMA PayMove ==
    ASSUME TypeInv, NEW r \in Requests, NEW u \in Users, Pay(r, u)
    PROVE  \E i \in invoices[u] :
           /\ invoices' = [invoices EXCEPT ![u] = @ \ {i}]
           /\ req[r].user = None /\ ~Flying(r)
           /\ req'[r].pc = "read" /\ req'[r].user = u /\ req'[r].kind = "purchase"
           /\ req'[r].seen = discount[u] /\ req'[r].cut = i.cut
           /\ \A q \in Requests \ {r} : req'[q] = req[q]
<1>1. PICK i \in invoices[u] :
        /\ invoices' = [invoices EXCEPT ![u] = @ \ {i}]
        /\ req[r].pc = "idle"
        /\ req' = [req EXCEPT ![r] = [pc |-> "read", user |-> u, kind |-> "purchase",
                                      seen |-> discount[u], base |-> None, cut |-> i.cut]]
  BY Zenon DEF Pay, Begin
<1>2. req \in [Requests -> RequestType] /\ (Flying(r) <=> req[r].user # None)
  BY DEF TypeInv, ReqInv
<1> QED BY <1>1, <1>2 DEF Flying

LEMMA ReadMove ==
    ASSUME TypeInv, NEW r \in Requests, ReadSubscription(r)
    PROVE  /\ req[r].user \in Users /\ req[r].pc = "read"
           /\ req'[r].pc = (IF req[r].kind = "promo" /\ req[r].seen.type = "PURCHASE_DISCOUNT"
                            THEN "commit" ELSE "panel")
           /\ req'[r].base = sub[req[r].user]
           /\ req'[r].user = req[r].user /\ req'[r].kind = req[r].kind
           /\ req'[r].seen = req[r].seen /\ req'[r].cut = req[r].cut
           /\ \A q \in Requests \ {r} : req'[q] = req[q]
<1>1. req \in [Requests -> RequestType] /\ req[r].user \in Users /\ req[r].pc = "read"
  BY DEF TypeInv, TypeOK, ReqInv, ReadSubscription
<1>2. PICK s \in {"panel", "commit"} :
        /\ s = IF req[r].kind = "promo" /\ req[r].seen.type = "PURCHASE_DISCOUNT"
               THEN "commit" ELSE "panel"
        /\ req' = [req EXCEPT ![r].base = sub[req[r].user], ![r].pc = s]
  BY DEF ReadSubscription
<1>3. req[r] \in RequestType
  BY <1>1
<1>4. req'[r] = [req[r] EXCEPT !.base = sub[req[r].user], !.pc = s]
      /\ \A q \in Requests \ {r} : req'[q] = req[q]
  BY <1>1, <1>2
<1> QED BY <1>1, <1>2, <1>3, <1>4 DEF RequestType

\* A call is answered, or the request ends.
Answered(r) ==
    /\ req'[r].pc = "commit" /\ req'[r].base = req[r].base
    /\ req'[r].user = req[r].user /\ req'[r].kind = req[r].kind
    /\ req'[r].seen = req[r].seen /\ req'[r].cut = req[r].cut

LEMMA CallMove ==
    ASSUME TypeInv, NEW r \in Requests, CallPanel(r)
    PROVE  /\ req[r].user \in Users /\ req[r].pc = "panel"
           /\ \/ /\ panel' = [panel EXCEPT ![req[r].user] = Expiry(r)]
                 /\ \/ Answered(r) /\ UNCHANGED excused
                    \/ req'[r] = NoRequest /\ Excuse(req[r].user, "stray")
              \/ req'[r] = NoRequest /\ UNCHANGED <<panel, excused>>
           /\ \A q \in Requests \ {r} : req'[q] = req[q]
<1>1. req \in [Requests -> RequestType] /\ req[r].user \in Users /\ req[r].pc = "panel"
  BY DEF TypeInv, TypeOK, ReqInv, CallPanel
<1>2. req[r] \in RequestType
  BY <1>1
<1>3. ASSUME req' = [req EXCEPT ![r].pc = "commit"]
      PROVE  Answered(r) /\ \A q \in Requests \ {r} : req'[q] = req[q]
  <2>1. req'[r] = [req[r] EXCEPT !.pc = "commit"] /\ \A q \in Requests \ {r} : req'[q] = req[q]
    BY <1>1, <1>3
  <2> QED BY <1>2, <2>1 DEF Answered, RequestType
<1>4. Drop(r) => req'[r] = NoRequest /\ \A q \in Requests \ {r} : req'[q] = req[q]
  BY DropType
<1>5. \/ /\ panel' = [panel EXCEPT ![req[r].user] = Expiry(r)]
         /\ \/ req' = [req EXCEPT ![r].pc = "commit"] /\ UNCHANGED excused
            \/ Drop(r) /\ Excuse(req[r].user, "stray")
      \/ Drop(r) /\ UNCHANGED <<panel, excused>>
  BY Zenon DEF CallPanel
<1> QED BY <1>1, <1>3, <1>4, <1>5, Zenon

-----------------------------------------------------------------------------
(* The administrator's limits.                                              *)

LEMMA EditCovers ==
    ASSUME TypeInv, CreatePromocode \/ UpdatePromocode
    PROVE  /\ \A c \in Codes : Covered(c) => Covered(c)'
           /\ Covered(code)'
           /\ widest.unlimited => widest'.unlimited
           /\ widest.reusable => widest'.reusable
           /\ widest'.max \in Nat /\ widest.max \in Nat /\ widest'.max >= widest.max
<1>1. code' \in Codes /\ Widen(code')
  BY EditedCode DEF CreatePromocode, UpdatePromocode, Edit
<1>2. widest \in [max : Nat, unlimited : BOOLEAN, reusable : BOOLEAN]
  BY DEF TypeInv
<1>3. /\ widest'.unlimited = (widest.unlimited \/ code'.max = 0)
      /\ widest'.reusable = (widest.reusable \/ code'.reusable)
      /\ widest'.max = IF code'.max > widest.max THEN code'.max ELSE widest.max
  BY <1>1, Zenon DEF Widen
<1>4. \A n \in Limits \cup {0} : n \in Nat
  BY PromocodesAssumption
<1>5. \A c \in Codes : c.max \in Nat
  BY <1>4 DEF Codes
<1>6. code'.max \in Nat /\ widest.max \in Nat
  BY <1>1, <1>2, <1>5
<1>7. widest'.max >= widest.max /\ widest'.max >= code'.max /\ widest'.max \in Nat
  BY <1>3, <1>6
<1>8. Covered(code)'
  BY <1>3, <1>6, <1>7 DEF Covered
<1>9. ASSUME NEW c \in Codes, Covered(c) PROVE Covered(c)'
  <2>1. c.max \in Nat
    BY <1>5
  <2>2. c.max <= widest.max => c.max <= widest'.max
    BY <2>1, <1>6, <1>7
  <2> QED BY <1>3, <1>9, <2>2 DEF Covered
<1> QED BY <1>3, <1>6, <1>7, <1>8, <1>9

LEMMA EditCode ==
    ASSUME TypeInv, CodeInv, CreatePromocode \/ UpdatePromocode PROVE CodeInv'
<1>1. UNCHANGED <<acts, req>>
  BY DEF CreatePromocode, UpdatePromocode, Edit
<1>2. Used' = Used /\ Used \in Nat
  BY <1>1, FS_CardinalityType DEF Used, TypeInv
<1>3. LimitHeld'
  BY <1>2, EditCovers DEF CodeInv, LimitHeld
<1>4. OncePerUser'
  BY <1>1, EditCovers, Zenon DEF CodeInv, OncePerUser
<1>5. ASSUME NEW r \in Requests, Flying(r), req[r].kind = "promo" PROVE Covered(req[r].seen)'
  <2>1. req[r].seen \in Codes /\ Covered(req[r].seen)
    BY <1>5 DEF TypeInv, ReqInv, CodeInv
  <2> DEFINE c == req[r].seen
  <2>2. c' = c
    BY <1>1
  <2> QED BY <2>1, <2>2, EditCovers, <1>1 DEF Covered
<1> QED BY <1>1, <1>3, <1>4, <1>5, EditCovers DEF CodeInv, Flying

\* Nothing but an edit changes the code: a step whose request validated a code that was
\* covered keeps what the administrator allowed.
LEMMA MoveCode ==
    ASSUME CodeInv, NEW r \in Requests, UNCHANGED admin, UNCHANGED acts,
           \A q \in Requests \ {r} : req'[q] = req[q],
           Flying(r)' /\ req'[r].kind = "promo" => Covered(req'[r].seen)
    PROVE  CodeInv'
<1>1. code' = code /\ widest' = widest /\ acts' = acts
  BY DEF admin
<1> QED BY <1>1 DEF CodeInv, Covered, LimitHeld, OncePerUser, Used, Flying

LEMMA ActivateCode ==
    ASSUME TypeInv, CodeInv, NEW r \in Requests, Activate(r) PROVE CodeInv'
<1> DEFINE u == req[r].user
           a == [id |-> Used + 1, user |-> u]
           c == req[r].seen
<1>1. acts' = acts \cup {a} /\ ~Full(c, Used) /\ (c.reusable \/ ~Activated(u))
  BY DEF Activate, Allowed
<1>2. Covered(c) /\ c \in Codes
  BY DEF Activate, CodeInv, Flying, TypeInv, ReqInv
<1>3. code' = code /\ widest' = widest
  BY DEF Activate, admin
<1>4. Used \in Nat /\ Used' \in Nat /\ Used' <= Used + 1
  <2>1. IsFiniteSet(acts)
    BY DEF TypeInv
  <2>2. Cardinality(acts) \in Nat /\ Cardinality(acts \cup {a}) \in {Cardinality(acts), Cardinality(acts) + 1}
    <3> HIDE DEF a
    <3> QED BY <2>1, FS_AddElement, FS_CardinalityType
  <2>3. Used' = Cardinality(acts \cup {a}) /\ Used = Cardinality(acts)
    BY <1>1 DEF Used
  <2> QED BY <2>2, <2>3
<1>5. LimitHeld'
  <2>1. widest.max \in Nat /\ c.max \in Nat
    <3>1. widest \in [max : Nat, unlimited : BOOLEAN, reusable : BOOLEAN]
      BY DEF TypeInv
    <3>2. \A n \in Limits \cup {0} : n \in Nat
      BY PromocodesAssumption
    <3>3. c.max \in Limits \cup {0}
      BY <1>2 DEF Codes
    <3> QED BY <3>1, <3>2, <3>3
  <2>2. c.max = 0 \/ Used < c.max
    BY <1>1, <1>4, <2>1 DEF Full
  <2>3. CASE c.max = 0
    BY <1>2, <1>3, <2>3 DEF Covered, LimitHeld
  <2>4. CASE Used < c.max
    <3>1. Used' <= widest.max
      BY <1>2, <1>4, <2>1, <2>4 DEF Covered
    <3> QED BY <1>3, <3>1 DEF LimitHeld
  <2> QED BY <2>2, <2>3, <2>4
<1>6. OncePerUser'
  <2>1. CASE widest.reusable
    BY <1>3, <2>1 DEF OncePerUser
  <2>2. CASE ~widest.reusable
    <3>1. \A b \in acts : b.user # u
      BY <1>1, <1>2, <2>2 DEF Covered, Activated
    <3>2. a.user = u
      OBVIOUS
    <3>3. \A b, d \in acts : b.user = d.user => b = d
      BY <2>2 DEF CodeInv, OncePerUser
    <3> HIDE DEF a, u
    <3>4. \A b, d \in acts' : b.user = d.user => b = d
      BY <1>1, <3>1, <3>2, <3>3
    <3> QED BY <3>4 DEF OncePerUser
  <2> QED BY <2>1, <2>2
<1>7. \A q \in Requests : Flying(q)' => Flying(q) /\ req'[q] = req[q]
  BY DropType DEF Activate, Flying, NoRequest
<1> QED BY <1>3, <1>5, <1>6, <1>7 DEF CodeInv, Covered, Flying

LEMMA NextCode == TypeInv /\ CodeInv /\ [Next]_vars => CodeInv'
<1> SUFFICES ASSUME TypeInv, CodeInv, [Next]_vars PROVE CodeInv' OBVIOUS
<1>1. ASSUME NEW r \in Requests, NEW u \in Users, Validate(r, u) PROVE CodeInv'
  <2>1. code # None /\ UNCHANGED admin /\ UNCHANGED acts
    BY <1>1 DEF Validate, Valid
  <2> QED BY <1>1, <2>1, ValidateMove, MoveCode DEF CodeInv
<1>2. ASSUME NEW r \in Requests, NEW u \in Users, Pay(r, u) PROVE CodeInv'
  BY <1>2, PayMove, MoveCode DEF Pay
<1>3. ASSUME NEW u \in Users, Invoice(u) PROVE CodeInv'
  BY <1>3 DEF Invoice, admin, CodeInv, Covered, LimitHeld, OncePerUser, Used, Flying
<1>4. ASSUME NEW r \in Requests, ReadSubscription(r) PROVE CodeInv'
  BY <1>4, ReadMove, MoveCode DEF ReadSubscription, CodeInv, Flying
<1>5. ASSUME NEW r \in Requests, CallPanel(r) PROVE CodeInv'
  BY <1>5, CallMove, MoveCode DEF CallPanel, Answered, CodeInv, Flying, NoRequest
<1>6. ASSUME NEW r \in Requests, Refuse(r) \/ Crash(r) \/ Purchase(r) PROVE CodeInv'
  BY <1>6, DropType, MoveCode DEF Refuse, Crash, Purchase, Flying, NoRequest
<1>7. CASE UNCHANGED vars
  BY <1>7 DEF vars, CodeInv, Covered, LimitHeld, OncePerUser, Used, Flying
<1> QED BY <1>1, <1>2, <1>3, <1>4, <1>5, <1>6, <1>7, EditCode, ActivateCode DEF Next

-----------------------------------------------------------------------------
(* What is earned.                                                          *)

LEMMA Times == \A d, k \in Nat : d * k \in Nat /\ (d + 1) * k = d * k + k
OBVIOUS

LEMMA EarnedType == ASSUME TypeInv, NEW u \in Users PROVE Earned(u) \in Nat
<1>1. won[u].days \in Nat /\ bought[u].full \in Nat /\ bought[u].cut \in Nat
  BY DEF TypeInv
<1>2. Reward \in Nat /\ Term \in Nat
  BY PromocodesAssumption
<1>3. won[u].days * Reward \in Nat /\ (bought[u].full + bought[u].cut) * Term \in Nat
  BY <1>1, <1>2, Times
<1> QED BY <1>3 DEF Earned

LEMMA EarnedSame ==
    ASSUME NEW u \in Users, won'[u].days = won[u].days, bought'[u] = bought[u]
    PROVE  Earned(u)' = Earned(u)
BY DEF Earned

LEMMA ActivateEarned ==
    ASSUME TypeInv, NEW r \in Requests, Activate(r), NEW u \in Users, u = req[r].user
    PROVE  /\ \A v \in Users \ {u} : Earned(v)' = Earned(v)
           /\ IF req[r].seen.type = "PURCHASE_DISCOUNT" THEN Earned(u)' = Earned(u)
              ELSE Earned(u)' = Earned(u) + Reward
<1>1. won \in [Users -> [days : Nat, cut : Nat]] /\ UNCHANGED bought
  BY DEF Activate, TypeInv, TypeOK, orders
<1>2. \A v \in Users \ {u} : Earned(v)' = Earned(v)
  BY <1>1, EarnedSame DEF Activate
<1>3. CASE req[r].seen.type = "PURCHASE_DISCOUNT"
  <2>1. won'[u].days = won[u].days
    BY <1>1, <1>3 DEF Activate
  <2> QED BY <1>1, <1>2, <1>3, <2>1, EarnedSame
<1>4. CASE req[r].seen.type # "PURCHASE_DISCOUNT"
  <2>1. won'[u].days = won[u].days + 1 /\ won[u].days \in Nat
    BY <1>1, <1>4 DEF Activate
  <2>2. won'[u].days * Reward = won[u].days * Reward + Reward
        /\ won[u].days * Reward \in Nat /\ Reward \in Nat
    BY <2>1, Times, PromocodesAssumption
  <2>3. (bought[u].full + bought[u].cut) * Term \in Nat
    BY Times, PromocodesAssumption, <1>1 DEF TypeInv
  <2>4. Earned(u)' = Earned(u) + Reward
    BY <1>1, <2>2, <2>3 DEF Earned
  <2> QED BY <1>1, <1>2, <1>4, <2>4
<1> QED BY <1>3, <1>4

LEMMA PurchaseEarned ==
    ASSUME TypeInv, NEW r \in Requests, Purchase(r), NEW u \in Users, u = req[r].user
    PROVE  /\ \A v \in Users \ {u} : Earned(v)' = Earned(v)
           /\ Earned(u)' = Earned(u) + Term
<1> DEFINE n == bought[u].full + bought[u].cut
<1>1. bought \in [Users -> [full : Nat, cut : Nat]] /\ UNCHANGED won
  BY DEF Purchase, TypeInv, TypeOK
<1>2. \A v \in Users \ {u} : Earned(v)' = Earned(v)
  BY <1>1, EarnedSame DEF Purchase
<1>3. bought'[u].full + bought'[u].cut = n + 1 /\ n \in Nat
  BY <1>1 DEF Purchase
<1>4. (n + 1) * Term = n * Term + Term /\ n * Term \in Nat /\ Term \in Nat
  BY <1>3, Times, PromocodesAssumption
<1>5. won[u].days * Reward \in Nat
  BY Times, PromocodesAssumption, <1>1 DEF TypeInv
<1>6. Earned(u)' = won[u].days * Reward + (n + 1) * Term
  BY <1>1, <1>3 DEF Earned
<1>7. Earned(u) = won[u].days * Reward + n * Term
  BY DEF Earned
<1> HIDE DEF n
<1>8. Earned(u)' = Earned(u) + Term
  BY <1>4, <1>5, <1>6, <1>7
<1> QED BY <1>1, <1>2, <1>8

LEMMA MoveEarn ==
    ASSUME TypeInv, EarnInv, NEW r \in Requests, UNCHANGED <<sub, bought, won>>,
           \A q \in Requests \ {r} : req'[q] = req[q],
           \A u \in Users : Reading(r)' /\ req'[r].user = u /\ req'[r].base # None
                               => req'[r].base <= Earned(u)
    PROVE  EarnInv'
BY DEF EarnInv, Earned, Reading

\* A success records what it read and what it adds.
LEMMA RecordEarn ==
    ASSUME TypeInv, EarnInv, NEW r \in Requests, req[r].pc = "commit", Drop(r), Persist(r),
           NEW u \in Users, u = req[r].user, \A v \in Users \ {u} : Earned(v)' = Earned(v),
           Earned(u)' = Earned(u) + (IF req[r].kind = "promo" THEN Reward ELSE Term)
    PROVE  EarnInv'
<1> DEFINE d == IF req[r].kind = "promo" THEN Reward ELSE Term
<1>1. sub \in [Users -> Days] /\ sub' = [sub EXCEPT ![u] = Expiry(r)]
  BY DEF TypeInv, TypeOK, Persist
<1>2. d \in Nat /\ \A v \in Users : Earned(v) \in Nat
  BY EarnedType, PromocodesAssumption
<1>3. \A v \in Users : Earned(v)' = IF v = u THEN Earned(v) + d ELSE Earned(v)
  OBVIOUS
<1>4. \A q \in Requests : Reading(q)' => q # r /\ req'[q] = req[q]
  BY DropType DEF Reading, NoRequest
<1>5. Expiry(r) <= Earned(u) + d /\ Expiry(r) # None
  <2>1. Expiry(r) \in Nat /\ Expiry(r) = (IF req[r].base = None THEN 0 ELSE req[r].base) + d
    BY ExpiryType
  <2>2. req[r].base # None => req[r].base \in Nat /\ req[r].base <= Earned(u)
    BY DEF EarnInv, Reading, TypeInv, ReqInv, RequestType, Days
  <2> QED BY <1>2, <2>1, <2>2, PromocodesAssumption
<1>6. \A v \in Users : IF sub'[v] = None THEN Earned(v)' = 0 ELSE sub'[v] <= Earned(v)'
  BY <1>1, <1>3, <1>5 DEF EarnInv
<1>7. ASSUME NEW q \in Requests, NEW v \in Users, Reading(q)', req'[q].user = v,
             req'[q].base # None
      PROVE  req'[q].base <= Earned(v)'
  <2>1. req'[q] = req[q] /\ Reading(q) /\ req[q].base \in Nat
    BY <1>4, <1>7 DEF Reading, TypeInv, ReqInv, RequestType, Days
  <2>2. req[q].base <= Earned(v)
    BY <1>7, <2>1 DEF EarnInv
  <2>3. Earned(v) <= Earned(v)' /\ Earned(v)' \in Nat
    BY <1>2, <1>3
  <2> QED BY <1>2, <2>1, <2>2, <2>3
<1> QED BY <1>6, <1>7 DEF EarnInv

LEMMA NextEarn == TypeInv /\ EarnInv /\ [Next]_vars => EarnInv'
<1> SUFFICES ASSUME TypeInv, EarnInv, [Next]_vars PROVE EarnInv' OBVIOUS
<1>1. ASSUME NEW r \in Requests, NEW u \in Users, Validate(r, u) PROVE EarnInv'
  BY <1>1, ValidateMove, MoveEarn DEF Validate, access, orders, Reading
<1>2. ASSUME NEW r \in Requests, NEW u \in Users, Pay(r, u) PROVE EarnInv'
  BY <1>2, PayMove, MoveEarn DEF Pay, access, Reading
<1>3. CASE UNCHANGED <<sub, bought, won, req>>
  BY <1>3 DEF EarnInv, Earned, Reading
<1>4. ASSUME NEW r \in Requests, ReadSubscription(r) PROVE EarnInv'
  <2>1. UNCHANGED <<sub, bought, won>>
    BY <1>4 DEF ReadSubscription, access, orders
  <2>2. ASSUME NEW u \in Users, req'[r].user = u, req'[r].base # None
        PROVE  req'[r].base <= Earned(u)
    BY <1>4, <2>2, ReadMove DEF EarnInv
  <2> QED BY <1>4, <2>1, <2>2, ReadMove, MoveEarn
<1>5. ASSUME NEW r \in Requests, CallPanel(r) PROVE EarnInv'
  <2>1. UNCHANGED <<sub, bought, won>>
    BY <1>5 DEF CallPanel, orders
  <2>2. ASSUME NEW u \in Users, Reading(r)', req'[r].user = u, req'[r].base # None
        PROVE  req'[r].base <= Earned(u)
    BY <1>5, <2>2, CallMove DEF EarnInv, Answered, Reading, NoRequest
  <2> QED BY <1>5, <2>1, <2>2, CallMove, MoveEarn
<1>6. ASSUME NEW r \in Requests, Refuse(r) \/ Crash(r) PROVE EarnInv'
  <2>1. UNCHANGED <<sub, bought, won>> /\ Drop(r)
    BY <1>6 DEF Refuse, Crash, access, orders
  <2>2. ~Reading(r)'
    BY <2>1, DropType DEF Reading, NoRequest
  <2> QED BY <2>1, <2>2, DropType, MoveEarn
<1>7. ASSUME NEW r \in Requests, Activate(r) PROVE EarnInv'
  <2>1. PICK u \in Users : u = req[r].user
    BY <1>7 DEF Activate, TypeInv, TypeOK
  <2>2. Drop(r) /\ req[r].pc = "commit" /\ req[r].kind = "promo" /\ UNCHANGED bought
    BY <1>7 DEF Activate, orders
  <2>3. CASE req[r].seen.type = "PURCHASE_DISCOUNT"
    <3>1. UNCHANGED sub /\ \A v \in Users : Earned(v)' = Earned(v)
      BY <1>7, <2>1, <2>3, ActivateEarned DEF Activate
    <3>2. \A q \in Requests : Reading(q)' => Reading(q) /\ req'[q] = req[q]
      BY <2>2, DropType DEF Reading, NoRequest
    <3> QED BY <3>1, <3>2 DEF EarnInv
  <2>4. CASE req[r].seen.type # "PURCHASE_DISCOUNT"
    BY <1>7, <2>1, <2>2, <2>4, ActivateEarned, RecordEarn DEF Activate
  <2> QED BY <2>3, <2>4
<1>8. ASSUME NEW r \in Requests, Purchase(r) PROVE EarnInv'
  <2>1. PICK u \in Users : u = req[r].user
    BY <1>8 DEF Purchase, TypeInv, TypeOK
  <2>2. Drop(r) /\ Persist(r) /\ req[r].pc = "commit" /\ req[r].kind # "promo"
    BY <1>8 DEF Purchase
  <2> QED BY <1>8, <2>1, <2>2, PurchaseEarned, RecordEarn
<1>9. CreatePromocode \/ UpdatePromocode => UNCHANGED <<sub, bought, won, req>>
  BY DEF CreatePromocode, UpdatePromocode, Edit, access, orders
<1>10. \A u \in Users : Invoice(u) => UNCHANGED <<sub, bought, won, req>>
  BY DEF Invoice, access
<1>11. UNCHANGED vars => UNCHANGED <<sub, bought, won, req>>
  BY DEF vars
<1> QED BY <1>1, <1>2, <1>3, <1>4, <1>5, <1>6, <1>7, <1>8, <1>9, <1>10, <1>11 DEF Next

LEMMA NextPush == TypeInv /\ PushInv /\ [Next]_vars => PushInv'
<1> SUFFICES ASSUME TypeInv, PushInv, [Next]_vars PROVE PushInv' OBVIOUS
<1>1. ASSUME NEW r \in Requests, \A q \in Requests \ {r} : req'[q] = req[q],
             req'[r].pc = "panel" /\ req'[r].kind = "promo"
               => req'[r].seen.type # "PURCHASE_DISCOUNT"
      PROVE  PushInv'
  BY <1>1 DEF PushInv
<1>2. ASSUME NEW r \in Requests, NEW u \in Users, Validate(r, u) PROVE PushInv'
  BY <1>1, <1>2, ValidateMove
<1>3. ASSUME NEW r \in Requests, NEW u \in Users, Pay(r, u) PROVE PushInv'
  BY <1>1, <1>3, PayMove
<1>4. ASSUME NEW r \in Requests, ReadSubscription(r) PROVE PushInv'
  BY <1>1, <1>4, ReadMove
<1>5. ASSUME NEW r \in Requests, CallPanel(r) PROVE PushInv'
  BY <1>1, <1>5, CallMove DEF Answered, NoRequest
<1>6. ASSUME NEW r \in Requests, Drop(r) PROVE PushInv'
  BY <1>1, <1>6, DropType DEF NoRequest
<1>7. ASSUME NEW r \in Requests PROVE Refuse(r) \/ Crash(r) \/ Activate(r) \/ Purchase(r) => Drop(r)
  BY DEF Refuse, Crash, Activate, Purchase
<1>8. CASE UNCHANGED req
  BY <1>8 DEF PushInv
<1>9. CreatePromocode \/ UpdatePromocode \/ UNCHANGED vars => UNCHANGED req
  BY DEF CreatePromocode, UpdatePromocode, Edit, vars
<1>10. \A u \in Users : Invoice(u) => UNCHANGED req
  BY DEF Invoice
<1> QED BY <1>2, <1>3, <1>4, <1>5, <1>6, <1>7, <1>8, <1>9, <1>10 DEF Next

-----------------------------------------------------------------------------
(* No day is lost.                                                          *)

\* A step touches the user of its request alone.
LEMMA CalmOther ==
    ASSUME NEW u \in Users, CalmAt(u), NEW r \in Requests,
           req[r].user # u, req'[r].user # u, \A q \in Requests \ {r} : req'[q] = req[q],
           sub'[u] = sub[u], panel'[u] = panel[u], Earned(u)' = Earned(u),
           excused'[u] = excused[u]
    PROVE  CalmAt(u)'
<1>1. \A q \in Requests : req'[q].user = u => req'[q] = req[q]
  OBVIOUS
<1>2. \A q \in Requests : req[q].user = u => req'[q] = req[q]
  OBVIOUS
<1>3. \A q \in Requests : req'[q] = req[q] =>
        /\ Reading(q)' = Reading(q) /\ Pushed(q)' = Pushed(q) /\ Expiry(q)' = Expiry(q)
  BY DEF Reading, Pushed, Expiry
<1>4. Alone(u) => Alone(u)'
  BY <1>1 DEF Alone
<1> QED BY <1>1, <1>2, <1>3, <1>4 DEF CalmAt

\* A request that begins with no other of its user in flight.
LEMMA BeginCalm ==
    ASSUME TypeInv, CalmInv, NEW r \in Requests, NEW u \in Users,
           req[r].user = None, req'[r].user = u, req'[r].pc = "read",
           \A q \in Requests \ {r} : req'[q] = req[q],
           UNCHANGED <<sub, panel, bought, won>>,
           IF Meets(r, u) THEN Excuse(u, "clash") ELSE UNCHANGED excused
    PROVE  CalmInv'
<1>1. excused \in [Users -> SUBSET Excuses]
  BY DEF TypeInv
<1>2. ASSUME NEW v \in Users, v # u PROVE CalmAt(v)'
  <2>1. excused'[v] = excused[v]
    BY <1>1, <1>2 DEF Excuse
  <2>2. Earned(v)' = Earned(v) /\ v # None
    BY PromocodesAssumption DEF Earned
  <2> QED BY <1>2, <2>1, <2>2, CalmOther DEF CalmInv
<1>3. ASSUME Meets(r, u) PROVE CalmAt(u)'
  <2>1. excused'[u] = excused[u] \cup {"clash"}
    BY <1>1, <1>3 DEF Excuse
  <2> QED BY <2>1 DEF CalmAt
<1>4. ASSUME ~Meets(r, u) PROVE CalmAt(u)'
  <2>1. \A q \in Requests : req[q].user # u
    BY <1>4, PromocodesAssumption DEF Meets
  <2>2. \A q \in Requests : req'[q].user = u => q = r
    BY <2>1
  <2>3. ~Reading(r)' /\ ~Pushed(r)' /\ Alone(u)'
    BY <2>2 DEF Reading, Pushed, Alone
  <2>4. excused'[u] = excused[u] /\ Earned(u)' = Earned(u)
    BY <1>4 DEF Earned
  <2>5. /\ "clash" \notin excused[u] /\ sub[u] # None => sub[u] = Earned(u)
        /\ {"clash", "stray"} \cap excused[u] = {} => panel[u] = sub[u]
    BY <2>1 DEF CalmInv, CalmAt
  <2>6. sub' = sub /\ panel' = panel
    OBVIOUS
  <2> QED BY <2>2, <2>3, <2>4, <2>5, <2>6 DEF CalmAt
<1> QED BY <1>2, <1>3, <1>4 DEF CalmInv

LEMMA ReadCalm ==
    ASSUME TypeInv, CalmInv, NEW r \in Requests, ReadSubscription(r) PROVE CalmInv'
<1>1. PICK u \in Users : u = req[r].user
  BY ReadMove
<1>2. UNCHANGED <<sub, panel, bought, won, excused>>
  BY DEF ReadSubscription, access, orders
<1>3. \A v \in Users : Earned(v)' = Earned(v)
  BY <1>2 DEF Earned
<1>4. ASSUME NEW v \in Users, v # u PROVE CalmAt(v)'
  BY <1>1, <1>2, <1>3, <1>4, ReadMove, CalmOther DEF CalmInv
<1>5. ~Pushed(r) /\ ~Pushed(r)' /\ req'[r].base = sub[u] /\ req'[r].user = u
  BY <1>1, ReadMove DEF Pushed
<1>6. ASSUME "clash" \notin excused[u] PROVE \A q \in Requests : req'[q].user = u <=> q = r
  BY <1>1, <1>5, <1>6, ReadMove DEF CalmInv, CalmAt, Alone
<1>7. CalmAt(u)'
  BY <1>1, <1>2, <1>3, <1>5, <1>6, ReadMove DEF CalmInv, CalmAt, Alone
<1> QED BY <1>4, <1>7 DEF CalmInv

\* A request that ends leaves its user at rest, or the panel ahead.
LEMMA DropCalm ==
    ASSUME TypeInv, CalmInv, NEW r \in Requests, NEW u \in Users, u = req[r].user,
           req'[r] = NoRequest, \A q \in Requests \ {r} : req'[q] = req[q],
           UNCHANGED <<sub, bought, won>>,
           \/ UNCHANGED <<panel, excused>> /\ ~Pushed(r)
           \/ /\ Excuse(u, "stray")
              /\ \E e : panel' = [panel EXCEPT ![u] = e]
    PROVE  CalmInv'
<1>1. excused \in [Users -> SUBSET Excuses] /\ panel \in [Users -> Days]
  BY DEF TypeInv, TypeOK
<1>2. \A v \in Users : Earned(v)' = Earned(v)
  BY DEF Earned
<1>3. req'[r].user = None
  BY DEF NoRequest
<1>4. ASSUME NEW v \in Users, v # u PROVE CalmAt(v)'
  <2>1. excused'[v] = excused[v] /\ panel'[v] = panel[v] /\ v # None
    BY <1>1, <1>4, PromocodesAssumption DEF Excuse
  <2> QED BY <1>2, <1>3, <1>4, <2>1, CalmOther DEF CalmInv
<1>5. ASSUME "clash" \notin excused[u] PROVE \A q \in Requests : req'[q].user # u
  BY <1>3, <1>5, PromocodesAssumption DEF CalmInv, CalmAt, Alone
<1>6. CASE UNCHANGED <<panel, excused>> /\ ~Pushed(r)
  <2>1. ASSUME "clash" \notin excused[u], "stray" \notin excused[u] PROVE panel[u] = sub[u]
    BY <1>6, <2>1 DEF CalmInv, CalmAt, Alone
  <2>2. CalmAt(u)'
    BY <1>2, <1>5, <1>6, <2>1 DEF CalmInv, CalmAt, Alone
  <2> QED BY <1>4, <2>2 DEF CalmInv
<1>7. CASE Excuse(u, "stray")
  <2>1. excused'[u] = excused[u] \cup {"stray"}
    BY <1>1, <1>7 DEF Excuse
  <2>2. CalmAt(u)'
    BY <1>2, <1>5, <2>1 DEF CalmInv, CalmAt, Alone
  <2> QED BY <1>4, <2>2 DEF CalmInv
<1> QED BY <1>6, <1>7

LEMMA CallCalm ==
    ASSUME TypeInv, PushInv, CalmInv, NEW r \in Requests, CallPanel(r) PROVE CalmInv'
<1>1. PICK u \in Users : u = req[r].user
  BY CallMove
<1>2. UNCHANGED <<sub, bought, won>> /\ ~Pushed(r)
  BY CallMove DEF CallPanel, orders, Pushed
<1>3. CASE req'[r] = NoRequest
  <2>1. \/ UNCHANGED <<panel, excused>>
        \/ Excuse(u, "stray") /\ panel' = [panel EXCEPT ![u] = Expiry(r)]
    BY <1>1, <1>3, CallMove DEF Answered, NoRequest
  <2> QED BY <1>1, <1>2, <1>3, <2>1, CallMove, DropCalm
<1>4. CASE Answered(r) /\ UNCHANGED excused /\ panel' = [panel EXCEPT ![u] = Expiry(r)]
  <2>1. \A v \in Users : Earned(v)' = Earned(v)
    BY <1>2 DEF Earned
  <2>2. panel \in [Users -> Days]
    BY DEF TypeInv, TypeOK
  <2>3. ASSUME NEW v \in Users, v # u PROVE CalmAt(v)'
    <3>1. panel'[v] = panel[v] /\ req'[r].user # v
      BY <1>1, <1>4, <2>2, <2>3 DEF Answered
    <3> QED BY <1>1, <1>2, <1>4, <2>1, <2>3, <3>1, CallMove, CalmOther DEF CalmInv
  <2>4. Pushed(r)' /\ Expiry(r)' = Expiry(r) /\ panel'[u] = Expiry(r)
    <3>1. req'[r].kind = "promo" => req'[r].seen.type # "PURCHASE_DISCOUNT"
      BY <1>4, CallMove DEF PushInv, Answered
    <3> QED BY <1>4, <2>2, <3>1 DEF Answered, Pushed, Expiry
  <2>5. Reading(r) /\ req'[r].base = req[r].base /\ req'[r].user = u
    BY <1>1, <1>4, CallMove DEF Answered, Reading
  <2>6. ASSUME "clash" \notin excused[u] PROVE \A q \in Requests : req'[q].user = u <=> q = r
    BY <1>1, <2>5, <2>6, CallMove DEF CalmInv, CalmAt, Alone
  <2>7. CalmAt(u)'
    BY <1>1, <1>2, <1>4, <2>1, <2>4, <2>5, <2>6 DEF CalmInv, CalmAt, Alone
  <2> QED BY <2>3, <2>7 DEF CalmInv
<1> QED BY <1>1, <1>3, <1>4, CallMove

\* A success makes the row what the panel has.
LEMMA RecordCalm ==
    ASSUME TypeInv, EarnInv, CalmInv, NEW r \in Requests, NEW u \in Users, u = req[r].user,
           Pushed(r), Drop(r), Persist(r), Settled(u), UNCHANGED panel,
           \A v \in Users \ {u} : Earned(v)' = Earned(v),
           Earned(u)' = Earned(u) + (IF req[r].kind = "promo" THEN Reward ELSE Term)
    PROVE  CalmInv'
<1> DEFINE d == IF req[r].kind = "promo" THEN Reward ELSE Term
<1>1. sub \in [Users -> Days] /\ excused \in [Users -> SUBSET Excuses]
  BY DEF TypeInv, TypeOK
<1>2. req'[r].user = None
  BY DropType DEF NoRequest
<1>3. ASSUME NEW v \in Users, v # u PROVE CalmAt(v)'
  <2>1. excused'[v] = excused[v] /\ sub'[v] = sub[v] /\ v # None
    BY <1>1, <1>3, PromocodesAssumption DEF Settled, Persist
  <2> QED BY <1>2, <1>3, <2>1, DropType, CalmOther DEF CalmInv
<1>4. excused'[u] = excused[u] \ {"stray"} /\ sub'[u] = Expiry(r)
  BY <1>1 DEF Settled, Persist
<1>5. ASSUME "clash" \notin excused[u]
      PROVE  /\ \A q \in Requests : req'[q].user # u
             /\ panel'[u] = sub'[u] /\ sub'[u] = Earned(u)'
  <2>1. \A q \in Requests : req'[q].user # u
    BY <1>2, <1>5, DropType, PromocodesAssumption DEF CalmInv, CalmAt, Alone
  <2>2. panel[u] = Expiry(r) /\ req[r].base = sub[u] /\ (sub[u] # None => sub[u] = Earned(u))
    BY <1>5 DEF CalmInv, CalmAt, Pushed, Reading
  <2>3. (IF req[r].base = None THEN 0 ELSE req[r].base) = Earned(u)
    BY <2>2 DEF EarnInv
  <2>4. Expiry(r) = Earned(u) + d
    BY <2>3, ExpiryType
  <2> QED BY <1>4, <2>1, <2>2, <2>4
<1>6. CalmAt(u)'
  BY <1>4, <1>5 DEF CalmAt, Alone
<1> QED BY <1>3, <1>6 DEF CalmInv

LEMMA ActivateCalm ==
    ASSUME TypeInv, EarnInv, CalmInv, NEW r \in Requests, Activate(r) PROVE CalmInv'
<1>1. PICK u \in Users : u = req[r].user
  BY DEF Activate, TypeInv, TypeOK
<1>2. Drop(r) /\ req[r].pc = "commit" /\ req[r].kind = "promo" /\ UNCHANGED <<panel, bought>>
  BY DEF Activate, orders
<1>3. CASE req[r].seen.type = "PURCHASE_DISCOUNT"
  <2>1. UNCHANGED <<sub, excused>> /\ \A v \in Users : Earned(v)' = Earned(v)
    BY <1>1, <1>3, ActivateEarned DEF Activate
  <2>2. ~Pushed(r) /\ req'[r].user = None
    BY <1>2, <1>3, DropType DEF Pushed, NoRequest
  <2>3. ASSUME NEW v \in Users, v # u PROVE CalmAt(v)'
    BY <1>1, <1>2, <2>1, <2>2, <2>3, DropType, PromocodesAssumption, CalmOther DEF CalmInv
  <2>4. ASSUME "clash" \notin excused[u]
        PROVE  /\ \A q \in Requests : req'[q].user # u
               /\ "stray" \notin excused[u] => panel[u] = sub[u]
    <3>1. \A q \in Requests : req[q].user = u => q = r
      BY <1>1, <2>4 DEF CalmInv, CalmAt, Alone
    <3>2. "stray" \notin excused[u] => panel[u] = sub[u]
      BY <2>2, <2>4, <3>1 DEF CalmInv, CalmAt
    <3>3. u # None /\ \A q \in Requests \ {r} : req'[q] = req[q]
      BY <1>2, DropType, PromocodesAssumption
    <3> QED BY <2>2, <3>1, <3>2, <3>3
  <2>5. CalmAt(u)'
    BY <1>2, <2>1, <2>4 DEF CalmInv, CalmAt, Alone
  <2> QED BY <2>3, <2>5 DEF CalmInv
<1>4. CASE req[r].seen.type # "PURCHASE_DISCOUNT"
  <2>1. Pushed(r) /\ Persist(r) /\ Settled(u)
    BY <1>1, <1>2, <1>4 DEF Activate, Pushed
  <2> QED BY <1>1, <1>2, <1>4, <2>1, ActivateEarned, RecordCalm
<1> QED BY <1>3, <1>4

LEMMA NextCalm == TypeInv /\ EarnInv /\ PushInv /\ CalmInv /\ [Next]_vars => CalmInv'
<1> SUFFICES ASSUME TypeInv, EarnInv, PushInv, CalmInv, [Next]_vars PROVE CalmInv' OBVIOUS
<1>1. ASSUME NEW r \in Requests, NEW u \in Users, Validate(r, u) PROVE CalmInv'
  BY <1>1, ValidateMove, BeginCalm DEF Validate, access, orders
<1>2. ASSUME NEW r \in Requests, NEW u \in Users, Pay(r, u) PROVE CalmInv'
  BY <1>2, PayMove, BeginCalm DEF Pay, access
<1>3. ASSUME NEW r \in Requests, Refuse(r) \/ Crash(r) PROVE CalmInv'
  <2>1. PICK u \in Users : u = req[r].user
    BY <1>3 DEF Refuse, Crash, TypeInv, TypeOK, ReqInv
  <2>2. UNCHANGED <<sub, bought, won, panel>> /\ Drop(r)
    BY <1>3 DEF Refuse, Crash, access, orders
  <2>3. (UNCHANGED excused /\ ~Pushed(r)) \/ Excuse(u, "stray")
    BY <1>3, <2>1 DEF Refuse, Crash, Pushed
  <2>4. \E e : panel' = [panel EXCEPT ![u] = e]
    <3>1. panel' = [panel EXCEPT ![u] = panel[u]]
      BY <2>2 DEF TypeInv, TypeOK
    <3> QED BY <3>1
  <2> QED BY <2>1, <2>2, <2>3, <2>4, DropType, DropCalm
<1>4. ASSUME NEW r \in Requests, Purchase(r) PROVE CalmInv'
  <2>1. PICK u \in Users : u = req[r].user
    BY <1>4 DEF Purchase, TypeInv, TypeOK
  <2>2. Drop(r) /\ Persist(r) /\ Settled(u) /\ Pushed(r) /\ UNCHANGED panel
        /\ req[r].kind = "purchase"
    BY <1>4, <2>1 DEF Purchase, Pushed
  <2> QED BY <1>4, <2>1, <2>2, PurchaseEarned, RecordCalm
<1>5. ASSUME NEW u \in Users, Invoice(u) PROVE CalmInv'
  <2>1. UNCHANGED <<sub, panel, bought, won, req>>
    BY <1>5 DEF Invoice, access
  <2>2. \A v \in Users : excused'[v] = excused[v] \/ excused'[v] = excused[v] \cup {"parallel"}
    BY <1>5 DEF Invoice, Excuse, TypeInv
  <2>3. ASSUME NEW v \in Users PROVE CalmAt(v)'
    <3>1. CalmAt(v) /\ ("clash" \in excused'[v] <=> "clash" \in excused[v])
          /\ ("stray" \in excused'[v] <=> "stray" \in excused[v])
      BY <2>2 DEF CalmInv
    <3> QED BY <2>1, <3>1 DEF CalmAt, Alone, Reading, Pushed, Expiry, Earned
  <2> QED BY <2>3 DEF CalmInv
<1>6. CASE UNCHANGED <<sub, panel, bought, won, req, excused>>
  BY <1>6 DEF CalmInv, CalmAt, Alone, Reading, Pushed, Expiry, Earned
<1>7. CreatePromocode \/ UpdatePromocode \/ UNCHANGED vars
        => UNCHANGED <<sub, panel, bought, won, req, excused>>
  BY DEF CreatePromocode, UpdatePromocode, Edit, access, orders, vars
<1> QED BY <1>1, <1>2, <1>3, <1>4, <1>5, <1>6, <1>7, ReadCalm, CallCalm, ActivateCalm DEF Next

-----------------------------------------------------------------------------
(* A discount is spent once.                                                *)

LEMMA SpendOther ==
    ASSUME NEW u \in Users, SpendAt(u), NEW r \in Requests,
           \A q \in Requests \ {r} : req'[q] = req[q],
           Buying(r, u)' => Buying(r, u) /\ req'[r].seen = req[r].seen
                            /\ req'[r].cut = req[r].cut,
           invoices'[u] = invoices[u], discount'[u] = discount[u],
           bought'[u].cut = bought[u].cut, won'[u].cut = won[u].cut,
           excused'[u] \cap {"clash", "parallel"} = excused[u] \cap {"clash", "parallel"}
    PROVE  SpendAt(u)'
<1>1. \A q \in Requests : Buying(q, u)' => /\ Buying(q, u) /\ req'[q].seen = req[q].seen
                                           /\ req'[q].cut = req[q].cut
  BY DEF Buying
<1> QED BY <1>1 DEF SpendAt

\* Neither an excuse for the panel nor its end is one for the discount.
LEMMA StraySpend ==
    ASSUME TypeInv, NEW u \in Users, NEW v \in Users,
           UNCHANGED excused \/ Excuse(v, "stray") \/ Settled(v)
    PROVE  excused'[u] \cap {"clash", "parallel"} = excused[u] \cap {"clash", "parallel"}
<1>1. \/ excused'[u] = excused[u]
      \/ excused'[u] = excused[u] \cup {"stray"}
      \/ excused'[u] = excused[u] \ {"stray"}
  BY DEF TypeInv, Excuse, Settled
<1> QED BY <1>1

LEMMA ValidateSpend ==
    ASSUME TypeInv, SpendInv, NEW r \in Requests, NEW u \in Users, Validate(r, u)
    PROVE  SpendInv'
<1>1. UNCHANGED <<invoices, discount, bought, won>>
      /\ (UNCHANGED excused \/ Excuse(u, "clash"))
  BY DEF Validate, orders
<1>2. ASSUME NEW v \in Users PROVE SpendAt(v)'
  <2>1. excused'[v] = excused[v] \/ excused'[v] = excused[v] \cup {"clash"}
    BY <1>1 DEF Excuse, TypeInv
  <2>2. CASE excused'[v] = excused[v]
    BY <1>1, <2>2, ValidateMove, SpendOther DEF SpendInv, Buying
  <2>3. CASE excused'[v] = excused[v] \cup {"clash"}
    BY <2>3 DEF SpendAt
  <2> QED BY <2>1, <2>2, <2>3
<1> QED BY <1>2 DEF SpendInv

LEMMA InvoiceSpend ==
    ASSUME TypeInv, SpendInv, NEW u \in Users, Invoice(u) PROVE SpendInv'
<1> DEFINE i == [n |-> issued, cut |-> discount[u]]
<1>1. UNCHANGED <<discount, bought, won, req>>
      /\ invoices' = [invoices EXCEPT ![u] = @ \cup {i}]
  BY DEF Invoice
<1>2. i.cut = discount[u]
  OBVIOUS
<1> HIDE DEF i
<1>3. excused \in [Users -> SUBSET Excuses] /\ invoices \in [Users -> SUBSET [n : Nat, cut : BOOLEAN]]
  BY DEF TypeInv
<1>4. ASSUME NEW v \in Users, v # u PROVE SpendAt(v)'
  <2>1. excused'[v] = excused[v] /\ invoices'[v] = invoices[v]
    BY <1>1, <1>3, <1>4 DEF Invoice, Excuse
  <2> QED BY <1>1, <2>1 DEF SpendInv, SpendAt, Buying
<1>5. ASSUME excused'[u] \cap {"clash", "parallel"} = {} PROVE SpendAt(u)'
  <2>1. invoices[u] = {} /\ (\A r \in Requests : req[r].user # u) /\ excused' = excused
    <3>1. CASE Excuse(u, "parallel")
      <4>1. "parallel" \in excused'[u]
        BY <1>3, <3>1 DEF Excuse
      <4> QED BY <1>5, <4>1
    <3>2. CASE ~Excuse(u, "parallel")
      BY <3>2, Zenon DEF Invoice
    <3> QED BY <3>1, <3>2
  <2>2. invoices'[u] = {i}
    BY <1>1, <1>3, <2>1
  <2>3. \A r \in Requests : ~Buying(r, u)'
    BY <1>1, <2>1 DEF Buying
  <2>4. excused[u] \cap {"clash", "parallel"} = {}
    BY <1>5, <2>1
  <2>5. bought[u].cut <= won[u].cut /\ (discount[u] => bought[u].cut < won[u].cut)
    BY <2>4 DEF SpendInv, SpendAt
  <2> QED BY <1>1, <1>2, <2>2, <2>3, <2>5 DEF SpendAt
<1>6. SpendAt(u)'
  BY <1>5 DEF SpendAt
<1> QED BY <1>4, <1>6 DEF SpendInv

LEMMA PaySpend ==
    ASSUME TypeInv, SpendInv, NEW r \in Requests, NEW u \in Users, Pay(r, u)
    PROVE  SpendInv'
<1>1. PICK i \in invoices[u] :
        /\ invoices' = [invoices EXCEPT ![u] = @ \ {i}]
        /\ req[r].user = None
        /\ req'[r].user = u /\ req'[r].kind = "purchase"
        /\ req'[r].seen = discount[u] /\ req'[r].cut = i.cut
        /\ \A q \in Requests \ {r} : req'[q] = req[q]
  BY PayMove
<1>2. UNCHANGED <<discount, bought, won>>
  BY DEF Pay
<1>3. excused \in [Users -> SUBSET Excuses] /\ invoices \in [Users -> SUBSET [n : Nat, cut : BOOLEAN]]
  BY DEF TypeInv
<1>4. IF Meets(r, u) THEN Excuse(u, "clash") ELSE UNCHANGED excused
  BY DEF Pay
<1>5. ASSUME NEW v \in Users, v # u PROVE SpendAt(v)'
  <2>1. excused'[v] = excused[v] /\ invoices'[v] = invoices[v]
    BY <1>1, <1>3, <1>4, <1>5 DEF Excuse
  <2> QED BY <1>1, <1>2, <1>5, <2>1, SpendOther DEF SpendInv, Buying
<1>6. ASSUME excused'[u] \cap {"clash", "parallel"} = {} PROVE SpendAt(u)'
  <2>1. ~Meets(r, u) /\ excused' = excused
    <3>1. CASE Meets(r, u)
      <4>1. "clash" \in excused'[u]
        BY <1>3, <1>4, <3>1 DEF Excuse
      <4> QED BY <1>6, <4>1
    <3> QED BY <1>4, <3>1
  <2>2. \A q \in Requests : req'[q].user = u => q = r
    BY <1>1, <2>1 DEF Meets
  <2>3. excused[u] \cap {"clash", "parallel"} = {}
    BY <1>6, <2>1
  <2>4. /\ bought[u].cut <= won[u].cut
        /\ discount[u] => bought[u].cut < won[u].cut
        /\ \A j \in invoices[u] : j = i
        /\ i.cut => discount[u]
    BY <1>1, <2>3 DEF SpendInv, SpendAt
  <2>5. invoices'[u] = {}
    BY <1>1, <1>3, <2>4
  <2> QED BY <1>1, <1>2, <2>2, <2>4, <2>5 DEF SpendAt, Buying
<1>7. SpendAt(u)'
  BY <1>6 DEF SpendAt
<1> QED BY <1>5, <1>7 DEF SpendInv

\* The purchase that was priced with a discount resets it.
LEMMA PurchaseSpend ==
    ASSUME TypeInv, CalmInv, SpendInv, NEW r \in Requests, Purchase(r) PROVE SpendInv'
<1>1. PICK u \in Users : u = req[r].user
  BY DEF Purchase, TypeInv, TypeOK
<1>2. UNCHANGED <<invoices, won>> /\ req[r].kind = "purchase" /\ Drop(r) /\ Settled(u)
  BY <1>1 DEF Purchase
<1>3. bought \in [Users -> [full : Nat, cut : Nat]] /\ discount \in [Users -> BOOLEAN]
      /\ won \in [Users -> [days : Nat, cut : Nat]]
  BY DEF TypeInv, TypeOK
<1>4. req'[r].user = None /\ \A q \in Requests \ {r} : req'[q] = req[q]
  BY <1>2, DropType DEF NoRequest
<1>5. discount' = IF req[r].seen THEN [discount EXCEPT ![u] = FALSE] ELSE discount
  BY <1>1 DEF Purchase, Spend
<1>6. bought' = IF req[r].cut THEN [bought EXCEPT ![u].cut = @ + 1]
                ELSE [bought EXCEPT ![u].full = @ + 1]
  BY <1>1 DEF Purchase
<1>7. ASSUME NEW v \in Users, v # u PROVE SpendAt(v)'
  <2>1. bought'[v] = bought[v] /\ discount'[v] = discount[v] /\ v # None
    BY <1>3, <1>5, <1>6, <1>7, PromocodesAssumption
  <2> QED BY <1>2, <1>4, <2>1, StraySpend, SpendOther DEF SpendInv, Buying
<1>8. ASSUME excused'[u] \cap {"clash", "parallel"} = {} PROVE SpendAt(u)'
  <2>1. excused[u] \cap {"clash", "parallel"} = {}
    BY <1>2, <1>8, StraySpend
  <2>2. \A q \in Requests : req'[q].user # u
    <3>1. \A q \in Requests : req[q].user = u => q = r
      BY <1>1, <2>1 DEF CalmInv, CalmAt, Alone
    <3> QED BY <1>4, <3>1, PromocodesAssumption
  <2>3. invoices[u] = {} /\ (req[r].cut => req[r].seen /\ discount[u])
        /\ bought[u].cut <= won[u].cut /\ (discount[u] => bought[u].cut < won[u].cut)
    BY <1>1, <1>2, <2>1 DEF SpendInv, SpendAt, Buying
  <2>4. bought[u].cut \in Nat /\ won[u].cut \in Nat
    BY <1>3
  <2>5. CASE req[r].cut
    <3>1. bought'[u].cut = bought[u].cut + 1 /\ ~discount'[u]
      BY <1>3, <1>5, <1>6, <2>3, <2>5
    <3> QED BY <1>2, <2>2, <2>3, <2>4, <2>5, <3>1 DEF SpendAt, Buying
  <2>6. CASE ~req[r].cut
    <3>1. bought'[u].cut = bought[u].cut /\ (discount'[u] => discount[u])
      BY <1>3, <1>5, <1>6, <2>6
    <3> QED BY <1>2, <2>2, <2>3, <2>4, <3>1 DEF SpendAt, Buying
  <2> QED BY <2>5, <2>6
<1>9. SpendAt(u)'
  BY <1>8 DEF SpendAt
<1> QED BY <1>7, <1>9 DEF SpendInv

LEMMA ActivateSpend ==
    ASSUME TypeInv, CalmInv, SpendInv, NEW r \in Requests, Activate(r) PROVE SpendInv'
<1>1. PICK u \in Users : u = req[r].user
  BY DEF Activate, TypeInv, TypeOK
<1>2. UNCHANGED <<invoices, bought>> /\ Drop(r)
  BY DEF Activate, orders
<1>3. bought \in [Users -> [full : Nat, cut : Nat]] /\ discount \in [Users -> BOOLEAN]
      /\ won \in [Users -> [days : Nat, cut : Nat]]
  BY DEF TypeInv, TypeOK
<1>4. req'[r].user = None /\ \A q \in Requests \ {r} : req'[q] = req[q]
  BY <1>2, DropType DEF NoRequest
<1>5. CASE req[r].seen.type = "PURCHASE_DISCOUNT"
  <2>1. discount' = [discount EXCEPT ![u] = TRUE] /\ won' = [won EXCEPT ![u].cut = @ + 1]
        /\ UNCHANGED excused
    BY <1>1, <1>5 DEF Activate
  <2>2. ASSUME NEW v \in Users, v # u PROVE SpendAt(v)'
    <3>1. won'[v] = won[v] /\ discount'[v] = discount[v] /\ v # None
      BY <1>3, <2>1, <2>2, PromocodesAssumption
    <3> QED BY <1>2, <1>4, <2>1, <3>1, SpendOther DEF SpendInv, Buying
  <2>3. ASSUME excused[u] \cap {"clash", "parallel"} = {} PROVE SpendAt(u)'
    <3>1. \A q \in Requests : req'[q].user # u
      <4>1. \A q \in Requests : req[q].user = u => q = r
        BY <1>1, <2>3 DEF CalmInv, CalmAt, Alone
      <4> QED BY <1>4, <4>1, PromocodesAssumption
    <3>2. bought[u].cut <= won[u].cut /\ \A i, j \in invoices[u] : i = j
      BY <2>3 DEF SpendInv, SpendAt
    <3>3. won'[u].cut = won[u].cut + 1 /\ discount'[u] /\ won[u].cut \in Nat
          /\ bought[u].cut \in Nat
      BY <1>3, <2>1
    <3> QED BY <1>2, <3>1, <3>2, <3>3 DEF SpendAt, Buying
  <2>4. SpendAt(u)'
    BY <2>1, <2>3 DEF SpendAt
  <2> QED BY <2>2, <2>4 DEF SpendInv
<1>6. CASE req[r].seen.type # "PURCHASE_DISCOUNT"
  <2>1. UNCHANGED discount /\ won' = [won EXCEPT ![u].days = @ + 1] /\ Settled(u)
    BY <1>1, <1>6 DEF Activate
  <2>2. ASSUME NEW v \in Users PROVE SpendAt(v)'
    <3>1. won'[v].cut = won[v].cut /\ v # None
      BY <1>3, <2>1, PromocodesAssumption
    <3> QED BY <1>2, <1>4, <2>1, <3>1, StraySpend, SpendOther DEF SpendInv, Buying
  <2> QED BY <2>2 DEF SpendInv
<1> QED BY <1>5, <1>6

LEMMA NextSpend == TypeInv /\ CalmInv /\ SpendInv /\ [Next]_vars => SpendInv'
<1> SUFFICES ASSUME TypeInv, CalmInv, SpendInv, [Next]_vars PROVE SpendInv' OBVIOUS
<1>1. ASSUME NEW r \in Requests, ReadSubscription(r) PROVE SpendInv'
  <2>1. UNCHANGED <<invoices, discount, bought, won, excused>>
    BY <1>1 DEF ReadSubscription, orders
  <2> QED BY <1>1, <2>1, ReadMove, SpendOther DEF SpendInv, Buying
<1>2. ASSUME NEW r \in Requests, CallPanel(r) PROVE SpendInv'
  <2>1. UNCHANGED <<invoices, discount, bought, won>>
    BY <1>2 DEF CallPanel, orders
  <2>2. PICK u \in Users : u = req[r].user
    BY <1>2, CallMove
  <2>3. UNCHANGED excused \/ Excuse(u, "stray")
    BY <1>2, <2>2, CallMove
  <2>4. ASSUME NEW v \in Users PROVE SpendAt(v)'
    <3>1. Buying(r, v)' => Buying(r, v) /\ req'[r].seen = req[r].seen /\ req'[r].cut = req[r].cut
      BY <1>2, CallMove DEF Buying, Answered, NoRequest
    <3> QED BY <1>2, <2>1, <2>3, <3>1, CallMove, StraySpend, SpendOther DEF SpendInv
  <2> QED BY <2>4 DEF SpendInv
<1>3. ASSUME NEW r \in Requests, Refuse(r) \/ Crash(r) PROVE SpendInv'
  <2>1. UNCHANGED <<invoices, discount, bought, won>> /\ Drop(r)
    BY <1>3 DEF Refuse, Crash, orders
  <2>2. PICK u \in Users : u = req[r].user
    BY <1>3 DEF Refuse, Crash, TypeInv, TypeOK
  <2>3. UNCHANGED excused \/ Excuse(u, "stray")
    BY <1>3, <2>2 DEF Refuse, Crash
  <2>4. ASSUME NEW v \in Users PROVE SpendAt(v)'
    <3>1. ~Buying(r, v)'
      BY <2>1, DropType, PromocodesAssumption DEF Buying, NoRequest
    <3> QED BY <2>1, <2>3, <3>1, DropType, StraySpend, SpendOther DEF SpendInv
  <2> QED BY <2>4 DEF SpendInv
<1>4. CASE UNCHANGED <<invoices, discount, bought, won, excused, req>>
  BY <1>4 DEF SpendInv, SpendAt, Buying
<1>5. CreatePromocode \/ UpdatePromocode \/ UNCHANGED vars
        => UNCHANGED <<invoices, discount, bought, won, excused, req>>
  BY DEF CreatePromocode, UpdatePromocode, Edit, orders, vars
<1> QED BY <1>1, <1>2, <1>3, <1>4, <1>5, ValidateSpend, InvoiceSpend, PaySpend, PurchaseSpend,
           ActivateSpend DEF Next

-----------------------------------------------------------------------------
(* The theorems.                                                            *)

LEMMA InitInv == Init => IInv
<1> SUFFICES ASSUME Init PROVE IInv OBVIOUS
<1>1. TypeInv
  BY InitType
<1>2. \A r \in Requests : req[r].pc = "idle" /\ req[r].user = None
  BY DEF Init, NoRequest
<1>3. \A u \in Users : u # None
  BY PromocodesAssumption
<1>4. CodeInv
  <2>1. Used = 0
    BY FS_EmptySet DEF Init, Used
  <2> QED BY <1>2, <2>1 DEF Init, CodeInv, Flying, LimitHeld, OncePerUser
<1>5. \A u \in Users : Earned(u) = (IF sub[u] = None THEN 0 ELSE Term)
                       /\ (sub[u] # None => sub[u] = Term)
  <2>1. 0 * Reward = 0 /\ (0 + 0) * Term = 0 /\ (1 + 0) * Term = Term /\ Term \in Nat
    BY PromocodesAssumption
  <2> QED BY <2>1 DEF Init, Earned
<1>6. Term \in Nat /\ None \notin Nat
  BY PromocodesAssumption
<1>7. EarnInv
  BY <1>2, <1>5, <1>6 DEF EarnInv, Reading
<1>8. PushInv
  BY <1>2 DEF PushInv
<1>9. CalmInv
  BY <1>2, <1>3, <1>5, <1>6 DEF Init, CalmInv, CalmAt, Alone
<1>10. SpendInv
  BY <1>2, <1>3 DEF Init, SpendInv, SpendAt, Buying
<1> QED BY <1>1, <1>4, <1>7, <1>8, <1>9, <1>10 DEF IInv

\* The invariant holds of every behaviour.
THEOREM Invariant == Spec => []IInv
<1>1. IInv /\ [Next]_vars => IInv'
  BY NextType, NextCode, NextEarn, NextPush, NextCalm, NextSpend DEF IInv
<1> QED BY <1>1, InitInv, PTL DEF Spec

\* Promocodes!ActivationsAllowed: however many redemptions are in flight, a code is
\* activated no more often than the largest limit its administrator gave it, and once by
\* a user unless it was reusable at some time (create_activation counts again under the
\* lock of the row).
THEOREM LimitsHold == Spec => []ActivationsAllowed
<1>1. IInv => ActivationsAllowed
  BY DEF IInv, TypeInv, CodeInv, ActivationsAllowed
<1> QED BY <1>1, Invariant, PTL

\* Promocodes!EarnedIsKept: whatever the interleaving, nobody has more days than
\* activations and purchases gave; with no overlap of a user's requests none is lost, and
\* the panel agrees, through refusals, lost answers and crashes.
THEOREM DaysAreKept == Spec => []EarnedIsKept
<1>1. IInv => EarnedIsKept
  <2> SUFFICES ASSUME IInv PROVE EarnedIsKept OBVIOUS
  <2>1. NoMoreThanEarned
    BY DEF IInv, EarnInv, NoMoreThanEarned
  <2>2. NoDayIsLost
    BY DEF IInv, CalmInv, CalmAt, NoDayIsLost, Resting
  <2> QED BY <2>1, <2>2 DEF EarnedIsKept
<1> QED BY <1>1, Invariant, PTL

\* Promocodes!DiscountSpentOnce: a discount prices no second purchase while the user's
\* requests and invoices follow one another.
THEOREM DiscountPricesOnce == Spec => []DiscountSpentOnce
<1>1. IInv => DiscountSpentOnce
  BY DEF IInv, SpendInv, SpendAt, DiscountSpentOnce
<1> QED BY <1>1, Invariant, PTL

=============================================================================
