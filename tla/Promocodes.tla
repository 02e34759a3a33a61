----------------------------- MODULE Promocodes -----------------------------
(***************************************************************************)
(* One promo code, its administrator, the users who redeem it and the      *)
(* renewals they pay meanwhile.  A redemption validates the code, pushes   *)
(* the reward to the panel and only then records the activation; one       *)
(* transaction, one group of reads or one call of the panel is one action. *)
(*                                                                         *)
(* A reward of days (DURATION) stands for TRAFFIC and DEVICES too: all add *)
(* to a number of the subscription read before the call.  Days are counted *)
(* from the start, and no subscription runs out.                           *)
(***************************************************************************)
EXTENDS Integers, FiniteSets

CONSTANTS
    Users,
    Requests,       \* redemptions and purchases in flight at once
    RewardTypes,    \* reward types the code may have
    Reward,         \* days it rewards
    Term,           \* days of a purchase
    Limits,         \* values of max_activations, 0 for none
    MaxInvoices,    \* bound on invoices
    MaxBegun,       \* bound on requests begun
    MaxEdits,       \* bound on confirmations of the administrator
    Faults,         \* faults that may occur
    MaxFaults,      \* bound on how many
    None            \* no subscription, no user of the panel

ASSUME PromocodesAssumption ==
    /\ IsFiniteSet(Users) /\ Limits \subseteq Nat
    /\ {Reward, Term} \subseteq Nat \ {0}
    /\ {MaxInvoices, MaxBegun, MaxEdits, MaxFaults} \subseteq Nat
    /\ RewardTypes \subseteq {"DURATION", "SUBSCRIPTION", "PURCHASE_DISCOUNT"}
    /\ Faults \subseteq {"refused", "unanswered", "crash"}
    /\ None \notin Nat \cup Users

VARIABLES
    code,       \* the row of promocodes
    acts,       \* rows of promocode_activations
    sub,        \* expire_at of the current subscription of each user
    panel,      \* expiry the panel has
    discount,   \* whether users.purchase_discount is set
    invoices,   \* open invoices of each user, by whether the discount priced them
    req,        \* program counter and locals of each request
    issued,     \* invoices issued
    bought,     \* history: purchases of each user, by whether at a discount
    won,        \* history: activations of each user, by whether for a discount
    begun,      \* requests begun
    excused,    \* history: users whose requests overlapped ("clash"), who had an
                \* invoice issued before the last was settled ("parallel"), whose
                \* reward stayed on the panel alone ("stray")
    widest,     \* history: the most generous the code has been
    edits, faults

vars == <<code, acts, sub, panel, discount, invoices, req, issued, bought, won, begun,
          excused, widest, edits, faults>>
admin  == <<code, widest, edits>>
orders == <<invoices, issued, bought>>
access == <<sub, panel>>

-----------------------------------------------------------------------------

NoRequest == [pc |-> "idle", user |-> None, kind |-> "promo", seen |-> None, base |-> None,
              cut |-> FALSE]
NoCode    == [active |-> FALSE, max |-> 0, reusable |-> FALSE, type |-> "DURATION"]

Init ==
    /\ code = None
    /\ acts = {}
    /\ sub \in [Users -> {None, Term}] /\ panel = sub
    /\ discount = [u \in Users |-> FALSE]
    /\ invoices = [u \in Users |-> {}] /\ issued = 0
    /\ bought = [u \in Users |-> [full |-> IF sub[u] = None THEN 0 ELSE 1, cut |-> 0]]
    /\ won = [u \in Users |-> [days |-> 0, cut |-> 0]]
    /\ req = [r \in Requests |-> NoRequest] /\ begun = 0
    /\ excused = [u \in Users |-> {}]
    /\ widest = [max |-> 0, unlimited |-> FALSE, reusable |-> FALSE]
    /\ edits = 0 /\ faults = 0

Fault(kind) ==
    /\ kind \in Faults /\ faults < MaxFaults
    /\ faults' = faults + 1

Used == Cardinality(acts)

Activated(u) == \E a \in acts : a.user = u

Excuse(u, why) == excused' = [excused EXCEPT ![u] = @ \cup {why}]

\* A request that starts while another of the same user is in flight.
Meets(r, u) == \E q \in Requests \ {r} : req[q].user = u

\* Mutation of Begin: the request is nobody's.
BeginNobody(r, q) ==
    /\ req[r].pc = "idle" /\ begun < MaxBegun /\ begun' = begun + 1
    /\ req' = [req EXCEPT ![r] = [q EXCEPT !.user = None]]

Begin(r, q) ==
    /\ req[r].pc = "idle" /\ begun < MaxBegun /\ begun' = begun + 1
    /\ req' = [req EXCEPT ![r] = q]

-----------------------------------------------------------------------------
(* The administrator's dialog works on a copy until it is confirmed.        *)

Widen(c) ==
    widest' = [max |-> IF c.max > widest.max THEN c.max ELSE widest.max,
               unlimited |-> widest.unlimited \/ c.max = 0,
               reusable |-> widest.reusable \/ c.reusable]

Edit ==
    /\ edits < MaxEdits /\ edits' = edits + 1
    /\ Widen(code')
    /\ UNCHANGED <<acts, access, discount, orders, won, req, begun, excused, faults>>

\* on_promo_confirm hands over neither is_active, which is TRUE for a new code, nor
\* is_reusable, whatever was chosen.
CreatePromocode ==
    /\ code = None
    /\ \E t \in RewardTypes, n \in Limits :
        code' = [active |-> TRUE, max |-> n, reusable |-> FALSE, type |-> t]
    /\ Edit

\* One attribute at a time; to change several is to confirm several times.
UpdatePromocode ==
    /\ code # None
    /\ \/ code' = [code EXCEPT !.active = ~@]
       \/ code' = [code EXCEPT !.reusable = ~@]
       \/ \E n \in Limits \ {code.max} : code' = [code EXCEPT !.max = n]
       \/ \E t \in RewardTypes \ {code.type} : code' = [code EXCEPT !.type = t]
    /\ Edit

-----------------------------------------------------------------------------
(* ActivatePromocode.                                                       *)

Full(c, n) == c.max # 0 /\ n >= c.max

NeedsSubscription(t) == t = "DURATION"

Valid(u) ==
    /\ code # None /\ code.active
    /\ ~Full(code, Used)
    /\ code.reusable \/ ~Activated(u)
    /\ NeedsSubscription(code.type) => sub[u] # None

Validate(r, u) ==
    /\ Valid(u)
    /\ Begin(r, [pc |-> "read", user |-> u, kind |-> "promo", seen |-> code,
                 base |-> None, cut |-> FALSE])
    /\ IF Meets(r, u) THEN Excuse(u, "clash") ELSE UNCHANGED excused
    /\ UNCHANGED <<admin, acts, access, discount, orders, won, faults>>

\* get_current; a discount has nothing to push.
ReadSubscription(r) ==
    /\ req[r].pc = "read"
    /\ req' = [req EXCEPT ![r].base = sub[req[r].user],
                   ![r].pc = IF req[r].kind = "promo" /\ req[r].seen.type = "PURCHASE_DISCOUNT"
                             THEN "commit" ELSE "panel"]
    /\ UNCHANGED <<admin, acts, access, discount, orders, won, begun, excused, faults>>

\* Days are added to what was read, and so is the duration of a plan, since nothing
\* was paid for it (fallback_stack).
Expiry(r) ==
    LET days == IF req[r].kind = "promo" THEN Reward ELSE Term
    IN IF req[r].base = None THEN days ELSE req[r].base + days

\* The panel refuses a second user of the same name.
NameTaken(r) == req[r].base = None /\ panel[req[r].user] # None

Drop(r) == req' = [req EXCEPT ![r] = NoRequest]

\* The call succeeds, fails, or is applied with its answer lost; a failure leaves
\* nothing behind in the database.
CallPanel(r) ==
    /\ req[r].pc = "panel"
    /\ LET u == req[r].user
       IN \/ /\ ~NameTaken(r)
             /\ panel' = [panel EXCEPT ![u] = Expiry(r)]
             /\ \/ req' = [req EXCEPT ![r].pc = "commit"] /\ UNCHANGED <<excused, faults>>
                \/ Fault("unanswered") /\ Drop(r) /\ Excuse(u, "stray")
          \/ NameTaken(r) /\ Drop(r) /\ UNCHANGED <<panel, excused, faults>>
          \/ Fault("refused") /\ Drop(r) /\ UNCHANGED <<panel, excused>>
    /\ UNCHANGED <<admin, acts, sub, discount, orders, won, begun>>

\* Mutations of Allowed: the limit, or the user, is not asked for again.
AllowedUncounted(r) == req[r].seen.reusable \/ ~Activated(req[r].user)
AllowedAgain(r)     == ~Full(req[r].seen, Used)

\* create_activation checks again under the lock of the row, by the limit and the
\* kind of code that were validated.
Allowed(r) ==
    /\ ~Full(req[r].seen, Used)
    /\ req[r].seen.reusable \/ ~Activated(req[r].user)

\* What the reward leaves on the panel is not taken back.
Refuse(r) ==
    /\ req[r].pc = "commit" /\ req[r].kind = "promo" /\ ~Allowed(r)
    /\ Drop(r)
    /\ IF req[r].seen.type = "PURCHASE_DISCOUNT" THEN UNCHANGED excused
       ELSE Excuse(req[r].user, "stray")
    /\ UNCHANGED <<admin, acts, access, discount, orders, won, begun, faults>>

\* Mutations of Persist: what was read is saved, the subscription as it is by now is
\* extended.
PersistRead(r) == sub' = [sub EXCEPT ![req[r].user] = req[r].base]
PersistMore(r) ==
    sub' = [sub EXCEPT ![req[r].user] = (IF @ = None THEN 0 ELSE @) + Expiry(r)]

Persist(r) == sub' = [sub EXCEPT ![req[r].user] = Expiry(r)]

Settled(u) == excused' = [excused EXCEPT ![u] = @ \ {"stray"}]

Activate(r) ==
    /\ req[r].pc = "commit" /\ req[r].kind = "promo" /\ Allowed(r)
    /\ LET u == req[r].user
       IN /\ acts' = acts \cup {[id |-> Used + 1, user |-> u]}
          /\ IF req[r].seen.type = "PURCHASE_DISCOUNT"
             THEN /\ discount' = [discount EXCEPT ![u] = TRUE]
                  /\ won' = [won EXCEPT ![u].cut = @ + 1]
                  /\ UNCHANGED <<sub, excused>>
             ELSE /\ Persist(r) /\ Settled(u)
                  /\ won' = [won EXCEPT ![u].days = @ + 1]
                  /\ UNCHANGED discount
    /\ Drop(r)
    /\ UNCHANGED <<admin, panel, orders, begun, faults>>

\* The process stops; what it pushed stays pushed.
Crash(r) ==
    /\ req[r].pc # "idle" /\ Fault("crash") /\ Drop(r)
    /\ IF req[r].pc = "commit" THEN Excuse(req[r].user, "stray") ELSE UNCHANGED excused
    /\ UNCHANGED <<admin, acts, access, discount, orders, won, begun>>

-----------------------------------------------------------------------------
(* What the discount is for: a term is priced when its invoice is issued    *)
(* and bought when that is paid.                                            *)

Invoice(u) ==
    /\ issued < MaxInvoices /\ issued' = issued + 1
    /\ invoices' = [invoices EXCEPT ![u] = @ \cup {[n |-> issued, cut |-> discount[u]]}]
    /\ IF invoices[u] # {} \/ \E r \in Requests : req[r].user = u
       THEN Excuse(u, "parallel") ELSE UNCHANGED excused
    /\ UNCHANGED <<admin, acts, access, discount, bought, won, req, begun, faults>>

Pay(r, u) ==
    /\ \E i \in invoices[u] :
        /\ invoices' = [invoices EXCEPT ![u] = @ \ {i}]
        /\ Begin(r, [pc |-> "read", user |-> u, kind |-> "purchase",
                     seen |-> discount[u], base |-> None, cut |-> i.cut])
    /\ IF Meets(r, u) THEN Excuse(u, "clash") ELSE UNCHANGED excused
    /\ UNCHANGED <<admin, acts, access, discount, issued, bought, won, faults>>

\* Mutation of Spend: the discount stays.
SpendNothing(r) == UNCHANGED discount

\* The discount is reset if the user was read with one.
Spend(r) ==
    discount' = IF req[r].seen THEN [discount EXCEPT ![req[r].user] = FALSE] ELSE discount

Purchase(r) ==
    /\ req[r].pc = "commit" /\ req[r].kind = "purchase"
    /\ Persist(r) /\ Spend(r) /\ Settled(req[r].user)
    /\ bought' = IF req[r].cut THEN [bought EXCEPT ![req[r].user].cut = @ + 1]
                 ELSE [bought EXCEPT ![req[r].user].full = @ + 1]
    /\ Drop(r)
    /\ UNCHANGED <<admin, acts, panel, invoices, issued, won, begun, faults>>

Next ==
    \/ CreatePromocode \/ UpdatePromocode
    \/ \E u \in Users : Invoice(u)
    \/ \E r \in Requests :
        \/ \E u \in Users : Validate(r, u) \/ Pay(r, u)
        \/ ReadSubscription(r) \/ CallPanel(r) \/ Refuse(r) \/ Activate(r)
        \/ Purchase(r) \/ Crash(r)

Spec == Init /\ [][Next]_vars

-----------------------------------------------------------------------------
(* Properties.                                                              *)

Codes == [active : BOOLEAN, max : Limits \cup {0}, reusable : BOOLEAN, type : RewardTypes]
Days  == Nat \cup {None}

\* Every variable keeps its type (the columns of promocodes, its activations, users).
TypeOK ==
    /\ code \in Codes \cup {None}
    /\ acts \subseteq [id : Nat, user : Users]
    /\ sub \in [Users -> Days] /\ panel \in [Users -> Days]
    /\ discount \in [Users -> BOOLEAN] /\ issued \in 0 .. MaxInvoices
    /\ \A r \in Requests : req[r].pc \in {"idle", "read", "panel", "commit"}
                           /\ (req[r].pc # "idle" => req[r].user \in Users)
    /\ edits \in 0 .. MaxEdits /\ begun \in 0 .. MaxBegun /\ faults \in 0 .. MaxFaults

\* A code is never activated more often than the largest limit it ever had, however
\* many redemptions were validated at once (create_activation).
LimitHeld == widest.unlimited \/ Used <= widest.max

\* Nobody activates a code twice that never was reusable.
OncePerUser == widest.reusable \/ \A a, b \in acts : a.user = b.user => a = b

Earned(u) == won[u].days * Reward + (bought[u].full + bought[u].cut) * Term

Resting(u) == \A r \in Requests : req[r].user # u

\* A subscription never has more days than its activations and its purchases gave,
\* even when they overlap.
NoMoreThanEarned == \A u \in Users : sub[u] # None => sub[u] <= Earned(u)

\* No day is lost either, and the panel agrees, unless two requests of the user
\* overlapped; what a lost answer, a refusal or a crash left on the panel alone is
\* made good by the next success (the reward is pushed, then recorded).
NoDayIsLost ==
    \A u \in Users : Resting(u) /\ "clash" \notin excused[u] =>
        /\ sub[u] # None => sub[u] = Earned(u)
        /\ "stray" \notin excused[u] => panel[u] = sub[u]

\* A discount prices one purchase for each activation that granted it, unless the user
\* had an invoice issued before the last one was settled (the reset in
\* PurchaseSubscription).
DiscountSpentOnce ==
    \A u \in Users :
        excused[u] \cap {"clash", "parallel"} = {} => bought[u].cut <= won[u].cut

\* A code is activated no more often than its administrator allowed at some time, in
\* all and by each user (create_activation, validate).
ActivationsAllowed == TypeOK /\ LimitHeld /\ OncePerUser

\* What a user earned by activations and purchases is what the user has, no more and no
\* less (ActivatePromocode pushes, then records).
EarnedIsKept == NoMoreThanEarned /\ NoDayIsLost

=============================================================================
