------------------------------ MODULE Checkout ------------------------------
(***************************************************************************)
(* The purchase dialog of the bot, one user, and the catalogue it sells    *)
(* from while operators edit it.  The user picks a plan, a term, a gateway *)
(* and perhaps a method of Platega; the dialog's data is loaded with a tap *)
(* and saved whole when its handler ends, so of two taps that overlap the  *)
(* later to end wins.  Taps that the library makes wait for each other are *)
(* some of these.                                                          *)
(*                                                                         *)
(* A handler that asks no gateway for a payment is one action.  A screen   *)
(* offers what was true when it was drawn.  A plan's version stands for    *)
(* its prices and limits; a plan is open if it is active and available to  *)
(* the user.  A discount is of 100 percent or none, and not of a trial.    *)
(***************************************************************************)
EXTENDS Integers, FiniteSets, FiniteSetsExt

CONSTANTS
    Plans,          \* plans of the catalogue
    Trial,          \* a trial plan that is paid for, not in Plans
    Terms,          \* durations a plan may have
    TermsOf,        \* durations each has at first
    Drafts,         \* durations an operator may give one
    Held,           \* plans the user may have at first
    Methods,        \* methods enabled of Platega, two or more
    Taps,           \* taps handled at once
    MaxChanges,     \* bound on changes of the shop and of the account
    MaxVisits,      \* bound on openings of the dialog
    MaxInvoices,    \* bound on invoices
    MaxRefusals,    \* bound on refusals of a gateway
    None            \* nothing

\* Buttons that lead back.
Buttons == {"main", "plans", "terms", "gateways", "methods"}

ASSUME CheckoutAssumption ==
    /\ IsFiniteSet(Plans) /\ Held \subseteq Plans /\ Trial \notin Plans
    /\ None \notin Plans \cup {Trial} \cup Terms
    /\ Buttons \cap (Plans \cup Terms \cup Methods) = {}
    /\ IsFiniteSet(Terms) /\ Terms # {} /\ Drafts \subseteq (SUBSET Terms) \ {{}}
    /\ TermsOf \in [Plans -> (SUBSET Terms) \ {{}}]
    /\ IsFiniteSet(Methods) /\ Cardinality(Methods) > 1
    /\ {MaxChanges, MaxVisits, MaxInvoices, MaxRefusals} \subseteq Nat

VARIABLES
    catalogue,  \* the row of each plan, None if it is deleted
    gateways,   \* active gateways
    sub,        \* plan and version of the current subscription, if it is no trial;
                \* it ends some day
    gift,       \* whether the user's discount is of 100 percent
    changes,    \* changes made to those four
    dialog,     \* the dialog as stored and shown, None if another is
    visits,
    tap,        \* payments being created
    invoices,   \* transactions of the user
    recent,     \* history: invoices issued in this visit since a choice dropped the cache
    clash,      \* history: taps of this visit overlapped
    refusals

shop    == <<catalogue, gateways>>
account == <<sub, gift, changes>>
orders  == <<invoices, recent>>
vars    == <<shop, account, dialog, visits, tap, orders, clash, refusals>>

-----------------------------------------------------------------------------

Gateways == {"TELEGRAM_STARS", "PLATEGA"}

Open == {p \in Plans : catalogue[p] # None /\ catalogue[p].open}

Snapshot(p) == [id |-> p, version |-> catalogue[p].version]

\* retort.dump(plan)
Dump(p) == [id |-> p, version |-> catalogue[p].version, terms |-> catalogue[p].terms]

TheTrial == [id |-> Trial, version |-> 0, terms |-> {CHOOSE t \in Terms : TRUE}]

NoTap == [pc |-> "idle", visit |-> 0, then |-> None, gateway |-> None, cached |-> FALSE,
          free |-> FALSE]

Fresh == [screen |-> "MAIN", shown |-> {}, type |-> None, own |-> None, plan |-> None,
          term |-> None, method |-> None, pick |-> None, onlyPlan |-> FALSE,
          onlyTerm |-> FALSE, cache |-> {}, pay |-> None]

Init ==
    /\ catalogue = [p \in Plans |-> [open |-> TRUE, version |-> 0, terms |-> TermsOf[p]]]
    /\ gateways = Gateways
    /\ sub \in {None} \cup {Snapshot(p) : p \in Held} /\ gift = FALSE /\ changes = 0
    /\ dialog = None /\ visits = 0
    /\ tap = [t \in Taps |-> NoTap]
    /\ invoices = {} /\ recent = {} /\ clash = FALSE /\ refusals = 0

-----------------------------------------------------------------------------
(* What the screens offer: the buttons drawn by dialog.py from the getters. *)

MainOffers ==
    {"main"} \cup (IF sub = None THEN {"NEW"} ELSE {"RENEW", "CHANGE"})

\* The secret code is entered from here too, and Back leads from it to the first screen.
PlansOffers == {"main"} \cup Open

Paying(c)  == c.pay # None /\ c.pay.url
Getting(c) == c.pay # None /\ ~c.pay.url

ToPlans(c) == IF c.onlyPlan THEN {} ELSE {"plans"}
ToTerms(c) == IF c.onlyTerm THEN {} ELSE {"terms"}

\* The gateways stay on the screen beside the button to pay.
MethodOffers(c) ==
    ToPlans(c) \cup ToTerms(c)
    \cup (IF Getting(c) \/ Cardinality(gateways) = 1 THEN {} ELSE gateways)

PlategaOffers(c) ==
    IF Paying(c) THEN {"methods"}
    ELSE Methods \cup (IF Cardinality(gateways) = 1 THEN ToTerms(c) ELSE {"gateways"})

Show(c, screen) ==
    [c EXCEPT !.screen = screen,
              !.shown = CASE screen = "MAIN"           -> MainOffers
                          [] screen = "PLANS"          -> PlansOffers
                          [] screen = "DURATION"       -> c.plan.terms \cup ToPlans(c)
                          [] screen = "PAYMENT_METHOD" -> MethodOffers(c)
                          [] screen = "PLATEGA_METHOD" -> PlategaOffers(c)]

Offers(item) == dialog # None /\ item \in dialog.shown

On(screens) == dialog # None /\ dialog.screen \in screens

Busy == {t \in Taps : tap[t].pc # "idle"}

InFlight == \E t \in Busy : tap[t].visit = visits

\* A tap that is handled at once.
Turn(c) ==
    /\ dialog' = c /\ clash' = (clash \/ InFlight)
    /\ UNCHANGED <<shop, account, visits, tap, invoices, refusals>>

\* An error leads to the main menu, whatever dialog is open by then.
Fail ==
    /\ dialog' = None /\ clash' = (clash \/ InFlight)
    /\ UNCHANGED <<shop, account, visits, invoices>>

-----------------------------------------------------------------------------
(* Opening the dialog.                                                      *)

Owned == IF sub = None THEN None ELSE sub.id

\* plan_getter sets the type when it draws the plan of a link: a user without a
\* subscription buys one, a trial (which is no sub here) or another plan is changed.
LinkTypes(p) ==
    IF sub = None THEN {"NEW", "CHANGE"} ELSE IF sub = Snapshot(p) THEN {"RENEW"} ELSE {"CHANGE"}

\* From the menu, from a link to the plans or to one of them, or for the trial that is
\* paid for (on_subscription_start).
Start ==
    /\ visits < MaxVisits /\ visits' = visits + 1
    /\ \/ dialog' = Show(Fresh, "MAIN")
       \/ dialog' = Show([Fresh EXCEPT !.type = "NEW"], "PLANS")
       \/ \E p \in Open : \E type \in LinkTypes(p) :
            dialog' = [Fresh EXCEPT !.screen = "PLAN", !.shown = {p}, !.type = type,
                           !.own = Owned, !.onlyPlan = TRUE]
       \/ dialog' = Show([Fresh EXCEPT !.type = "NEW", !.plan = TheTrial,
                              !.term = CHOOSE t \in TheTrial.terms : TRUE,
                              !.onlyPlan = TRUE, !.onlyTerm = TRUE], "PAYMENT_METHOD")
    /\ recent' = {} /\ clash' = FALSE
    /\ UNCHANGED <<shop, account, tap, invoices, refusals>>

-----------------------------------------------------------------------------
(* Creating a payment.                                                      *)

\* The key of the cache does not name the plan.
Key(c, g) == [type |-> c.type, term |-> c.term, gateway |-> g,
              pick |-> IF g = "PLATEGA" THEN c.pick ELSE None]

Free(c) == gift /\ c.plan.id # Trial

\* create_payment is asked; a gateway that is not active raises.
Ask(t, c, g, cached) ==
    IF g \notin gateways
    THEN Fail /\ UNCHANGED <<tap, refusals>>
    ELSE /\ tap[t].pc = "idle"
         /\ Cardinality(invoices) + Cardinality(Busy) < MaxInvoices
         /\ tap' = [tap EXCEPT ![t] = [pc |-> "paying", visit |-> visits, then |-> c,
                        gateway |-> g, cached |-> cached, free |-> Free(c)]]
         /\ clash' = (clash \/ InFlight)
         /\ UNCHANGED <<shop, account, dialog, visits, invoices, refusals>>

\* Mutation of Cached: no payment is found again.
CachedNever(c, g) == {}

Cached(c, g) == {e \in c.cache : e.key = Key(c, g)}

\* Platega's methods are asked for, unless nothing is to be paid; a payment of the same
\* key is shown again, and else created.
Checkout(t, c, g, screen) ==
    \/ /\ Cached(c, g) # {}
       /\ \E e \in Cached(c, g) : Turn(Show([c EXCEPT !.pay = e.pay], screen))
    \/ Cached(c, g) = {} /\ Ask(t, [c EXCEPT !.screen = screen], g, TRUE)

Routed(c, g) == g = "PLATEGA" /\ ~Free(c)

\* Mutation of Route: the invoice of an earlier choice stays.
RouteKept(c) == Turn(Show([c EXCEPT !.method = "PLATEGA"], "PLATEGA_METHOD"))

\* _resolve_platega_method
Route(c) == Turn(Show([c EXCEPT !.method = "PLATEGA", !.pay = None], "PLATEGA_METHOD"))

Pay(t, c, g) ==
    LET chosen == [c EXCEPT !.method = g, !.pick = None]     \* no method of this payment
    IN \/ Routed(c, g) /\ Route(c)
       \/ ~Routed(c, g) /\ Checkout(t, chosen, g, "PAYMENT_METHOD")

\* Transactions that a purchase without payment takes over; get_recent_pending looks
\* neither at their type nor at their price, and at the last quarter of an hour alone.
Pending(c, g) ==
    {i \in invoices : i.plan.id = c.plan.id /\ i.term = c.term /\ i.gateway = g}

Refused(t) ==
    /\ tap[t].pc = "paying" /\ refusals < MaxRefusals /\ refusals' = refusals + 1
    /\ tap' = [tap EXCEPT ![t] = NoTap]
    /\ Fail /\ UNCHANGED recent

Issued(t) ==
    LET c == tap[t].then
    IN [n |-> Cardinality(invoices) + 1, type |-> c.type, own |-> c.own, plan |-> c.plan,
        term |-> c.term, gateway |-> tap[t].gateway,
        pick |-> IF tap[t].gateway = "PLATEGA" THEN c.pick ELSE None,
        free |-> tap[t].free, cached |-> tap[t].cached]

\* Mutation of Save: the payment alone is saved, in the dialog as it is by now.
SaveLate(t, pay) == [dialog EXCEPT !.pay = pay]

\* The dialog as it was loaded, with the payment.
Save(t, pay) ==
    LET c == tap[t].then
    IN Show([c EXCEPT !.pay = pay,
                 !.cache = IF tap[t].cached
                           THEN @ \cup {[key |-> Key(c, tap[t].gateway), pay |-> pay]} ELSE @],
            c.screen)

Created(t) ==
    /\ tap[t].pc = "paying"
    /\ tap' = [tap EXCEPT ![t] = NoTap]
    /\ \E i \in {Issued(t)} \cup
               (IF tap[t].free THEN Pending(tap[t].then, tap[t].gateway) ELSE {}) :
        /\ invoices' = invoices \cup {i}
        /\ IF dialog # None /\ tap[t].visit = visits
           THEN /\ dialog' = Save(t, [invoice |-> i, url |-> ~tap[t].free,
                                      kept |-> FALSE, reused |-> i \in invoices])
                /\ recent' = recent \cup ({i} \ invoices)
           ELSE UNCHANGED <<dialog, recent>>
    /\ UNCHANGED <<shop, account, visits, clash, refusals>>

-----------------------------------------------------------------------------
(* The taps.                                                                *)

\* A choice of type or plan drops the payments cached for the last one.
Anew(c) == [c EXCEPT !.term = None, !.cache = {}]

NothingToSell == Open = {} \/ gateways = {}

\* Mutation of Renewed: the first plan of the list is renewed.
RenewedFirst == IF Open = {} THEN {} ELSE {CHOOSE p \in Open : TRUE}

\* The plan of the subscription, as it is or as it was modified, if it is available.
Renewed == {sub.id} \cap Open

\* One plan with one term leaves the gateways to choose from; what an earlier choice
\* left to be paid is not cleared.
Collapsed(t, c) ==
    \/ \E g \in gateways :
        /\ Cardinality(gateways) = 1
        /\ \/ Routed(c, g) /\ Route(c)
           \/ ~Routed(c, g)
              /\ Ask(t, [c EXCEPT !.method = g, !.pick = None, !.screen = "PAYMENT_METHOD"],
                     g, FALSE)
    \/ /\ Cardinality(gateways) > 1
       /\ Turn(Show([c EXCEPT !.pay = IF @ = None THEN @ ELSE [@ EXCEPT !.kept = TRUE]],
                    "PAYMENT_METHOD"))

\* The only plan there is.
Single(t, c) ==
    \/ Cardinality(c.plan.terms) > 1 /\ Turn(Show(c, "DURATION"))
    \/ /\ Cardinality(c.plan.terms) = 1
       /\ \E m \in c.plan.terms : Collapsed(t, [c EXCEPT !.term = m, !.onlyTerm = TRUE])

\* on_subscription_plans
ChooseType(t, type) ==
    /\ On({"MAIN"}) /\ type \in {"NEW", "RENEW", "CHANGE"} /\ Offers(type)
    /\ LET c == [Anew(dialog) EXCEPT !.type = type, !.own = Owned]
           renews == type = "RENEW" /\ sub # None
       IN \/ /\ NothingToSell \/ (renews /\ Renewed = {})
             /\ Turn(Show(c, "MAIN"))
          \/ /\ ~NothingToSell /\ renews
             /\ \E p \in Renewed :
                  Turn(Show([c EXCEPT !.plan = Dump(p), !.onlyPlan = TRUE], "DURATION"))
          \/ /\ ~NothingToSell /\ ~renews /\ Cardinality(Open) = 1
             /\ \E p \in Open : Single(t, [c EXCEPT !.plan = Dump(p), !.onlyPlan = TRUE])
          \/ /\ ~NothingToSell /\ ~renews /\ Cardinality(Open) > 1
             /\ Turn(Show([c EXCEPT !.onlyPlan = FALSE, !.onlyTerm = FALSE], "PLANS"))
    /\ recent' = {}

\* A single gateway is chosen for the user, and when nothing is to be paid the first in
\* the operators' order, which fails if there is none.
TakeTerm(t, c) ==
    \/ /\ ~gift /\ Cardinality(gateways) # 1
       /\ Turn(Show([c EXCEPT !.method = None, !.pay = None], "PAYMENT_METHOD"))
    \/ /\ gift \/ Cardinality(gateways) = 1
       /\ \E g \in gateways : Pay(t, c, g)
    \/ gift /\ gateways = {} /\ Fail /\ UNCHANGED <<tap, refusals>>

\* Mutation of Picked: the dialog keeps the payments of the plan chosen before.
PickedBefore(p) == [dialog EXCEPT !.plan = Dump(p), !.term = None, !.method = None, !.pay = None]

Picked(p) == [Anew(dialog) EXCEPT !.plan = Dump(p), !.method = None, !.pay = None]

\* on_plan_select: the plan as it is by now, closed or not; if it was deleted the dialog
\* starts again.
ChoosePlan(t, p) ==
    /\ On({"PLANS", "PLAN"}) /\ p \in Plans /\ Offers(p)
    /\ \/ catalogue[p] = None /\ Turn(Show(Fresh, "MAIN"))
       \/ /\ catalogue[p] # None /\ Cardinality(catalogue[p].terms) = 1
          /\ \E m \in catalogue[p].terms :
                TakeTerm(t, [Picked(p) EXCEPT !.term = m, !.onlyTerm = TRUE])
       \/ /\ catalogue[p] # None /\ Cardinality(catalogue[p].terms) > 1
          /\ Turn(Show([Picked(p) EXCEPT !.onlyTerm = FALSE], "DURATION"))
    /\ recent' = {}

\* on_duration_select
ChooseTerm(t, m) ==
    /\ On({"DURATION"}) /\ m \in Terms /\ Offers(m)
    /\ TakeTerm(t, [dialog EXCEPT !.term = m])
    /\ UNCHANGED recent

\* on_payment_method_select
ChooseGateway(t, g) ==
    /\ On({"PAYMENT_METHOD"}) /\ Offers(g)
    /\ Pay(t, dialog, g)
    /\ UNCHANGED recent

\* on_platega_method_select
ChooseMethod(t, m) ==
    /\ On({"PLATEGA_METHOD"}) /\ m \in Methods /\ Offers(m)
    /\ Checkout(t, [dialog EXCEPT !.pick = m], "PLATEGA", "PLATEGA_METHOD")
    /\ UNCHANGED recent

\* The buttons back; on_back_to_gateways and on_change_platega_method clear the payment.
Back ==
    /\ \/ Offers("main") /\ Turn(Show(dialog, "MAIN"))
       \/ Offers("plans") /\ Turn(Show(dialog, "PLANS"))
       \/ Offers("terms") /\ Turn(Show(dialog, "DURATION"))
       \/ Offers("gateways") /\ Turn(Show([dialog EXCEPT !.pay = None], "PAYMENT_METHOD"))
       \/ /\ Offers("methods")
          /\ Turn(Show([dialog EXCEPT !.pay = None, !.pick = None], "PLATEGA_METHOD"))
    /\ UNCHANGED recent

-----------------------------------------------------------------------------
(* Meanwhile.                                                               *)

Change ==
    /\ changes < MaxChanges /\ changes' = changes + 1
    /\ UNCHANGED <<dialog, visits, tap, orders, clash, refusals>>

\* The draft of an operator is written whole.
CommitPlan ==
    /\ \E p \in Plans, open \in BOOLEAN, terms \in Drafts :
        /\ catalogue[p] # None
        /\ catalogue' = [catalogue EXCEPT ![p] = [open |-> open, terms |-> terms,
                                                  version |-> @.version + 1]]
    /\ UNCHANGED <<gateways, sub, gift>> /\ Change

ToggleUserPlanAccess ==
    /\ \E p \in Plans :
        catalogue[p] # None /\ catalogue' = [catalogue EXCEPT ![p].open = ~@]
    /\ UNCHANGED <<gateways, sub, gift>> /\ Change

DeletePlan ==
    /\ \E p \in Plans : catalogue[p] # None /\ catalogue' = [catalogue EXCEPT ![p] = None]
    /\ UNCHANGED <<gateways, sub, gift>> /\ Change

TogglePaymentGatewayActive ==
    /\ \E g \in Gateways :
        gateways' = IF g \in gateways THEN gateways \ {g} ELSE gateways \cup {g}
    /\ UNCHANGED <<catalogue, sub, gift>> /\ Change

\* The subscription is bought, changed or lost elsewhere; a discount comes or is spent.
Elsewhere ==
    /\ \/ /\ sub' \in {None} \cup {Snapshot(p) : p \in {q \in Plans : catalogue[q] # None}}
          /\ sub' # sub /\ UNCHANGED gift
       \/ gift' = ~gift /\ UNCHANGED sub
    /\ UNCHANGED shop /\ Change

Next ==
    \/ Start \/ Back
    \/ \E t \in Taps :
        \/ \E type \in {"NEW", "RENEW", "CHANGE"} : ChooseType(t, type)
        \/ \E p \in Plans : ChoosePlan(t, p)
        \/ \E m \in Terms : ChooseTerm(t, m)
        \/ \E g \in Gateways : ChooseGateway(t, g)
        \/ \E m \in Methods : ChooseMethod(t, m)
        \/ Created(t) \/ Refused(t)
    \/ CommitPlan \/ ToggleUserPlanAccess \/ DeletePlan \/ TogglePaymentGatewayActive
    \/ Elsewhere

Spec == Init /\ [][Next]_vars

-----------------------------------------------------------------------------
(* Properties.                                                              *)

Rows  == [open : BOOLEAN, version : 0 .. MaxChanges, terms : SUBSET Terms]
Dumps == [id : Plans \cup {Trial}, version : 0 .. MaxChanges, terms : SUBSET Terms]

TypeOK ==
    /\ catalogue \in [Plans -> Rows \cup {None}] /\ gateways \subseteq Gateways
    /\ sub \in [id : Plans, version : 0 .. MaxChanges] \cup {None} /\ gift \in BOOLEAN
    /\ changes \in 0 .. MaxChanges
    /\ visits \in 0 .. MaxVisits /\ refusals \in 0 .. MaxRefusals
    /\ recent \subseteq invoices /\ Cardinality(invoices) <= MaxInvoices
    /\ \A i \in invoices : i.plan \in Dumps /\ i.term \in i.plan.terms
                           /\ i.type \in {"NEW", "RENEW", "CHANGE"} /\ i.gateway \in Gateways
    /\ On({"PAYMENT_METHOD", "PLATEGA_METHOD"}) =>
          dialog.plan \in Dumps /\ dialog.term \in dialog.plan.terms

Choice(i) == <<i.type, i.plan, i.term, i.gateway, i.pick>>

\* "The button to pay is shown only while payment_url is set for the current
\* selection": the invoice that can be paid, or taken for nothing, is of the plan as the
\* dialog shows it, the term, the gateway and the purpose chosen, whatever payments are
\* cached, taps overlap and plans are edited.  Excused is a transaction taken over by a
\* purchase without payment, and one that on_subscription_plans left in the dialog.
PaysForTheChoice ==
    On({"PAYMENT_METHOD", "PLATEGA_METHOD"}) /\ dialog.pay # None =>
        \/ dialog.pay.kept \/ dialog.pay.reused
        \/ Choice(dialog.pay.invoice) =
              <<dialog.type, dialog.plan, dialog.term, dialog.method, dialog.pick>>

\* A choice made again shows the invoice issued for it: no two invoices are for one
\* choice, unless taps overlapped or on_subscription_plans, which caches nothing,
\* created one of them.
OneInvoicePerChoice ==
    ~clash => \A i, j \in recent :
                i.cached /\ j.cached /\ Choice(i) = Choice(j) => i = j

\* A renewal is of the plan the user had when the purpose was chosen, also when it was
\* modified since; only who lost the subscription while the first screen was
\* shown may choose any plan to renew (_resolve_renew_plan).
RenewsItsPlan ==
    \A i \in invoices : i.type = "RENEW" => i.own \in {None, i.plan.id}

\* What TLC checks of the above.
InvoicesAreSound == TypeOK /\ OneInvoicePerChoice /\ RenewsItsPlan

=============================================================================
