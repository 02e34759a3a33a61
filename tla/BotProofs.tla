------------------------------- MODULE BotProofs -------------------------------
(***************************************************************************)
(* Theorems of what the bot itself does with Telegram: of Checkout, for    *)
(* any catalogue, taps, methods, edits, visits and refusals of a gateway,  *)
(* and of Broadcast, for any users, workers, batches, deliveries, deletions *)
(* and faults.  The two share no state; each has its own specification.    *)
(***************************************************************************)
EXTENDS Checkout, Broadcast, FiniteSetTheorems, TLAPS

-----------------------------------------------------------------------------
(*                                Checkout                                  *)

(***************************************************************************)
(* The inductive invariant: what a dialog may hold on each screen and what *)
(* its cache says, of the dialog shown as of those loaded by taps that wait *)
(* for a gateway; how many invoices may come; and, while no taps overlap,  *)
(* that the cache holds every invoice issued for the choices of the visit. *)
(***************************************************************************)

Types   == {"NEW", "RENEW", "CHANGE"}
PayScreens == {"PAYMENT_METHOD", "PLATEGA_METHOD"}
Screens == {"MAIN", "PLANS", "PLAN", "DURATION"} \cup PayScreens
Items   == Buttons \cup Types \cup Plans \cup Terms \cup Gateways \cup Methods

Invoices ==
    [n : Nat, type : Types, own : Plans \cup {None}, plan : Dumps, term : Terms,
     gateway : Gateways, pick : Methods \cup {None}, free : BOOLEAN, cached : BOOLEAN]

Payments == [invoice : Invoices, url : BOOLEAN, kept : BOOLEAN, reused : BOOLEAN]

Keys ==
    [type : Types, term : Terms, gateway : Gateways, pick : Methods \cup {None}]

Dialogs ==
    [screen : Screens, shown : SUBSET Items, type : Types \cup {None},
     own : Plans \cup {None}, plan : Dumps \cup {None}, term : Terms \cup {None},
     method : Gateways \cup {None}, pick : Methods \cup {None}, onlyPlan : BOOLEAN,
     onlyTerm : BOOLEAN, cache : SUBSET [key : Keys, pay : Payments],
     pay : Payments \cup {None}]

TapStates ==
    [pc : {"idle", "paying"}, visit : Nat, then : Dialogs \cup {None},
     gateway : Gateways \cup {None}, cached : BOOLEAN, free : BOOLEAN]

TypeInv ==
    /\ catalogue \in [Plans -> Rows \cup {None}] /\ gateways \subseteq Gateways
    /\ sub \in [id : Plans, version : 0 .. MaxChanges] \cup {None} /\ gift \in BOOLEAN
    /\ changes \in 0 .. MaxChanges /\ visits \in 0 .. MaxVisits /\ refusals \in 0 .. MaxRefusals
    /\ \A p \in Plans : catalogue[p] # None => catalogue[p].version <= changes
    /\ dialog \in Dialogs \cup {None} /\ tap \in [Taps -> TapStates]
    /\ invoices \subseteq Invoices /\ recent \subseteq invoices /\ clash \in BOOLEAN

\* What a payment of the cache was created for.
Matches(e, plan) ==
    /\ ~e.pay.kept
    /\ \/ e.pay.reused
       \/ Choice(e.pay.invoice) = <<e.key.type, plan, e.key.term, e.key.gateway, e.key.pick>>

\* What a dialog holds on a screen.
BasedOn(c, s) ==
    /\ s # "MAIN" => c.type \in Types
    /\ s \in {"DURATION"} \cup PayScreens =>
          /\ c.plan \in Dumps
          /\ c.type = "RENEW" => c.own \in {None, c.plan.id} /\ (c.own = None \/ c.onlyPlan)
    /\ s \in PayScreens => c.term \in c.plan.terms
    /\ s = "PLATEGA_METHOD" => c.method = "PLATEGA"
    /\ s = "PLANS" /\ c.type = "RENEW" => c.own = None
    /\ \A e \in c.cache : Matches(e, c.plan)

\* What its screen shows.
Offered(c) ==
    /\ "plans" \in c.shown => c.screen \in {"DURATION", "PAYMENT_METHOD"} /\ ~c.onlyPlan
    /\ "terms" \in c.shown => c.screen \in PayScreens
    /\ "gateways" \in c.shown \/ "methods" \in c.shown => c.screen = "PLATEGA_METHOD"
    /\ c.screen = "DURATION" => c.shown \cap Terms \subseteq c.plan.terms
    /\ c.screen = "PLAN" /\ c.type = "RENEW" => c.shown = {c.own} /\ c.onlyPlan

\* The payment on it is of the choice it shows.
PaidOn(c, s) ==
    s \in PayScreens /\ c.pay # None =>
        \/ c.pay.kept \/ c.pay.reused
        \/ Choice(c.pay.invoice) = <<c.type, c.plan, c.term, c.method, c.pick>>

Sound(c) == BasedOn(c, c.screen) /\ PaidOn(c, c.screen) /\ Offered(c)

DialogInv == dialog # None => Sound(dialog)

\* A payment may be asked for.
Payable(c, g) ==
    /\ BasedOn(c, c.screen) /\ c.screen \in PayScreens /\ c.method = g
    /\ g # "PLATEGA" => c.pick = None

TapInv ==
    \A t \in Busy :
        LET c == tap[t].then IN
        /\ c \in Dialogs /\ tap[t].gateway \in Gateways /\ Payable(c, tap[t].gateway)
        /\ tap[t].visit <= visits

InvoiceInv ==
    /\ \A i \in invoices : i.term \in i.plan.terms
                           /\ (i.type = "RENEW" => i.own \in {None, i.plan.id})
    /\ IsFiniteSet(invoices) /\ IsFiniteSet(Busy)
    /\ Cardinality(invoices) + Cardinality(Busy) <= MaxInvoices

\* An invoice of this visit is found again in a cache.
Found(i, cache) ==
    \E e \in cache :
        e.key = [type |-> i.type, term |-> i.term, gateway |-> i.gateway, pick |-> i.pick]

Here(t) == t \in Busy /\ tap[t].visit = visits

OnceInv ==
    ~clash =>
        /\ dialog # None => \A i \in recent : i.cached => Found(i, dialog.cache)
        /\ \A t \in Taps : Here(t) =>
              /\ \A i \in recent : i.cached => Found(i, tap[t].then.cache)
              /\ tap[t].cached => Cached(tap[t].then, tap[t].gateway) = {}
        /\ \A s, t \in Taps : Here(s) /\ Here(t) => s = t
        /\ \A i, j \in recent : i.cached /\ j.cached /\ Choice(i) = Choice(j) => i = j

IInv == TypeInv /\ DialogInv /\ TapInv /\ InvoiceInv /\ OnceInv

-----------------------------------------------------------------------------
(* What a screen shows.                                                     *)

LEMMA Names ==
    /\ "main" \notin Plans \cup Terms \cup Methods
    /\ "plans" \notin Plans \cup Terms \cup Methods \cup Gateways
    /\ "terms" \notin Plans \cup Terms \cup Methods \cup Gateways
    /\ "gateways" \notin Plans \cup Terms \cup Methods \cup Gateways
    /\ "methods" \notin Plans \cup Terms \cup Methods \cup Gateways
BY CheckoutAssumption DEF Buttons, Gateways

\* A screen drawn for what a dialog holds is sound.
LEMMA Shown ==
    ASSUME TypeInv, NEW c \in Dialogs, NEW s \in Screens \ {"PLAN"}, BasedOn(c, s), PaidOn(c, s)
    PROVE  /\ Show(c, s) \in Dialogs /\ Sound(Show(c, s)) /\ Show(c, s).cache = c.cache
           /\ Show(c, s).screen = s
<1>1. gateways \subseteq Gateways /\ Open \subseteq Plans
  BY DEF TypeInv, Open
<1>2. ASSUME NEW v \in SUBSET Items, Show(c, s) = [c EXCEPT !.screen = s, !.shown = v],
             "plans" \in v => s \in {"DURATION", "PAYMENT_METHOD"} /\ ~c.onlyPlan,
             "terms" \in v => s \in PayScreens,
             "gateways" \in v \/ "methods" \in v => s = "PLATEGA_METHOD",
             s = "DURATION" => v \cap Terms \subseteq c.plan.terms
      PROVE  /\ Show(c, s) \in Dialogs /\ Sound(Show(c, s)) /\ Show(c, s).cache = c.cache
             /\ Show(c, s).screen = s
  <2> DEFINE d == Show(c, s)
  <2>1. /\ d \in Dialogs /\ d.screen = s /\ d.shown = v /\ d.type = c.type /\ d.own = c.own
        /\ d.plan = c.plan /\ d.term = c.term /\ d.method = c.method /\ d.pick = c.pick
        /\ d.onlyPlan = c.onlyPlan /\ d.cache = c.cache /\ d.pay = c.pay
    <3>1. d = [c EXCEPT !.screen = s, !.shown = v] /\ s \in Screens
      BY <1>2
    <3> HIDE DEF d
    <3> QED BY <3>1 DEF Dialogs
  <2> HIDE DEF d
  <2>2. BasedOn(d, s)
    BY <2>1 DEF BasedOn
  <2>3. PaidOn(d, s)
    BY <2>1 DEF PaidOn
  <2>4. Offered(d)
    BY <1>2, <2>1 DEF Offered
  <2> QED BY <2>1, <2>2, <2>3, <2>4 DEF d, Sound
<1>3. CASE s = "MAIN"
  <2>1. Show(c, s) = [c EXCEPT !.screen = s, !.shown = MainOffers]
    BY <1>3 DEF Show
  <2>2. MainOffers \in SUBSET Items
    BY DEF MainOffers, Items, Types, Buttons
  <2>3. /\ "plans" \notin MainOffers /\ "terms" \notin MainOffers
        /\ "gateways" \notin MainOffers /\ "methods" \notin MainOffers
    BY DEF MainOffers
  <2> QED BY <1>2, <1>3, <2>1, <2>2, <2>3
<1>4. CASE s = "PLANS"
  <2>1. Show(c, s) = [c EXCEPT !.screen = s, !.shown = PlansOffers]
    BY <1>4 DEF Show
  <2>2. PlansOffers \in SUBSET Items
    BY <1>1 DEF PlansOffers, Items, Buttons
  <2>3. /\ "plans" \notin PlansOffers /\ "terms" \notin PlansOffers
        /\ "gateways" \notin PlansOffers /\ "methods" \notin PlansOffers
    BY <1>1, Names DEF PlansOffers
  <2> QED BY <1>2, <1>4, <2>1, <2>2, <2>3
<1>5. CASE s = "DURATION"
  <2> DEFINE v == c.plan.terms \cup ToPlans(c)
  <2>1. Show(c, s) = [c EXCEPT !.screen = s, !.shown = v]
    BY <1>5 DEF Show
  <2>2. c.plan.terms \subseteq Terms
    BY <1>5 DEF BasedOn, Dumps
  <2>3. ToPlans(c) \subseteq {"plans"} /\ ("plans" \in ToPlans(c) => ~c.onlyPlan)
    BY DEF ToPlans
  <2>4. v \in SUBSET Items
    BY <2>2, <2>3 DEF Items, Buttons
  <2>5. /\ "plans" \in v => ~c.onlyPlan
        /\ "terms" \notin v /\ "gateways" \notin v /\ "methods" \notin v
        /\ v \cap Terms \subseteq c.plan.terms
    BY <2>2, <2>3, Names
  <2> HIDE DEF v
  <2> QED BY <1>2, <1>5, <2>1, <2>4, <2>5
<1>6. CASE s = "PAYMENT_METHOD"
  <2>1. Show(c, s) = [c EXCEPT !.screen = s, !.shown = MethodOffers(c)]
    BY <1>6 DEF Show
  <2>2. /\ ToPlans(c) \subseteq {"plans"} /\ ("plans" \in ToPlans(c) => ~c.onlyPlan)
        /\ ToTerms(c) \subseteq {"terms"}
    BY DEF ToPlans, ToTerms
  <2>3. MethodOffers(c) \subseteq ToPlans(c) \cup ToTerms(c) \cup Gateways
    BY <1>1 DEF MethodOffers
  <2>4. MethodOffers(c) \in SUBSET Items
    BY <2>2, <2>3 DEF Items, Buttons
  <2>5. /\ "plans" \in MethodOffers(c) => ~c.onlyPlan
        /\ "gateways" \notin MethodOffers(c) /\ "methods" \notin MethodOffers(c)
    BY <2>2, <2>3, Names
  <2> QED BY <1>2, <1>6, <2>1, <2>4, <2>5 DEF PayScreens
<1>7. CASE s = "PLATEGA_METHOD"
  <2>1. Show(c, s) = [c EXCEPT !.screen = s, !.shown = PlategaOffers(c)]
    BY <1>7 DEF Show
  <2>2. PlategaOffers(c) \subseteq Methods \cup {"terms", "gateways", "methods"}
    BY DEF PlategaOffers, ToTerms
  <2>3. PlategaOffers(c) \in SUBSET Items
    BY <2>2 DEF Items, Buttons
  <2>4. "plans" \notin PlategaOffers(c)
    BY <2>2, Names
  <2> QED BY <1>2, <1>7, <2>1, <2>3, <2>4 DEF PayScreens
<1> QED BY <1>3, <1>4, <1>5, <1>6, <1>7 DEF Screens, PayScreens

-----------------------------------------------------------------------------
(* What a tap does: another screen, an error, or a payment asked for; the   *)
(* dialog keeps a cache K meanwhile.                                        *)

Turns(K) ==
    \E c \in Dialogs, s \in Screens \ {"PLAN"} :
        BasedOn(c, s) /\ PaidOn(c, s) /\ c.cache = K /\ Turn(Show(c, s))

Fails == Fail /\ UNCHANGED tap /\ UNCHANGED refusals

Asks(t, c, g, h) ==
    /\ tap[t].pc = "idle"
    /\ Cardinality(invoices) + Cardinality(Busy) < MaxInvoices
    /\ tap' = [tap EXCEPT ![t] = [pc |-> "paying", visit |-> visits, then |-> c,
                                  gateway |-> g, cached |-> h, free |-> Free(c)]]
    /\ clash' = (clash \/ InFlight)
    /\ UNCHANGED <<shop, account, dialog, visits, invoices, refusals>>

AsksFor(t, K) ==
    \E c \in Dialogs, g \in Gateways, h \in BOOLEAN :
        /\ Payable(c, g) /\ c.cache = K /\ (h => Cached(c, g) = {}) /\ Asks(t, c, g, h)

Outcome(t, K) == Turns(K) \/ Fails \/ AsksFor(t, K)

LEMMA TurnsOut ==
    ASSUME NEW c \in Dialogs, NEW s \in Screens \ {"PLAN"}, BasedOn(c, s), PaidOn(c, s),
           Turn(Show(c, s))
    PROVE  Turns(c.cache)
BY DEF Turns

LEMMA TurnOut ==
    ASSUME NEW t, NEW c \in Dialogs, NEW s \in Screens \ {"PLAN"}, BasedOn(c, s), PaidOn(c, s),
           Turn(Show(c, s))
    PROVE  Outcome(t, c.cache)
BY DEF Outcome, Turns

LEMMA AskOut ==
    ASSUME NEW t, NEW c \in Dialogs, NEW g \in Gateways, NEW h \in BOOLEAN, Payable(c, g),
           h => Cached(c, g) = {}, Ask(t, c, g, h)
    PROVE  Outcome(t, c.cache)
<1>1. CASE g \notin gateways
  BY <1>1 DEF Ask, Outcome, Fails
<1>2. CASE g \in gateways
  <2>1. Asks(t, c, g, h)
    BY <1>2 DEF Ask, Asks
  <2> QED BY <2>1 DEF Outcome, AsksFor
<1> QED BY <1>1, <1>2

\* A payment found again in the cache is the one for the choice made.
LEMMA CheckoutOut ==
    ASSUME NEW t, NEW c \in Dialogs, NEW g \in Gateways, NEW s \in PayScreens, BasedOn(c, s),
           c.method = g, g # "PLATEGA" => c.pick = None, Checkout(t, c, g, s)
    PROVE  Outcome(t, c.cache)
<1>1. CASE /\ Cached(c, g) # {}
           /\ \E e \in Cached(c, g) : Turn(Show([c EXCEPT !.pay = e.pay], s))
  <2>1. PICK e \in Cached(c, g) : Turn(Show([c EXCEPT !.pay = e.pay], s))
    BY <1>1
  <2>2. e \in c.cache /\ e.key = Key(c, g) /\ e \in [key : Keys, pay : Payments]
    BY <2>1 DEF Cached, Dialogs
  <2> DEFINE d == [c EXCEPT !.pay = e.pay]
  <2>3. /\ d \in Dialogs /\ d.pay = e.pay /\ d.type = c.type /\ d.own = c.own
        /\ d.plan = c.plan /\ d.term = c.term /\ d.method = c.method /\ d.pick = c.pick
        /\ d.onlyPlan = c.onlyPlan /\ d.cache = c.cache
    BY <2>2 DEF Dialogs
  <2>4. Turn(Show(d, s))
    BY <2>1
  <2> HIDE DEF d
  <2>5. BasedOn(d, s)
    BY <2>3 DEF BasedOn
  <2>6. /\ e.key.type = c.type /\ e.key.term = c.term /\ e.key.gateway = g
        /\ e.key.pick = c.pick
    BY <2>2 DEF Key
  <2>7. Matches(e, c.plan)
    BY <2>2 DEF BasedOn
  <2>8. PaidOn(d, s)
    BY <2>3, <2>6, <2>7 DEF PaidOn, Matches
  <2>9. s \in Screens \ {"PLAN"}
    BY DEF Screens, PayScreens
  <2> QED BY <2>3, <2>4, <2>5, <2>8, <2>9, TurnOut
<1>2. CASE Cached(c, g) = {} /\ Ask(t, [c EXCEPT !.screen = s], g, TRUE)
  <2> DEFINE d == [c EXCEPT !.screen = s]
  <2>1. /\ d \in Dialogs /\ d.screen = s /\ d.type = c.type /\ d.own = c.own
        /\ d.plan = c.plan /\ d.term = c.term /\ d.method = c.method /\ d.pick = c.pick
        /\ d.onlyPlan = c.onlyPlan /\ d.cache = c.cache
    BY DEF Dialogs, Screens
  <2>2. Ask(t, d, g, TRUE)
    BY <1>2
  <2> HIDE DEF d
  <2>3. Payable(d, g)
    BY <2>1 DEF Payable, BasedOn
  <2>4. Cached(d, g) = Cached(c, g)
    BY <2>1 DEF Cached, Key
  <2> QED BY <1>2, <2>1, <2>2, <2>3, <2>4, AskOut
<1> QED BY <1>1, <1>2 DEF Checkout

LEMMA RouteOut ==
    ASSUME NEW t, NEW c \in Dialogs, BasedOn(c, "PAYMENT_METHOD"), Route(c)
    PROVE  Outcome(t, c.cache)
<1> DEFINE d == [c EXCEPT !.method = "PLATEGA", !.pay = None]
<1>1. /\ d \in Dialogs /\ d.pay = None /\ d.method = "PLATEGA" /\ d.type = c.type
      /\ d.own = c.own /\ d.plan = c.plan /\ d.term = c.term
      /\ d.onlyPlan = c.onlyPlan /\ d.cache = c.cache
  BY DEF Dialogs, Gateways
<1>2. Turn(Show(d, "PLATEGA_METHOD"))
  BY DEF Route
<1> HIDE DEF d
<1>3. BasedOn(d, "PLATEGA_METHOD")
  BY <1>1 DEF BasedOn, PayScreens
<1>4. PaidOn(d, "PLATEGA_METHOD")
  BY <1>1 DEF PaidOn
<1> QED BY <1>1, <1>2, <1>3, <1>4, TurnOut DEF Screens, PayScreens

LEMMA PayOut ==
    ASSUME NEW t, NEW c \in Dialogs, NEW g \in Gateways, BasedOn(c, "PAYMENT_METHOD"),
           Pay(t, c, g)
    PROVE  Outcome(t, c.cache)
<1>1. CASE Route(c)
  BY <1>1, RouteOut
<1>2. CASE Checkout(t, [c EXCEPT !.method = g, !.pick = None], g, "PAYMENT_METHOD")
  <2> DEFINE d == [c EXCEPT !.method = g, !.pick = None]
  <2>1. /\ d \in Dialogs /\ d.method = g /\ d.pick = None /\ d.type = c.type
        /\ d.own = c.own /\ d.plan = c.plan /\ d.term = c.term
        /\ d.onlyPlan = c.onlyPlan /\ d.cache = c.cache
    BY DEF Dialogs
  <2>2. Checkout(t, d, g, "PAYMENT_METHOD")
    BY <1>2
  <2> HIDE DEF d
  <2>3. BasedOn(d, "PAYMENT_METHOD")
    BY <2>1 DEF BasedOn
  <2>4. "PAYMENT_METHOD" \in PayScreens
    BY DEF PayScreens
  <2> QED BY <2>1, <2>2, <2>3, <2>4, CheckoutOut
<1> QED BY <1>1, <1>2, Zenon DEF Pay

LEMMA CollapsedOut ==
    ASSUME TypeInv, NEW t, NEW c \in Dialogs, BasedOn(c, "PAYMENT_METHOD"), Collapsed(t, c)
    PROVE  Outcome(t, c.cache)
<1>1. CASE Route(c)
  BY <1>1, RouteOut
<1>2. ASSUME NEW g \in gateways,
             Ask(t, [c EXCEPT !.method = g, !.pick = None, !.screen = "PAYMENT_METHOD"], g, FALSE)
      PROVE  Outcome(t, c.cache)
  <2> DEFINE d == [c EXCEPT !.method = g, !.pick = None, !.screen = "PAYMENT_METHOD"]
  <2>1. g \in Gateways
    BY DEF TypeInv
  <2>2. /\ d \in Dialogs /\ d.method = g /\ d.pick = None /\ d.type = c.type
        /\ d.own = c.own /\ d.plan = c.plan /\ d.term = c.term
        /\ d.onlyPlan = c.onlyPlan /\ d.cache = c.cache /\ d.screen = "PAYMENT_METHOD"
    BY <2>1 DEF Dialogs, Screens, PayScreens
  <2>3. Ask(t, d, g, FALSE)
    BY <1>2
  <2> HIDE DEF d
  <2>4. Payable(d, g)
    BY <2>2 DEF Payable, BasedOn, PayScreens
  <2> QED BY <2>1, <2>2, <2>3, <2>4, AskOut
<1>3. CASE Turn(Show([c EXCEPT !.pay = IF @ = None THEN @ ELSE [@ EXCEPT !.kept = TRUE]],
                     "PAYMENT_METHOD"))
  <2> DEFINE p == IF c.pay = None THEN c.pay ELSE [c.pay EXCEPT !.kept = TRUE]
             d == [c EXCEPT !.pay = p]
  <2>1. Turn(Show(d, "PAYMENT_METHOD"))
    BY <1>3
  <2>2. c.pay \in Payments \cup {None}
    BY DEF Dialogs
  <2>3. p \in Payments \cup {None} /\ (p # None => p.kept)
    <3>1. CASE c.pay = None
      BY <3>1
    <3>2. CASE c.pay # None
      BY <2>2, <3>2 DEF Payments
    <3> QED BY <3>1, <3>2
  <2> HIDE DEF p
  <2>4. /\ d \in Dialogs /\ d.pay = p /\ d.type = c.type /\ d.own = c.own
        /\ d.plan = c.plan /\ d.term = c.term /\ d.method = c.method
        /\ d.onlyPlan = c.onlyPlan /\ d.cache = c.cache
    BY <2>3 DEF Dialogs
  <2> HIDE DEF d
  <2>5. BasedOn(d, "PAYMENT_METHOD")
    BY <2>4 DEF BasedOn
  <2>6. PaidOn(d, "PAYMENT_METHOD")
    BY <2>3, <2>4 DEF PaidOn
  <2> QED BY <2>1, <2>4, <2>5, <2>6, TurnOut DEF Screens, PayScreens
<1> QED BY <1>1, <1>2, <1>3, Zenon DEF Collapsed

LEMMA TakeTermOut ==
    ASSUME TypeInv, NEW t, NEW c \in Dialogs, BasedOn(c, "PAYMENT_METHOD"), TakeTerm(t, c)
    PROVE  Outcome(t, c.cache)
<1>1. CASE Turn(Show([c EXCEPT !.method = None, !.pay = None], "PAYMENT_METHOD"))
  <2> DEFINE d == [c EXCEPT !.method = None, !.pay = None]
  <2>1. /\ d \in Dialogs /\ d.pay = None /\ d.type = c.type
        /\ d.own = c.own /\ d.plan = c.plan /\ d.term = c.term
        /\ d.onlyPlan = c.onlyPlan /\ d.cache = c.cache
    BY DEF Dialogs
  <2>2. Turn(Show(d, "PAYMENT_METHOD"))
    BY <1>1
  <2> HIDE DEF d
  <2>3. BasedOn(d, "PAYMENT_METHOD")
    BY <2>1 DEF BasedOn
  <2>4. PaidOn(d, "PAYMENT_METHOD")
    BY <2>1 DEF PaidOn
  <2> QED BY <2>1, <2>2, <2>3, <2>4, TurnOut DEF Screens, PayScreens
<1>2. ASSUME NEW g \in gateways, Pay(t, c, g) PROVE Outcome(t, c.cache)
  BY <1>2, PayOut DEF TypeInv
<1>3. CASE Fail /\ UNCHANGED <<tap, refusals>>
  BY <1>3 DEF Outcome, Fails
<1> QED BY <1>1, <1>2, <1>3, Zenon DEF TakeTerm

-----------------------------------------------------------------------------
(* The handlers.                                                            *)

LEMMA Dumped ==
    ASSUME TypeInv, NEW p \in Plans, catalogue[p] # None
    PROVE  Dump(p) \in Dumps /\ Dump(p).id = p /\ Dump(p).terms = catalogue[p].terms
<1>1. catalogue[p] \in Rows
  BY DEF TypeInv
<1> QED BY <1>1 DEF Rows, Dumps, Dump

LEMMA FreshSound ==
    /\ Fresh \in Dialogs /\ Fresh.cache = {} /\ Fresh.type = None /\ Fresh.pay = None
    /\ BasedOn(Fresh, "MAIN") /\ PaidOn(Fresh, "MAIN")
<1>1. Fresh \in Dialogs /\ Fresh.cache = {} /\ Fresh.type = None /\ Fresh.pay = None
  BY DEF Fresh, Dialogs, Screens
<1> QED BY <1>1 DEF BasedOn, PaidOn, PayScreens

LEMMA SingleOut ==
    ASSUME TypeInv, NEW t, NEW c \in Dialogs, BasedOn(c, "DURATION"), Single(t, c)
    PROVE  Outcome(t, c.cache)
<1>1. CASE Turn(Show(c, "DURATION"))
  <2>1. PaidOn(c, "DURATION")
    BY DEF PaidOn, PayScreens
  <2> QED BY <1>1, <2>1, TurnOut DEF Screens
<1>2. ASSUME NEW m \in c.plan.terms, Collapsed(t, [c EXCEPT !.term = m, !.onlyTerm = TRUE])
      PROVE  Outcome(t, c.cache)
  <2> DEFINE d == [c EXCEPT !.term = m, !.onlyTerm = TRUE]
  <2>1. c.plan \in Dumps /\ m \in Terms
    BY <1>2 DEF BasedOn, Dumps
  <2>2. /\ d \in Dialogs /\ d.term = m /\ d.type = c.type /\ d.own = c.own
        /\ d.plan = c.plan /\ d.onlyPlan = c.onlyPlan /\ d.cache = c.cache
    BY <2>1 DEF Dialogs
  <2>3. Collapsed(t, d)
    BY <1>2
  <2> HIDE DEF d
  <2>4. BasedOn(d, "PAYMENT_METHOD")
    BY <1>2, <2>1, <2>2 DEF BasedOn
  <2> QED BY <2>2, <2>3, <2>4, CollapsedOut
<1> QED BY <1>1, <1>2, Zenon DEF Single

\* What a handler makes of the dialog and of the invoices of the visit.
Handled(t) ==
    /\ dialog # None
    /\ \/ Outcome(t, dialog.cache) /\ UNCHANGED recent
       \/ Outcome(t, {}) /\ recent' = {}

LEMMA ChooseTypeOut ==
    ASSUME TypeInv, DialogInv, NEW t, NEW type \in Types, ChooseType(t, type)
    PROVE  Handled(t)
<1>1. dialog # None /\ dialog \in Dialogs /\ recent' = {}
  BY DEF ChooseType, On, TypeInv
<1> DEFINE c == [Anew(dialog) EXCEPT !.type = type, !.own = Owned]
           renews == type = "RENEW" /\ sub # None
<1>2. Owned \in Plans \cup {None} /\ (sub # None => Owned = sub.id) /\ (sub = None => Owned = None)
  BY DEF Owned, TypeInv
<1>3. /\ c \in Dialogs /\ c.type = type /\ c.own = Owned /\ c.cache = {}
  BY <1>1, <1>2 DEF Anew, Dialogs
<1>4. \/ Turn(Show(c, "MAIN"))
      \/ /\ renews
         /\ \E p \in Renewed :
              Turn(Show([c EXCEPT !.plan = Dump(p), !.onlyPlan = TRUE], "DURATION"))
      \/ /\ ~renews
         /\ \E p \in Open : Single(t, [c EXCEPT !.plan = Dump(p), !.onlyPlan = TRUE])
      \/ ~renews /\ Turn(Show([c EXCEPT !.onlyPlan = FALSE, !.onlyTerm = FALSE], "PLANS"))
  BY Zenon DEF ChooseType
<1> HIDE DEF c
<1> SUFFICES Outcome(t, {})
  BY <1>1 DEF Handled
<1>5. CASE Turn(Show(c, "MAIN"))
  <2>1. BasedOn(c, "MAIN") /\ PaidOn(c, "MAIN")
    BY <1>3 DEF BasedOn, PaidOn, PayScreens
  <2> QED BY <1>3, <1>5, <2>1, TurnOut DEF Screens
<1>6. ASSUME NEW p \in Open, renews => p = sub.id
      PROVE  LET d == [c EXCEPT !.plan = Dump(p), !.onlyPlan = TRUE]
             IN  d \in Dialogs /\ BasedOn(d, "DURATION") /\ PaidOn(d, "DURATION") /\ d.cache = {}
  <2> DEFINE d == [c EXCEPT !.plan = Dump(p), !.onlyPlan = TRUE]
  <2>1. Dump(p) \in Dumps /\ Dump(p).id = p
    BY Dumped DEF Open
  <2>2. /\ d \in Dialogs /\ d.plan = Dump(p) /\ d.type = type /\ d.own = Owned /\ d.onlyPlan = TRUE
        /\ d.cache = {}
    BY <1>3, <2>1 DEF Dialogs
  <2> HIDE DEF d
  <2>3. BasedOn(d, "DURATION")
    BY <1>2, <1>6, <2>1, <2>2 DEF BasedOn, PayScreens
  <2>4. PaidOn(d, "DURATION")
    BY DEF PaidOn, PayScreens
  <2> QED BY <2>2, <2>3, <2>4 DEF d
<1>7. ASSUME renews, NEW p \in Renewed,
             Turn(Show([c EXCEPT !.plan = Dump(p), !.onlyPlan = TRUE], "DURATION"))
      PROVE  Outcome(t, {})
  <2> DEFINE d == [c EXCEPT !.plan = Dump(p), !.onlyPlan = TRUE]
  <2>1. p \in Open /\ p = sub.id
    BY <1>7 DEF Renewed
  <2>2. d \in Dialogs /\ BasedOn(d, "DURATION") /\ PaidOn(d, "DURATION") /\ d.cache = {}
    BY <1>6, <2>1
  <2>3. Turn(Show(d, "DURATION"))
    BY <1>7
  <2> HIDE DEF d
  <2>4. "DURATION" \in Screens \ {"PLAN"}
    BY DEF Screens
  <2> QED BY <2>2, <2>3, <2>4, TurnOut
<1>8. ASSUME ~renews, NEW p \in Open, Single(t, [c EXCEPT !.plan = Dump(p), !.onlyPlan = TRUE])
      PROVE  Outcome(t, {})
  <2> DEFINE d == [c EXCEPT !.plan = Dump(p), !.onlyPlan = TRUE]
  <2>1. d \in Dialogs /\ BasedOn(d, "DURATION") /\ d.cache = {}
    BY <1>6, <1>8
  <2>2. Single(t, d)
    BY <1>8
  <2> HIDE DEF d
  <2> QED BY <2>1, <2>2, SingleOut
<1>9. CASE ~renews /\ Turn(Show([c EXCEPT !.onlyPlan = FALSE, !.onlyTerm = FALSE], "PLANS"))
  <2> DEFINE d == [c EXCEPT !.onlyPlan = FALSE, !.onlyTerm = FALSE]
  <2>1. d \in Dialogs /\ d.type = type /\ d.own = Owned /\ d.cache = {}
    BY <1>3 DEF Dialogs
  <2>2. Turn(Show(d, "PLANS"))
    BY <1>9
  <2> HIDE DEF d
  <2>3. BasedOn(d, "PLANS") /\ PaidOn(d, "PLANS")
    BY <1>2, <1>9, <2>1 DEF BasedOn, PaidOn, PayScreens
  <2>4. "PLANS" \in Screens \ {"PLAN"}
    BY DEF Screens
  <2> QED BY <2>1, <2>2, <2>3, <2>4, TurnOut
<1> QED BY <1>4, <1>5, <1>7, <1>8, <1>9

LEMMA ChoosePlanOut ==
    ASSUME TypeInv, DialogInv, NEW t, NEW p \in Plans, ChoosePlan(t, p)
    PROVE  Handled(t)
<1>1. /\ dialog # None /\ dialog \in Dialogs /\ recent' = {} /\ p \in dialog.shown
      /\ dialog.screen \in {"PLANS", "PLAN"} /\ Sound(dialog)
  BY DEF ChoosePlan, On, Offers, TypeInv, DialogInv
<1> SUFFICES Outcome(t, {})
  BY <1>1 DEF Handled
<1>2. CASE Turn(Show(Fresh, "MAIN"))
  BY <1>2, FreshSound, TurnOut DEF Screens
<1>3. ASSUME catalogue[p] # None
      PROVE  LET d == Picked(p)
             IN  /\ d \in Dialogs /\ d.plan = Dump(p) /\ d.type \in Types /\ d.cache = {}
                 /\ d.type = "RENEW" => d.own \in {None, p} /\ (d.own = None \/ d.onlyPlan)
  <2> DEFINE d == Picked(p)
  <2>1. Dump(p) \in Dumps
    BY <1>3, Dumped
  <2>2. /\ d \in Dialogs /\ d.plan = Dump(p) /\ d.type = dialog.type /\ d.own = dialog.own
        /\ d.onlyPlan = dialog.onlyPlan /\ d.cache = {}
    BY <1>1, <2>1 DEF Picked, Anew, Dialogs
  <2> HIDE DEF d
  <2>3. dialog.type \in Types
    BY <1>1 DEF Sound, BasedOn
  <2>4. dialog.type = "RENEW" =>
           dialog.own \in {None, p} /\ (dialog.own = None \/ dialog.onlyPlan)
    BY <1>1 DEF Sound, BasedOn, Offered
  <2> QED BY <2>2, <2>3, <2>4 DEF d
<1>4. ASSUME catalogue[p] # None, NEW m \in catalogue[p].terms,
             TakeTerm(t, [Picked(p) EXCEPT !.term = m, !.onlyTerm = TRUE])
      PROVE  Outcome(t, {})
  <2> DEFINE b == Picked(p)
             d == [b EXCEPT !.term = m, !.onlyTerm = TRUE]
  <2>1. TakeTerm(t, d)
    BY <1>4
  <2>2. Dump(p) \in Dumps /\ Dump(p).id = p /\ m \in Dump(p).terms /\ m \in Terms
    BY <1>4, Dumped DEF Dumps
  <2>3. /\ b \in Dialogs /\ b.plan = Dump(p) /\ b.type \in Types /\ b.cache = {}
        /\ b.type = "RENEW" => b.own \in {None, p} /\ (b.own = None \/ b.onlyPlan)
    BY <1>3, <1>4
  <2> HIDE DEF b
  <2>4. /\ d \in Dialogs /\ d.term = m /\ d.plan = b.plan /\ d.type = b.type /\ d.own = b.own
        /\ d.onlyPlan = b.onlyPlan /\ d.cache = b.cache
    BY <2>2, <2>3 DEF Dialogs
  <2> HIDE DEF d
  <2>5. BasedOn(d, "PAYMENT_METHOD")
    BY <2>2, <2>3, <2>4 DEF BasedOn
  <2> QED BY <2>1, <2>3, <2>4, <2>5, TakeTermOut
<1>5. CASE catalogue[p] # None /\ Turn(Show([Picked(p) EXCEPT !.onlyTerm = FALSE], "DURATION"))
  <2> DEFINE b == Picked(p)
             d == [b EXCEPT !.onlyTerm = FALSE]
  <2>1. Turn(Show(d, "DURATION"))
    BY <1>5
  <2>2. Dump(p) \in Dumps /\ Dump(p).id = p
    BY <1>5, Dumped
  <2>3. /\ b \in Dialogs /\ b.plan = Dump(p) /\ b.type \in Types /\ b.cache = {}
        /\ b.type = "RENEW" => b.own \in {None, p} /\ (b.own = None \/ b.onlyPlan)
    BY <1>3, <1>5
  <2> HIDE DEF b
  <2>4. /\ d \in Dialogs /\ d.plan = b.plan /\ d.type = b.type /\ d.own = b.own
        /\ d.onlyPlan = b.onlyPlan /\ d.cache = b.cache
    BY <2>3 DEF Dialogs
  <2> HIDE DEF d
  <2>5. BasedOn(d, "DURATION") /\ PaidOn(d, "DURATION")
    BY <2>2, <2>3, <2>4 DEF BasedOn, PaidOn, PayScreens
  <2>6. "DURATION" \in Screens \ {"PLAN"}
    BY DEF Screens
  <2> QED BY <2>1, <2>3, <2>4, <2>5, <2>6, TurnOut
<1> QED BY <1>2, <1>4, <1>5, Zenon DEF ChoosePlan

LEMMA ChooseTermOut ==
    ASSUME TypeInv, DialogInv, NEW t, NEW m \in Terms, ChooseTerm(t, m)
    PROVE  Handled(t)
<1> DEFINE d == [dialog EXCEPT !.term = m]
<1>1. /\ dialog # None /\ dialog \in Dialogs /\ recent' = recent /\ m \in dialog.shown
      /\ dialog.screen = "DURATION" /\ Sound(dialog) /\ TakeTerm(t, d)
  BY DEF ChooseTerm, On, Offers, TypeInv, DialogInv
<1>2. /\ d \in Dialogs /\ d.term = m /\ d.plan = dialog.plan /\ d.type = dialog.type
      /\ d.own = dialog.own /\ d.onlyPlan = dialog.onlyPlan /\ d.cache = dialog.cache
  BY <1>1 DEF Dialogs
<1> HIDE DEF d
<1>3. BasedOn(dialog, "DURATION") /\ m \in dialog.plan.terms
  BY <1>1 DEF Sound, Offered
<1>4. BasedOn(d, "PAYMENT_METHOD")
  BY <1>2, <1>3 DEF BasedOn
<1> QED BY <1>1, <1>2, <1>4, TakeTermOut DEF Handled

LEMMA ChooseGatewayOut ==
    ASSUME TypeInv, DialogInv, NEW t, NEW g \in Gateways, ChooseGateway(t, g)
    PROVE  Handled(t)
<1>1. /\ dialog # None /\ dialog \in Dialogs /\ recent' = recent
      /\ dialog.screen = "PAYMENT_METHOD" /\ Sound(dialog) /\ Pay(t, dialog, g)
  BY DEF ChooseGateway, On, TypeInv, DialogInv
<1>2. BasedOn(dialog, "PAYMENT_METHOD")
  BY <1>1 DEF Sound
<1> QED BY <1>1, <1>2, PayOut DEF Handled

LEMMA ChooseMethodOut ==
    ASSUME TypeInv, DialogInv, NEW t, NEW m \in Methods, ChooseMethod(t, m)
    PROVE  Handled(t)
<1> DEFINE d == [dialog EXCEPT !.pick = m]
<1>1. /\ dialog # None /\ dialog \in Dialogs /\ recent' = recent
      /\ dialog.screen = "PLATEGA_METHOD" /\ Sound(dialog)
      /\ Checkout(t, d, "PLATEGA", "PLATEGA_METHOD")
  BY DEF ChooseMethod, On, TypeInv, DialogInv
<1>2. /\ d \in Dialogs /\ d.pick = m /\ d.plan = dialog.plan /\ d.type = dialog.type
      /\ d.own = dialog.own /\ d.onlyPlan = dialog.onlyPlan /\ d.cache = dialog.cache
      /\ d.term = dialog.term /\ d.method = dialog.method
  BY <1>1 DEF Dialogs
<1> HIDE DEF d
<1>3. BasedOn(dialog, "PLATEGA_METHOD")
  BY <1>1 DEF Sound
<1>4. BasedOn(d, "PLATEGA_METHOD") /\ d.method = "PLATEGA"
  BY <1>2, <1>3 DEF BasedOn
<1>5. "PLATEGA" \in Gateways /\ "PLATEGA_METHOD" \in PayScreens
  BY DEF Gateways, PayScreens
<1> QED BY <1>1, <1>2, <1>4, <1>5, CheckoutOut DEF Handled

LEMMA BackOut ==
    ASSUME TypeInv, DialogInv, Back
    PROVE  dialog # None /\ Turns(dialog.cache) /\ recent' = recent
<1>1. dialog # None /\ recent' = recent
  BY DEF Back, Offers
<1>2. dialog \in Dialogs /\ Sound(dialog) /\ BasedOn(dialog, dialog.screen)
  BY <1>1 DEF TypeInv, DialogInv, Sound
<1> SUFFICES Turns(dialog.cache)
  BY <1>1
<1>3. CASE Turn(Show(dialog, "MAIN"))
  <2>1. BasedOn(dialog, "MAIN") /\ PaidOn(dialog, "MAIN")
    BY <1>2 DEF BasedOn, PaidOn, PayScreens
  <2> QED BY <1>2, <1>3, <2>1, TurnsOut DEF Screens
<1>4. CASE Offers("plans") /\ Turn(Show(dialog, "PLANS"))
  <2>1. dialog.screen \in {"DURATION", "PAYMENT_METHOD"} /\ ~dialog.onlyPlan
    BY <1>2, <1>4 DEF Offers, Sound, Offered
  <2>2. BasedOn(dialog, "PLANS") /\ PaidOn(dialog, "PLANS")
    BY <1>2, <2>1 DEF BasedOn, PaidOn, PayScreens
  <2> QED BY <1>2, <1>4, <2>2, TurnsOut DEF Screens
<1>5. CASE Offers("terms") /\ Turn(Show(dialog, "DURATION"))
  <2>1. dialog.screen \in PayScreens
    BY <1>2, <1>5 DEF Offers, Sound, Offered
  <2>2. BasedOn(dialog, "DURATION") /\ PaidOn(dialog, "DURATION")
    BY <1>2, <2>1 DEF BasedOn, PaidOn, PayScreens
  <2> QED BY <1>2, <1>5, <2>2, TurnsOut DEF Screens
<1>6. CASE Offers("gateways") /\ Turn(Show([dialog EXCEPT !.pay = None], "PAYMENT_METHOD"))
  <2> DEFINE d == [dialog EXCEPT !.pay = None]
  <2>1. /\ d \in Dialogs /\ d.plan = dialog.plan /\ d.type = dialog.type
        /\ d.own = dialog.own /\ d.onlyPlan = dialog.onlyPlan /\ d.cache = dialog.cache
        /\ d.term = dialog.term /\ d.method = dialog.method /\ d.pay = None
    BY <1>2 DEF Dialogs
  <2>2. Turn(Show(d, "PAYMENT_METHOD")) /\ dialog.screen = "PLATEGA_METHOD"
    BY <1>2, <1>6 DEF Offers, Sound, Offered
  <2> HIDE DEF d
  <2>3. BasedOn(d, "PAYMENT_METHOD") /\ PaidOn(d, "PAYMENT_METHOD")
    BY <1>2, <2>1, <2>2 DEF BasedOn, PaidOn, PayScreens
  <2> QED BY <2>1, <2>2, <2>3, TurnsOut DEF Screens, PayScreens
<1>7. CASE /\ Offers("methods")
           /\ Turn(Show([dialog EXCEPT !.pay = None, !.pick = None], "PLATEGA_METHOD"))
  <2> DEFINE d == [dialog EXCEPT !.pay = None, !.pick = None]
  <2>1. /\ d \in Dialogs /\ d.plan = dialog.plan /\ d.type = dialog.type
        /\ d.own = dialog.own /\ d.onlyPlan = dialog.onlyPlan /\ d.cache = dialog.cache
        /\ d.term = dialog.term /\ d.method = dialog.method /\ d.pay = None
    BY <1>2 DEF Dialogs
  <2>2. Turn(Show(d, "PLATEGA_METHOD")) /\ dialog.screen = "PLATEGA_METHOD"
    BY <1>2, <1>7 DEF Offers, Sound, Offered
  <2> HIDE DEF d
  <2>3. BasedOn(d, "PLATEGA_METHOD") /\ PaidOn(d, "PLATEGA_METHOD")
    BY <1>2, <2>1, <2>2 DEF BasedOn, PaidOn, PayScreens
  <2> QED BY <2>1, <2>2, <2>3, TurnsOut DEF Screens, PayScreens
<1> QED BY <1>3, <1>4, <1>5, <1>6, <1>7 DEF Back

-----------------------------------------------------------------------------
(* The handlers keep the invariant.                                         *)

\* A handler that ends at once, with a screen or with an error.
LEMMA QuietKeeps ==
    ASSUME IInv, UNCHANGED <<shop, account, visits, tap, invoices, refusals>>,
           clash' = (clash \/ InFlight), dialog' \in Dialogs \cup {None},
           dialog' # None => Sound(dialog'), recent' \subseteq recent,
           ~clash /\ dialog' # None => \A i \in recent' : i.cached => Found(i, dialog'.cache)
    PROVE  IInv'
<1>1. /\ catalogue' = catalogue /\ gateways' = gateways /\ sub' = sub /\ gift' = gift
      /\ changes' = changes /\ visits' = visits /\ tap' = tap /\ invoices' = invoices
      /\ refusals' = refusals
  BY DEF shop, account
<1>2. clash' \in BOOLEAN
  <2>1. CASE clash \/ InFlight
    BY <2>1, Zenon
  <2>2. CASE ~(clash \/ InFlight)
    BY <2>2, Zenon
  <2> QED BY <2>1, <2>2
<1>3. TypeInv'
  BY <1>1, <1>2 DEF IInv, TypeInv
<1>4. DialogInv'
  BY DEF DialogInv
<1>5. Busy' = Busy
  BY <1>1 DEF Busy
<1>6. TapInv'
  BY <1>1, <1>5 DEF IInv, TapInv, Payable
<1>7. InvoiceInv'
  BY <1>1, <1>5 DEF IInv, InvoiceInv
<1>8. OnceInv'
  <2> SUFFICES ASSUME ~clash' PROVE OnceInv'
    BY DEF OnceInv
  <2>1. ~clash /\ ~InFlight
    BY Zenon
  <2>2. \A t \in Taps : ~Here(t)'
    BY <1>1, <1>5, <2>1 DEF Here, InFlight
  <2>3. \A i, j \in recent : i.cached /\ j.cached /\ Choice(i) = Choice(j) => i = j
    BY <2>1 DEF IInv, OnceInv
  <2>4. dialog' # None => \A i \in recent' : i.cached => Found(i, dialog'.cache)
    BY <2>1
  <2> QED BY <2>2, <2>3, <2>4 DEF OnceInv
<1> QED BY <1>3, <1>4, <1>6, <1>7, <1>8 DEF IInv

LEMMA TurnsKeep ==
    ASSUME IInv, NEW K, Turns(K),
           \/ dialog # None /\ K = dialog.cache /\ recent' = recent
           \/ K = {} /\ recent' = {}
    PROVE  IInv'
<1>1. PICK c \in Dialogs, s \in Screens \ {"PLAN"} :
         BasedOn(c, s) /\ PaidOn(c, s) /\ c.cache = K /\ Turn(Show(c, s))
  BY DEF Turns
<1>2. Show(c, s) \in Dialogs /\ Sound(Show(c, s)) /\ Show(c, s).cache = K
  BY <1>1, Shown DEF IInv
<1>3. /\ dialog' = Show(c, s) /\ clash' = (clash \/ InFlight)
      /\ UNCHANGED <<shop, account, visits, tap, invoices, refusals>>
  BY <1>1 DEF Turn
<1>4. ~clash => \A i \in recent' : i.cached => Found(i, K)
  BY DEF IInv, OnceInv
<1>5. recent' \subseteq recent
  OBVIOUS
<1> QED BY <1>2, <1>3, <1>4, <1>5, QuietKeeps

LEMMA FailKeeps ==
    ASSUME IInv, Fails, recent' \subseteq recent
    PROVE  IInv'
<1>1. /\ dialog' = None /\ clash' = (clash \/ InFlight)
      /\ UNCHANGED <<shop, account, visits, tap, invoices, refusals>>
  BY DEF Fails, Fail
<1> QED BY <1>1, QuietKeeps
\* A tap that asks a gateway for a payment.
LEMMA AskKeeps ==
    ASSUME IInv, NEW t \in Taps, NEW K, AsksFor(t, K), dialog # None,
           \/ K = dialog.cache /\ recent' = recent
           \/ K = {} /\ recent' = {}
    PROVE  IInv'
<1>1. PICK c \in Dialogs, g \in Gateways, h \in BOOLEAN :
        Payable(c, g) /\ c.cache = K /\ (h => Cached(c, g) = {}) /\ Asks(t, c, g, h)
  BY DEF AsksFor
<1> DEFINE n == [pc |-> "paying", visit |-> visits, then |-> c, gateway |-> g,
                 cached |-> h, free |-> Free(c)]
<1>2. /\ tap[t].pc = "idle" /\ Cardinality(invoices) + Cardinality(Busy) < MaxInvoices
      /\ tap' = [tap EXCEPT ![t] = n] /\ clash' = (clash \/ InFlight)
      /\ catalogue' = catalogue /\ gateways' = gateways /\ sub' = sub /\ gift' = gift
      /\ changes' = changes /\ visits' = visits /\ dialog' = dialog /\ invoices' = invoices
      /\ refusals' = refusals
  BY <1>1 DEF Asks, shop, account
<1>3. tap \in [Taps -> TapStates] /\ visits \in Nat /\ gift \in BOOLEAN
  BY CheckoutAssumption DEF IInv, TypeInv
<1>4. Free(c) \in BOOLEAN
  <2>1. CASE gift /\ c.plan.id # Trial
    BY <2>1, Zenon DEF Free
  <2>2. CASE ~(gift /\ c.plan.id # Trial)
    BY <2>2, Zenon DEF Free
  <2> QED BY <2>1, <2>2
<1>5. /\ n \in TapStates /\ n.pc = "paying" /\ n.visit = visits /\ n.then = c /\ n.gateway = g
      /\ n.cached = h
  BY <1>1, <1>3, <1>4 DEF TapStates
<1> HIDE DEF n
<1>6. /\ tap' \in [Taps -> TapStates] /\ tap'[t] = n
      /\ \A s \in Taps \ {t} : tap'[s] = tap[s]
  BY <1>2, <1>3, <1>5
<1>7. Busy' = Busy \cup {t} /\ t \notin Busy
  BY <1>2, <1>5, <1>6 DEF Busy
<1>8. clash' \in BOOLEAN
  <2>1. CASE clash \/ InFlight
    BY <1>2, <2>1, Zenon
  <2>2. CASE ~(clash \/ InFlight)
    BY <1>2, <2>2, Zenon
  <2> QED BY <2>1, <2>2
<1>9. TypeInv'
  BY <1>2, <1>6, <1>8 DEF IInv, TypeInv
<1>10. DialogInv'
  BY <1>2 DEF IInv, DialogInv
<1>11. TapInv'
  <2> SUFFICES ASSUME NEW s \in Busy'
               PROVE  /\ tap'[s].then \in Dialogs /\ tap'[s].gateway \in Gateways
                      /\ Payable(tap'[s].then, tap'[s].gateway) /\ tap'[s].visit <= visits'
    BY DEF TapInv
  <2>1. CASE s = t
    BY <1>1, <1>2, <1>3, <1>5, <1>6, <2>1
  <2>2. CASE s # t
    <3>1. s \in Busy /\ tap'[s] = tap[s]
      BY <1>6, <1>7, <2>2 DEF Busy
    <3> QED BY <1>2, <3>1 DEF IInv, TapInv
  <2> QED BY <2>1, <2>2
<1>12. InvoiceInv'
  <2>1. IsFiniteSet(Busy') /\ Cardinality(Busy') = Cardinality(Busy) + 1
    BY <1>7, FS_AddElement DEF IInv, InvoiceInv
  <2>2. Cardinality(Busy) \in Nat /\ Cardinality(invoices) \in Nat /\ MaxInvoices \in Nat
    BY FS_CardinalityType, CheckoutAssumption DEF IInv, InvoiceInv
  <2>3. Cardinality(invoices') + Cardinality(Busy') <= MaxInvoices
    BY <1>2, <2>1, <2>2
  <2> QED BY <1>2, <2>1, <2>3 DEF IInv, InvoiceInv
<1>13. OnceInv'
  <2> SUFFICES ASSUME ~clash' PROVE OnceInv'
    BY DEF OnceInv
  <2>1. ~clash /\ ~InFlight
    BY <1>2, Zenon
  <2>2. \A s \in Taps : Here(s)' => s = t
    <3> SUFFICES ASSUME NEW s \in Taps, Here(s)', s # t PROVE FALSE
      OBVIOUS
    <3>1. s \in Busy /\ tap[s].visit = visits
      BY <1>2, <1>6, <1>7 DEF Here
    <3> QED BY <2>1, <3>1 DEF InFlight
  <2>3. recent' \subseteq recent
    OBVIOUS
  <2>4. \A i \in recent' : i.cached => Found(i, K)
    BY <2>1 DEF IInv, OnceInv
  <2>5. \A i \in recent' : i.cached => Found(i, dialog'.cache)
    BY <1>2, <2>1 DEF IInv, OnceInv
  <2>6. tap'[t].then = c /\ tap'[t].gateway = g /\ tap'[t].cached = h
    BY <1>5, <1>6
  <2>7. \A s \in Taps : Here(s)' =>
          /\ \A i \in recent' : i.cached => Found(i, tap'[s].then.cache)
          /\ tap'[s].cached => Cached(tap'[s].then, tap'[s].gateway) = {}
    BY <1>1, <2>2, <2>4, <2>6
  <2>8. \A i, j \in recent' : i.cached /\ j.cached /\ Choice(i) = Choice(j) => i = j
    BY <2>1, <2>3 DEF IInv, OnceInv
  <2> QED BY <2>2, <2>5, <2>7, <2>8 DEF OnceInv
<1> QED BY <1>9, <1>10, <1>11, <1>12, <1>13 DEF IInv

LEMMA HandledKeeps ==
    ASSUME IInv, NEW t \in Taps, Handled(t)
    PROVE  IInv'
<1>1. ASSUME NEW K, Outcome(t, K),
             \/ K = dialog.cache /\ recent' = recent
             \/ K = {} /\ recent' = {}
      PROVE  IInv'
  <2>1. dialog # None
    BY DEF Handled
  <2>2. CASE Turns(K)
    BY <1>1, <2>1, <2>2, TurnsKeep
  <2>3. CASE Fails
    BY <1>1, <2>3, FailKeeps
  <2>4. CASE AsksFor(t, K)
    BY <1>1, <2>1, <2>4, AskKeeps
  <2> QED BY <1>1, <2>2, <2>3, <2>4 DEF Outcome
<1> QED BY <1>1 DEF Handled

LEMMA RefusedKeeps ==
    ASSUME IInv, NEW t \in Taps, Refused(t)
    PROVE  IInv'
<1>1. /\ tap[t].pc = "paying" /\ refusals < MaxRefusals /\ refusals' = refusals + 1
      /\ tap' = [tap EXCEPT ![t] = NoTap] /\ recent' = recent /\ dialog' = None
      /\ clash' = (clash \/ InFlight) /\ catalogue' = catalogue /\ gateways' = gateways
      /\ sub' = sub /\ gift' = gift /\ changes' = changes /\ visits' = visits
      /\ invoices' = invoices
  BY DEF Refused, Fail, shop, account
<1>2. tap \in [Taps -> TapStates] /\ visits \in Nat
  BY CheckoutAssumption DEF IInv, TypeInv
<1>3. NoTap \in TapStates /\ NoTap.pc = "idle"
  BY DEF NoTap, TapStates
<1>4. /\ tap' \in [Taps -> TapStates] /\ tap'[t] = NoTap
      /\ \A s \in Taps \ {t} : tap'[s] = tap[s]
  BY <1>1, <1>2, <1>3
<1>5. Busy' = Busy \ {t} /\ t \in Busy
  BY <1>1, <1>3, <1>4 DEF Busy
<1>6. clash' \in BOOLEAN
  <2>1. CASE clash \/ InFlight
    BY <1>1, <2>1, Zenon
  <2>2. CASE ~(clash \/ InFlight)
    BY <1>1, <2>2, Zenon
  <2> QED BY <2>1, <2>2
<1>7. refusals' \in 0 .. MaxRefusals
  BY <1>1, CheckoutAssumption DEF IInv, TypeInv
<1>8. TypeInv'
  BY <1>1, <1>4, <1>6, <1>7 DEF IInv, TypeInv
<1>9. DialogInv'
  BY <1>1 DEF DialogInv
<1>10. TapInv'
  BY <1>1, <1>4, <1>5 DEF IInv, TapInv, Payable, Busy
<1>11. InvoiceInv'
  <2>1. IsFiniteSet(Busy') /\ Cardinality(Busy') = Cardinality(Busy) - 1
    BY <1>5, FS_RemoveElement DEF IInv, InvoiceInv
  <2>2. Cardinality(Busy) \in Nat /\ Cardinality(invoices) \in Nat /\ MaxInvoices \in Nat
    BY FS_CardinalityType, CheckoutAssumption DEF IInv, InvoiceInv
  <2>3. Cardinality(invoices') + Cardinality(Busy') <= MaxInvoices
    BY <1>1, <2>1, <2>2 DEF IInv, InvoiceInv
  <2> QED BY <1>1, <2>1, <2>3 DEF IInv, InvoiceInv
<1>12. OnceInv'
  <2> SUFFICES ASSUME ~clash' PROVE OnceInv'
    BY DEF OnceInv
  <2>1. ~clash /\ ~InFlight
    BY <1>1, Zenon
  <2>2. \A s \in Taps : ~Here(s)'
    <3> SUFFICES ASSUME NEW s \in Taps, Here(s)' PROVE FALSE
      OBVIOUS
    <3>1. s \in Busy /\ tap[s].visit = visits
      BY <1>1, <1>4, <1>5 DEF Here
    <3> QED BY <2>1, <3>1 DEF InFlight
  <2> QED BY <1>1, <2>1, <2>2 DEF IInv, OnceInv
<1> QED BY <1>8, <1>9, <1>10, <1>11, <1>12 DEF IInv
\* The invoice that answers a tap is of what the dialog held when it was loaded.
LEMMA IssuedFor ==
    ASSUME IInv, NEW t \in Busy,
           NEW i \in {Issued(t)} \cup
                     (IF tap[t].free THEN Pending(tap[t].then, tap[t].gateway) ELSE {})
    PROVE  LET c == tap[t].then
               g == tap[t].gateway
           IN /\ c \in Dialogs /\ g \in Gateways /\ Payable(c, g)
              /\ c.plan \in Dumps /\ c.term \in c.plan.terms /\ c.type \in Types
              /\ Key(c, g) \in Keys
              /\ i \in Invoices /\ i.term \in i.plan.terms
              /\ i.type = "RENEW" => i.own \in {None, i.plan.id}
              /\ i \notin invoices =>
                    /\ Choice(i) = <<c.type, c.plan, c.term, c.method, c.pick>>
                    /\ i.cached = tap[t].cached
                    /\ Key(c, g) = [type |-> i.type, term |-> i.term, gateway |-> i.gateway,
                                    pick |-> i.pick]
                    /\ Choice(i) = <<Key(c, g).type, c.plan, Key(c, g).term,
                                     Key(c, g).gateway, Key(c, g).pick>>
<1> DEFINE c == tap[t].then
           g == tap[t].gateway
           pick == IF g = "PLATEGA" THEN c.pick ELSE None
<1>1. /\ c \in Dialogs /\ g \in Gateways /\ Payable(c, g) /\ tap[t] \in TapStates
      /\ tap[t].cached \in BOOLEAN /\ tap[t].free \in BOOLEAN
  BY DEF IInv, TypeInv, TapInv, TapStates, Busy
<1>2. /\ c.plan \in Dumps /\ c.term \in c.plan.terms /\ c.term \in Terms /\ c.type \in Types
      /\ c.type = "RENEW" => c.own \in {None, c.plan.id}
      /\ c.method = g /\ c.pick = pick /\ c.own \in Plans \cup {None}
      /\ pick \in Methods \cup {None}
  BY <1>1 DEF Payable, BasedOn, PayScreens, Dialogs, Dumps
<1>3. Key(c, g) = [type |-> c.type, term |-> c.term, gateway |-> g, pick |-> pick]
  BY DEF Key
<1>4. Issued(t) = [n |-> Cardinality(invoices) + 1, type |-> c.type, own |-> c.own,
                   plan |-> c.plan, term |-> c.term, gateway |-> g, pick |-> pick,
                   free |-> tap[t].free, cached |-> tap[t].cached]
  BY DEF Issued
<1>5. Cardinality(invoices) + 1 \in Nat
  BY FS_CardinalityType DEF IInv, InvoiceInv
<1> HIDE DEF c, g, pick
<1>6. Key(c, g) \in Keys
  BY <1>1, <1>2, <1>3 DEF Keys
<1>7. CASE i = Issued(t)
  <2>1. i \in Invoices
    BY <1>1, <1>2, <1>4, <1>5, <1>7 DEF Invoices
  <2>2. /\ i.type = c.type /\ i.own = c.own /\ i.plan = c.plan /\ i.term = c.term
        /\ i.gateway = g /\ i.pick = pick /\ i.cached = tap[t].cached
    BY <1>4, <1>7
  <2>3. Choice(i) = <<c.type, c.plan, c.term, c.method, c.pick>>
    BY <1>2, <2>2 DEF Choice
  <2>4. /\ Key(c, g) = [type |-> i.type, term |-> i.term, gateway |-> i.gateway,
                        pick |-> i.pick]
        /\ Choice(i) = <<Key(c, g).type, c.plan, Key(c, g).term, Key(c, g).gateway,
                         Key(c, g).pick>>
    BY <1>2, <1>3, <2>2, <2>3
  <2> QED BY <1>1, <1>2, <1>6, <2>1, <2>2, <2>3, <2>4 DEF c, g
<1>8. CASE i # Issued(t)
  <2>1. i \in invoices
    BY <1>8 DEF Pending
  <2>2. /\ i \in Invoices /\ i.term \in i.plan.terms
        /\ i.type = "RENEW" => i.own \in {None, i.plan.id}
    BY <2>1 DEF IInv, TypeInv, InvoiceInv
  <2> QED BY <1>1, <1>2, <1>6, <2>1, <2>2 DEF c, g
<1> QED BY <1>7, <1>8

\* Saving the dialog with it is sound.
LEMMA SaveSound ==
    ASSUME IInv, NEW t \in Busy,
           NEW i \in {Issued(t)} \cup
                     (IF tap[t].free THEN Pending(tap[t].then, tap[t].gateway) ELSE {}),
           NEW url \in BOOLEAN, NEW again \in BOOLEAN, again <=> i \in invoices
    PROVE  LET c == tap[t].then
               pay == [invoice |-> i, url |-> url, kept |-> FALSE, reused |-> again]
               d == Save(t, pay)
           IN /\ d \in Dialogs /\ Sound(d) /\ c.cache \subseteq d.cache
              /\ tap[t].cached => [key |-> Key(c, tap[t].gateway), pay |-> pay] \in d.cache
<1> DEFINE c == tap[t].then
           g == tap[t].gateway
           pay == [invoice |-> i, url |-> url, kept |-> FALSE, reused |-> again]
           e == [key |-> Key(c, g), pay |-> pay]
           cache == IF tap[t].cached THEN c.cache \cup {e} ELSE c.cache
           d == [c EXCEPT !.pay = pay, !.cache = cache]
<1>1. /\ c \in Dialogs /\ g \in Gateways /\ Payable(c, g) /\ i \in Invoices
      /\ Key(c, g) \in Keys
      /\ i \notin invoices =>
            /\ Choice(i) = <<c.type, c.plan, c.term, c.method, c.pick>>
            /\ Choice(i) = <<Key(c, g).type, c.plan, Key(c, g).term,
                             Key(c, g).gateway, Key(c, g).pick>>
  BY IssuedFor
<1>2. Save(t, pay) = Show(d, c.screen)
  BY DEF Save
<1> HIDE DEF c, g
<1>3. pay \in Payments /\ pay.invoice = i /\ ~pay.kept /\ pay.reused = again
  BY <1>1 DEF Payments
<1> HIDE DEF pay
<1>4. e \in [key : Keys, pay : Payments] /\ e.key = Key(c, g) /\ e.pay = pay
  BY <1>1, <1>3
<1> HIDE DEF e
<1>5. c.cache \in SUBSET [key : Keys, pay : Payments]
  BY <1>1 DEF Dialogs
<1>6. /\ cache \in SUBSET [key : Keys, pay : Payments] /\ c.cache \subseteq cache
      /\ cache \subseteq c.cache \cup {e} /\ (tap[t].cached => e \in cache)
  BY <1>4, <1>5
<1> HIDE DEF cache
<1>7. /\ d \in Dialogs /\ d.pay = pay /\ d.cache = cache /\ d.type = c.type
      /\ d.own = c.own /\ d.plan = c.plan /\ d.term = c.term /\ d.method = c.method
      /\ d.pick = c.pick /\ d.onlyPlan = c.onlyPlan
  BY <1>1, <1>3, <1>6 DEF Dialogs
<1> HIDE DEF d
<1>8. Matches(e, c.plan)
  BY <1>1, <1>3, <1>4 DEF Matches
<1>9. BasedOn(c, c.screen) /\ c.screen \in PayScreens
  BY <1>1 DEF Payable
<1>10. BasedOn(d, c.screen)
  BY <1>6, <1>7, <1>8, <1>9 DEF BasedOn
<1>11. PaidOn(d, c.screen)
  BY <1>1, <1>3, <1>7 DEF PaidOn
<1>12. c.screen \in Screens \ {"PLAN"}
  BY <1>9 DEF Screens, PayScreens
<1>13. Show(d, c.screen) \in Dialogs /\ Sound(Show(d, c.screen))
       /\ Show(d, c.screen).cache = cache
  BY <1>7, <1>10, <1>11, <1>12, Shown DEF IInv
<1> QED BY <1>2, <1>6, <1>13 DEF c, g, pay, e
LEMMA CreatedKeeps ==
    ASSUME IInv, NEW t \in Taps, Created(t)
    PROVE  IInv'
<1> DEFINE c == tap[t].then
           g == tap[t].gateway
           pay(i, url, again) ==
               [invoice |-> i, url |-> url, kept |-> FALSE, reused |-> again]
<1>1. /\ tap[t].pc = "paying" /\ tap' = [tap EXCEPT ![t] = NoTap]
      /\ catalogue' = catalogue /\ gateways' = gateways /\ sub' = sub /\ gift' = gift
      /\ changes' = changes /\ visits' = visits /\ clash' = clash /\ refusals' = refusals
  BY DEF Created, shop, account
<1>2. PICK i \in {Issued(t)} \cup
                 (IF tap[t].free THEN Pending(tap[t].then, tap[t].gateway) ELSE {}) :
        /\ invoices' = invoices \cup {i}
        /\ IF dialog # None /\ tap[t].visit = visits
           THEN /\ dialog' = Save(t, pay(i, ~tap[t].free, i \in invoices))
                /\ recent' = recent \cup ({i} \ invoices)
           ELSE UNCHANGED <<dialog, recent>>
  BY Zenon DEF Created
<1>3. tap \in [Taps -> TapStates] /\ visits \in Nat
  BY CheckoutAssumption DEF IInv, TypeInv
<1>4. NoTap \in TapStates /\ NoTap.pc = "idle"
  BY DEF NoTap, TapStates
<1>5. /\ tap' \in [Taps -> TapStates] /\ tap'[t] = NoTap
      /\ \A s \in Taps \ {t} : tap'[s] = tap[s]
  BY <1>1, <1>3, <1>4
<1>6. Busy' = Busy \ {t} /\ t \in Busy
  BY <1>1, <1>4, <1>5 DEF Busy
<1>7. /\ c \in Dialogs /\ i \in Invoices /\ i.term \in i.plan.terms
      /\ i.type = "RENEW" => i.own \in {None, i.plan.id}
      /\ i \notin invoices =>
            /\ Choice(i) = <<c.type, c.plan, c.term, c.method, c.pick>>
            /\ i.cached = tap[t].cached
            /\ Key(c, g) = [type |-> i.type, term |-> i.term, gateway |-> i.gateway,
                            pick |-> i.pick]
  BY <1>6, IssuedFor
<1>8. PICK url \in BOOLEAN : url <=> ~tap[t].free
  OBVIOUS
<1>9. ASSUME dialog # None, tap[t].visit = visits
      PROVE  /\ dialog' \in Dialogs /\ Sound(dialog') /\ c.cache \subseteq dialog'.cache
             /\ recent' = recent \cup ({i} \ invoices)
             /\ tap[t].cached =>
                  \E e \in dialog'.cache : e.key = Key(c, g)
  <2>1. PICK again \in BOOLEAN : again <=> i \in invoices
    OBVIOUS
  <2>2. again = (i \in invoices) /\ url = ~tap[t].free
    BY <1>8, <2>1, Zenon
  <2>3. dialog' = Save(t, pay(i, url, again)) /\ recent' = recent \cup ({i} \ invoices)
    BY <1>2, <1>9, <2>2, Zenon
  <2>4. /\ Save(t, pay(i, url, again)) \in Dialogs /\ Sound(Save(t, pay(i, url, again)))
        /\ c.cache \subseteq Save(t, pay(i, url, again)).cache
        /\ tap[t].cached =>
             [key |-> Key(c, g), pay |-> pay(i, url, again)] \in Save(t, pay(i, url, again)).cache
    BY <1>2, <1>6, <2>1, SaveSound
  <2>5. [key |-> Key(c, g), pay |-> pay(i, url, again)].key = Key(c, g)
    OBVIOUS
  <2> HIDE DEF c, g, pay
  <2> QED BY <2>3, <2>4, <2>5
<1>10. ASSUME ~(dialog # None /\ tap[t].visit = visits)
       PROVE  dialog' = dialog /\ recent' = recent
  BY <1>2, <1>10
<1>11. invoices' = invoices \cup {i}
  BY <1>2
<1> HIDE DEF c, g, pay
<1>12. recent' \subseteq recent \cup ({i} \ invoices)
  BY <1>9, <1>10
<1>13. TypeInv'
  <2>1. dialog' \in Dialogs \cup {None}
    BY <1>9, <1>10 DEF IInv, TypeInv
  <2>2. invoices' \subseteq Invoices /\ recent' \subseteq invoices'
    BY <1>7, <1>11, <1>12 DEF IInv, TypeInv
  <2> QED BY <1>1, <1>5, <2>1, <2>2 DEF IInv, TypeInv
<1>14. DialogInv'
  BY <1>9, <1>10 DEF IInv, DialogInv
<1>15. TapInv'
  BY <1>1, <1>5, <1>6 DEF IInv, TapInv, Payable, Busy
<1>16. InvoiceInv'
  <2>1. IsFiniteSet(Busy') /\ Cardinality(Busy') = Cardinality(Busy) - 1
    BY <1>6, FS_RemoveElement DEF IInv, InvoiceInv
  <2>2. /\ IsFiniteSet(invoices')
        /\ \/ Cardinality(invoices') = Cardinality(invoices)
           \/ Cardinality(invoices') = Cardinality(invoices) + 1
    BY <1>11, FS_AddElement DEF IInv, InvoiceInv
  <2>3. Cardinality(Busy) \in Nat /\ Cardinality(invoices) \in Nat /\ MaxInvoices \in Nat
    BY FS_CardinalityType, CheckoutAssumption DEF IInv, InvoiceInv
  <2>4. Cardinality(invoices') + Cardinality(Busy') <= MaxInvoices
    BY <2>1, <2>2, <2>3 DEF IInv, InvoiceInv
  <2>5. \A j \in invoices' : j.term \in j.plan.terms
                             /\ (j.type = "RENEW" => j.own \in {None, j.plan.id})
    BY <1>7, <1>11 DEF IInv, InvoiceInv
  <2> QED BY <2>1, <2>2, <2>4, <2>5 DEF InvoiceInv
<1>17. OnceInv'
  <2> SUFFICES ASSUME ~clash' PROVE OnceInv'
    BY DEF OnceInv
  <2>1. ~clash
    BY <1>1
  <2>2. \A s \in Taps : Here(s)' => Here(s) /\ s # t /\ tap'[s] = tap[s]
    BY <1>1, <1>5, <1>6 DEF Here
  <2>3. \A s, u \in Taps : Here(s) /\ Here(u) => s = u
    BY <2>1 DEF IInv, OnceInv
  <2>4. CASE dialog # None /\ tap[t].visit = visits
    <3>1. Here(t)
      BY <1>6, <2>4 DEF Here
    <3>2. \A s \in Taps : ~Here(s)'
      BY <2>2, <2>3, <3>1
    <3>3. /\ \A j \in recent : j.cached => Found(j, c.cache)
          /\ tap[t].cached => Cached(c, g) = {}
      BY <2>1, <3>1 DEF IInv, OnceInv, c, g
    <3>4. \A j \in recent' : j.cached => Found(j, dialog'.cache)
      <4> SUFFICES ASSUME NEW j \in recent', j.cached PROVE Found(j, dialog'.cache)
        OBVIOUS
      <4>1. CASE j \in recent
        BY <1>9, <2>4, <3>3, <4>1 DEF Found
      <4>2. CASE j \notin recent
        <5>1. j = i /\ i \notin invoices
          BY <1>12, <4>2
        <5>2. \E e \in dialog'.cache : e.key = Key(c, g)
          BY <1>7, <1>9, <2>4, <5>1
        <5> QED BY <1>7, <5>1, <5>2 DEF Found
      <4> QED BY <4>1, <4>2
    <3>5. ASSUME NEW j \in recent, j.cached, i \notin invoices, i.cached,
                 Choice(i) = Choice(j)
          PROVE  FALSE
      <4>1. tap[t].cached
        BY <1>7, <3>5
      <4>2. /\ i.type = j.type /\ i.term = j.term /\ i.gateway = j.gateway
            /\ i.pick = j.pick
        BY <3>5 DEF Choice
      <4>3. \E e \in c.cache : e.key = Key(c, g)
        BY <1>7, <3>3, <3>5, <4>2 DEF Found
      <4> QED BY <3>3, <4>1, <4>3 DEF Cached
    <3>6. ASSUME NEW j \in recent', NEW k \in recent', j.cached, k.cached,
                 Choice(j) = Choice(k)
          PROVE  j = k
      <4>1. j \in recent \/ (j = i /\ i \notin invoices)
        BY <1>12, <3>6
      <4>2. k \in recent \/ (k = i /\ i \notin invoices)
        BY <1>12, <3>6
      <4>3. CASE j \in recent /\ k \in recent
        BY <2>1, <3>6, <4>3 DEF IInv, OnceInv
      <4> QED BY <3>5, <3>6, <4>1, <4>2, <4>3
    <3> QED BY <3>2, <3>4, <3>6 DEF OnceInv
  <2>5. CASE ~(dialog # None /\ tap[t].visit = visits)
    <3>1. dialog' = dialog /\ recent' = recent
      BY <1>10, <2>5
    <3>2. dialog' # None => \A j \in recent' : j.cached => Found(j, dialog'.cache)
      BY <2>1, <3>1 DEF IInv, OnceInv
    <3>3. \A s \in Taps : Here(s)' =>
            /\ \A j \in recent' : j.cached => Found(j, tap'[s].then.cache)
            /\ tap'[s].cached => Cached(tap'[s].then, tap'[s].gateway) = {}
      BY <2>1, <2>2, <3>1 DEF IInv, OnceInv
    <3>4. \A j, k \in recent' : j.cached /\ k.cached /\ Choice(j) = Choice(k) => j = k
      BY <2>1, <3>1 DEF IInv, OnceInv
    <3> QED BY <2>2, <2>3, <3>2, <3>3, <3>4 DEF OnceInv
  <2> QED BY <2>4, <2>5
<1> QED BY <1>13, <1>14, <1>15, <1>16, <1>17 DEF IInv
-----------------------------------------------------------------------------
(* Opening the dialog, and the shop.                                        *)

\* The first screen of the dialog.
LEMMA Opened ==
    ASSUME IInv, Start
    PROVE  dialog' \in Dialogs /\ Sound(dialog')
<1>1. /\ Fresh \in Dialogs /\ Fresh.cache = {} /\ Fresh.type = None /\ Fresh.pay = None
      /\ BasedOn(Fresh, "MAIN") /\ PaidOn(Fresh, "MAIN")
  BY FreshSound
<1>2. CASE dialog' = Show(Fresh, "MAIN")
  BY <1>1, <1>2, Shown DEF IInv, Screens
<1>3. CASE dialog' = Show([Fresh EXCEPT !.type = "NEW"], "PLANS")
  <2> DEFINE d == [Fresh EXCEPT !.type = "NEW"]
  <2>1. d \in Dialogs /\ d.type = "NEW" /\ d.cache = {}
    BY <1>1 DEF Dialogs, Types
  <2>2. dialog' = Show(d, "PLANS")
    BY <1>3
  <2> HIDE DEF d
  <2>3. BasedOn(d, "PLANS") /\ PaidOn(d, "PLANS")
    BY <2>1 DEF BasedOn, PaidOn, PayScreens, Types
  <2> QED BY <2>1, <2>2, <2>3, Shown DEF IInv, Screens
<1>4. ASSUME NEW p \in Open, NEW type \in LinkTypes(p),
             dialog' = [Fresh EXCEPT !.screen = "PLAN", !.shown = {p}, !.type = type,
                            !.own = Owned, !.onlyPlan = TRUE]
      PROVE  dialog' \in Dialogs /\ Sound(dialog')
  <2> DEFINE d == [Fresh EXCEPT !.screen = "PLAN", !.shown = {p}, !.type = type,
                       !.own = Owned, !.onlyPlan = TRUE]
  <2>1. p \in Plans /\ type \in Types /\ Owned \in Plans \cup {None} /\ p \in Items
    BY DEF Open, LinkTypes, Types, Owned, IInv, TypeInv, Items
  <2>2. type = "RENEW" => Owned = p
    BY DEF LinkTypes, Owned, Snapshot
  <2>3. /\ d \in Dialogs /\ d.screen = "PLAN" /\ d.shown = {p} /\ d.type = type
        /\ d.own = Owned /\ d.onlyPlan /\ d.cache = {} /\ d.pay = None
    BY <1>1, <2>1 DEF Dialogs, Screens
  <2>4. dialog' = d
    BY <1>4
  <2> HIDE DEF d
  <2>5. BasedOn(d, "PLAN") /\ PaidOn(d, "PLAN")
    BY <2>1, <2>3 DEF BasedOn, PaidOn, PayScreens
  <2>6. Offered(d)
    BY <2>1, <2>2, <2>3, Names DEF Offered, PayScreens
  <2> QED BY <2>3, <2>4, <2>5, <2>6 DEF Sound
<1>5. CASE dialog' = Show([Fresh EXCEPT !.type = "NEW", !.plan = TheTrial,
                               !.term = CHOOSE m \in TheTrial.terms : TRUE,
                               !.onlyPlan = TRUE, !.onlyTerm = TRUE], "PAYMENT_METHOD")
  <2> DEFINE first == CHOOSE m \in TheTrial.terms : TRUE
             d == [Fresh EXCEPT !.type = "NEW", !.plan = TheTrial, !.term = first,
                       !.onlyPlan = TRUE, !.onlyTerm = TRUE]
  <2>1. (CHOOSE m \in Terms : TRUE) \in Terms
    BY CheckoutAssumption
  <2>2. TheTrial \in Dumps /\ first \in TheTrial.terms /\ first \in Terms
    BY <2>1, CheckoutAssumption DEF TheTrial, Dumps
  <2> HIDE DEF first
  <2>3. /\ d \in Dialogs /\ d.type = "NEW" /\ d.plan = TheTrial /\ d.term = first
        /\ d.cache = {} /\ d.pay = None
    BY <1>1, <2>2 DEF Dialogs, Types
  <2>4. dialog' = Show(d, "PAYMENT_METHOD")
    BY <1>5 DEF first
  <2> HIDE DEF d
  <2>5. BasedOn(d, "PAYMENT_METHOD") /\ PaidOn(d, "PAYMENT_METHOD")
    BY <2>2, <2>3 DEF BasedOn, PaidOn, PayScreens, Types
  <2> QED BY <2>3, <2>4, <2>5, Shown DEF IInv, Screens, PayScreens
<1> QED BY <1>2, <1>3, <1>4, <1>5, Zenon DEF Start

LEMMA StartKeeps ==
    ASSUME IInv, Start
    PROVE  IInv'
<1>1. /\ visits < MaxVisits /\ visits' = visits + 1 /\ recent' = {} /\ clash' = FALSE
      /\ catalogue' = catalogue /\ gateways' = gateways /\ sub' = sub /\ gift' = gift
      /\ changes' = changes /\ tap' = tap /\ invoices' = invoices /\ refusals' = refusals
  BY DEF Start, shop, account
<1>2. dialog' \in Dialogs /\ Sound(dialog')
  BY Opened
<1>3. visits \in Nat /\ visits' \in 0 .. MaxVisits /\ Busy' = Busy
  BY <1>1, CheckoutAssumption DEF IInv, TypeInv, Busy
<1>4. TypeInv'
  BY <1>1, <1>2, <1>3 DEF IInv, TypeInv
<1>5. DialogInv'
  BY <1>2 DEF DialogInv
<1>6. \A t \in Busy : tap[t].visit \in Nat /\ tap[t].visit <= visits
  BY DEF IInv, TypeInv, TapInv, TapStates, Busy
<1>7. TapInv'
  BY <1>1, <1>3, <1>6 DEF IInv, TapInv, Payable
<1>8. InvoiceInv'
  BY <1>1, <1>3 DEF IInv, InvoiceInv
<1>9. \A t \in Taps : ~Here(t)'
  BY <1>1, <1>3, <1>6 DEF Here
<1>10. OnceInv'
  BY <1>1, <1>9 DEF OnceInv
<1> QED BY <1>4, <1>5, <1>7, <1>8, <1>10 DEF IInv

\* The shop and the account change under the dialog.
LEMMA ChangeKeeps ==
    ASSUME IInv, CommitPlan \/ ToggleUserPlanAccess \/ DeletePlan
                 \/ TogglePaymentGatewayActive \/ Elsewhere
    PROVE  IInv'
<1>1. Change
  BY Zenon DEF CommitPlan, ToggleUserPlanAccess, DeletePlan, TogglePaymentGatewayActive,
               Elsewhere
<1>2. /\ changes < MaxChanges /\ changes' = changes + 1 /\ dialog' = dialog
      /\ visits' = visits /\ tap' = tap /\ invoices' = invoices /\ recent' = recent
      /\ clash' = clash /\ refusals' = refusals
  BY <1>1 DEF Change, orders
<1>3. /\ changes \in 0 .. MaxChanges /\ changes' \in 0 .. MaxChanges /\ MaxChanges \in Nat
      /\ catalogue \in [Plans -> Rows \cup {None}] /\ gateways \subseteq Gateways
      /\ sub \in [id : Plans, version : 0 .. MaxChanges] \cup {None} /\ gift \in BOOLEAN
      /\ \A p \in Plans : catalogue[p] # None => catalogue[p].version <= changes
      /\ \A p \in Plans : catalogue[p] # None =>
            catalogue[p] \in Rows /\ catalogue[p].version \in 0 .. MaxChanges
  BY <1>2, CheckoutAssumption DEF IInv, TypeInv, Rows
<1>4. /\ catalogue' \in [Plans -> Rows \cup {None}] /\ gateways' \subseteq Gateways
      /\ sub' \in [id : Plans, version : 0 .. MaxChanges] \cup {None} /\ gift' \in BOOLEAN
      /\ \A p \in Plans : catalogue'[p] # None => catalogue'[p].version <= changes'
  <2> DEFINE Good == /\ catalogue' \in [Plans -> Rows \cup {None}]
                     /\ \A p \in Plans :
                           catalogue'[p] # None => catalogue'[p].version <= changes'
  <2>1. ASSUME NEW p \in Plans, NEW row, row \in Rows \cup {None},
               catalogue' = [catalogue EXCEPT ![p] = row],
               row # None => row.version <= changes + 1
        PROVE  Good
    <3>1. /\ catalogue' \in [Plans -> Rows \cup {None}] /\ catalogue'[p] = row
          /\ \A q \in Plans \ {p} : catalogue'[q] = catalogue[q]
      BY <1>3, <2>1
    <3> QED BY <1>2, <1>3, <2>1, <3>1
  <2>2. ASSUME catalogue' = catalogue
        PROVE  Good
    BY <1>2, <1>3, <2>2
  <2>3. CASE CommitPlan
    <3>1. PICK p \in Plans, open \in BOOLEAN, terms \in Drafts :
            /\ catalogue[p] # None
            /\ catalogue' = [catalogue EXCEPT ![p] = [open |-> open, terms |-> terms,
                                                      version |-> @.version + 1]]
      BY <2>3 DEF CommitPlan
    <3> DEFINE row == [open |-> open, terms |-> terms, version |-> catalogue[p].version + 1]
    <3>2. terms \in SUBSET Terms /\ catalogue[p].version + 1 \in 0 .. MaxChanges
          /\ catalogue[p].version + 1 <= changes + 1
      BY <1>2, <1>3, <3>1, CheckoutAssumption
    <3>3. row \in Rows /\ row.version = catalogue[p].version + 1
      BY <3>2 DEF Rows
    <3>4. catalogue' = [catalogue EXCEPT ![p] = row]
      BY <3>1
    <3> HIDE DEF row
    <3>5. Good
      BY <2>1, <3>2, <3>3, <3>4
    <3> QED BY <1>3, <2>3, <3>5 DEF CommitPlan
  <2>4. CASE ToggleUserPlanAccess
    <3>1. PICK p \in Plans :
            catalogue[p] # None /\ catalogue' = [catalogue EXCEPT ![p].open = ~@]
      BY <2>4 DEF ToggleUserPlanAccess
    <3> DEFINE row == [catalogue[p] EXCEPT !.open = ~@]
    <3>2. catalogue[p].open = TRUE \/ catalogue[p].open = FALSE
      BY <1>3, <3>1 DEF Rows
    <3>3. row \in Rows /\ row.version = catalogue[p].version
      BY <1>3, <3>1, <3>2 DEF Rows
    <3>4. catalogue' = [catalogue EXCEPT ![p] = row]
      BY <3>1
    <3>5. row.version <= changes + 1
      BY <1>3, <3>1, <3>3
    <3> HIDE DEF row
    <3>6. Good
      BY <2>1, <3>3, <3>4, <3>5
    <3> QED BY <1>3, <2>4, <3>6 DEF ToggleUserPlanAccess
  <2>5. CASE DeletePlan
    <3>1. PICK p \in Plans : catalogue' = [catalogue EXCEPT ![p] = None]
      BY <2>5 DEF DeletePlan
    <3>2. Good
      BY <2>1, <3>1
    <3> QED BY <1>3, <2>5, <3>2 DEF DeletePlan
  <2>6. CASE TogglePaymentGatewayActive
    <3>1. PICK g \in Gateways :
            gateways' = IF g \in gateways THEN gateways \ {g} ELSE gateways \cup {g}
      BY <2>6 DEF TogglePaymentGatewayActive
    <3>2. gateways' \subseteq Gateways
      BY <1>3, <3>1
    <3> QED BY <1>3, <2>2, <2>6, <3>2 DEF TogglePaymentGatewayActive
  <2>7. CASE Elsewhere
    <3>1. catalogue' = catalogue /\ gateways' = gateways
      BY <2>7 DEF Elsewhere, shop
    <3>2. CASE /\ sub' \in {None} \cup {Snapshot(p) : p \in {q \in Plans : catalogue[q] # None}}
               /\ UNCHANGED gift
      <4>1. \A p \in Plans : catalogue[p] # None =>
               Snapshot(p) \in [id : Plans, version : 0 .. MaxChanges]
        BY <1>3 DEF Snapshot
      <4> QED BY <1>3, <2>2, <3>1, <3>2, <4>1
    <3>3. CASE gift' = ~gift /\ UNCHANGED sub
      <4>1. gift = TRUE \/ gift = FALSE
        BY <1>3
      <4>2. gift' \in BOOLEAN
        BY <3>3, <4>1, Zenon
      <4> QED BY <1>3, <2>2, <3>1, <3>3, <4>2
    <3> QED BY <2>7, <3>2, <3>3 DEF Elsewhere
  <2> QED BY <2>3, <2>4, <2>5, <2>6, <2>7
<1>5. TypeInv'
  BY <1>2, <1>3, <1>4 DEF IInv, TypeInv
<1>6. IInv'
  <2>1. DialogInv' /\ Busy' = Busy
    BY <1>2 DEF IInv, DialogInv, Busy
  <2>2. TapInv' /\ InvoiceInv'
    BY <1>2, <2>1 DEF IInv, TapInv, InvoiceInv, Payable
  <2>3. \A t \in Taps : Here(t)' <=> Here(t)
    BY <1>2, <2>1 DEF Here
  <2>4. OnceInv'
    BY <1>2, <2>3 DEF IInv, OnceInv, Cached
  <2> QED BY <1>5, <2>1, <2>2, <2>4 DEF IInv
<1> QED BY <1>6
LEMMA InitIInv ==
    ASSUME Init
    PROVE  IInv
<1>1. /\ catalogue = [p \in Plans |-> [open |-> TRUE, version |-> 0, terms |-> TermsOf[p]]]
      /\ gateways = Gateways /\ sub \in {None} \cup {Snapshot(p) : p \in Held}
      /\ gift = FALSE /\ changes = 0 /\ dialog = None /\ visits = 0
      /\ tap = [t \in Taps |-> NoTap] /\ invoices = {} /\ recent = {} /\ clash = FALSE
      /\ refusals = 0
  BY DEF Init
<1>2. 0 \in 0 .. MaxChanges /\ 0 \in 0 .. MaxVisits /\ 0 \in 0 .. MaxRefusals
  BY CheckoutAssumption
<1>3. \A p \in Plans : catalogue[p] \in Rows /\ catalogue[p].version = 0
  BY <1>1, <1>2, CheckoutAssumption DEF Rows
<1>4. sub \in [id : Plans, version : 0 .. MaxChanges] \cup {None}
  <2>1. ASSUME NEW p \in Held
        PROVE  Snapshot(p) \in [id : Plans, version : 0 .. MaxChanges]
    <3>1. p \in Plans /\ catalogue[p].version = 0
      BY <1>3, CheckoutAssumption
    <3> QED BY <1>2, <3>1 DEF Snapshot
  <2> QED BY <1>1, <2>1
<1>5. NoTap \in TapStates /\ NoTap.pc = "idle"
  BY DEF NoTap, TapStates
<1>6. tap \in [Taps -> TapStates] /\ Busy = {}
  BY <1>1, <1>5 DEF Busy
<1>7. catalogue \in [Plans -> Rows \cup {None}]
  BY <1>1, <1>3
<1>8. TypeInv
  <2>1. /\ gateways \subseteq Gateways /\ gift \in BOOLEAN /\ clash \in BOOLEAN
        /\ invoices \subseteq Invoices /\ recent \subseteq invoices
        /\ dialog \in Dialogs \cup {None} /\ changes \in 0 .. MaxChanges
        /\ visits \in 0 .. MaxVisits /\ refusals \in 0 .. MaxRefusals
    BY <1>1, <1>2
  <2>2. \A p \in Plans : catalogue[p] # None => catalogue[p].version <= changes
    BY <1>1, <1>3
  <2> QED BY <1>4, <1>6, <1>7, <2>1, <2>2 DEF TypeInv
<1>9. InvoiceInv
  <2>1. IsFiniteSet({}) /\ Cardinality({}) = 0
    BY FS_EmptySet
  <2> QED BY <1>1, <1>6, <2>1, CheckoutAssumption DEF InvoiceInv
<1>10. DialogInv /\ TapInv /\ OnceInv
  BY <1>1, <1>6 DEF DialogInv, TapInv, OnceInv, Here
<1> QED BY <1>8, <1>9, <1>10 DEF IInv

LEMMA StepKeeps ==
    ASSUME IInv, [Next]_vars
    PROVE  IInv'
<1>1. CASE Start
  BY <1>1, StartKeeps
<1>2. CASE Back
  BY <1>2, BackOut, TurnsKeep DEF IInv
<1>3. ASSUME NEW t \in Taps, NEW type \in Types, ChooseType(t, type) PROVE IInv'
  BY <1>3, ChooseTypeOut, HandledKeeps DEF IInv
<1>4. ASSUME NEW t \in Taps, NEW p \in Plans, ChoosePlan(t, p) PROVE IInv'
  BY <1>4, ChoosePlanOut, HandledKeeps DEF IInv
<1>5. ASSUME NEW t \in Taps, NEW m \in Terms, ChooseTerm(t, m) PROVE IInv'
  BY <1>5, ChooseTermOut, HandledKeeps DEF IInv
<1>6. ASSUME NEW t \in Taps, NEW g \in Gateways, ChooseGateway(t, g) PROVE IInv'
  BY <1>6, ChooseGatewayOut, HandledKeeps DEF IInv
<1>7. ASSUME NEW t \in Taps, NEW m \in Methods, ChooseMethod(t, m) PROVE IInv'
  BY <1>7, ChooseMethodOut, HandledKeeps DEF IInv
<1>8. ASSUME NEW t \in Taps, Created(t) PROVE IInv'
  BY <1>8, CreatedKeeps
<1>9. ASSUME NEW t \in Taps, Refused(t) PROVE IInv'
  BY <1>9, RefusedKeeps
<1>10. CASE CommitPlan \/ ToggleUserPlanAccess \/ DeletePlan
            \/ TogglePaymentGatewayActive \/ Elsewhere
  BY <1>10, ChangeKeeps
<1>11. CASE UNCHANGED vars
  <2>1. /\ catalogue' = catalogue /\ gateways' = gateways /\ sub' = sub /\ gift' = gift
        /\ changes' = changes /\ dialog' = dialog /\ visits' = visits /\ tap' = tap
        /\ invoices' = invoices /\ recent' = recent /\ clash' = clash /\ refusals' = refusals
    BY <1>11 DEF vars, shop, account, orders
  <2>2. TypeInv' /\ DialogInv' /\ Busy' = Busy
    BY <2>1 DEF IInv, TypeInv, DialogInv, Busy
  <2>3. TapInv' /\ InvoiceInv'
    BY <2>1, <2>2 DEF IInv, TapInv, InvoiceInv, Payable
  <2>4. \A t \in Taps : Here(t)' <=> Here(t)
    BY <2>1, <2>2 DEF Here
  <2>5. OnceInv'
    BY <2>1, <2>4 DEF IInv, OnceInv, Cached
  <2> QED BY <2>2, <2>3, <2>5 DEF IInv
<1> QED BY <1>1, <1>2, <1>3, <1>4, <1>5, <1>6, <1>7, <1>8, <1>9, <1>10, <1>11, Zenon
        DEF Next, Types

-----------------------------------------------------------------------------
(* The theorems.                                                            *)

\* Whatever is tapped, however taps overlap and whatever is edited meanwhile, the dialog
\* shown and those loaded by taps that wait for a gateway are sound, and no more invoices
\* come than the bound admits.
THEOREM Invariant == Spec => []IInv
<1>1. Init => IInv
  BY InitIInv
<1>2. IInv /\ [Next]_vars => IInv'
  BY StepKeeps
<1> QED BY <1>1, <1>2, PTL DEF Spec

\* The button to pay is of the plan, the term, the gateway, the method and the purpose
\* that the dialog shows (on_duration_select, on_payment_method_select and their like),
\* for any catalogue, edits of it and overlapping taps.
THEOREM PaysForIt == Spec => []PaysForTheChoice
<1>1. IInv => PaysForTheChoice
  BY DEF IInv, DialogInv, Sound, PaidOn, PaysForTheChoice, On, PayScreens
<1> QED BY <1>1, Invariant, PTL

\* Every invoice is of a term of its plan, a renewal is of the plan the user had when he
\* chose to renew, and while no taps of the visit overlap no two invoices kept in
\* payment_cache are of one choice.
THEOREM InvoicesSound == Spec => []InvoicesAreSound
<1>1. IInv => TypeOK
  <2> SUFFICES ASSUME IInv PROVE TypeOK
    OBVIOUS
  <2>1. Cardinality(invoices) <= MaxInvoices
    BY FS_CardinalityType, CheckoutAssumption DEF IInv, InvoiceInv
  <2>2. \A i \in invoices : i.plan \in Dumps /\ i.term \in i.plan.terms
                            /\ i.type \in {"NEW", "RENEW", "CHANGE"} /\ i.gateway \in Gateways
    BY DEF IInv, TypeInv, InvoiceInv, Invoices, Types
  <2>3. On({"PAYMENT_METHOD", "PLATEGA_METHOD"}) =>
          dialog.plan \in Dumps /\ dialog.term \in dialog.plan.terms
    BY DEF IInv, DialogInv, Sound, BasedOn, On, PayScreens
  <2> QED BY <2>1, <2>2, <2>3 DEF IInv, TypeInv, TypeOK
<1>2. IInv => OneInvoicePerChoice
  BY DEF IInv, OnceInv, OneInvoicePerChoice
<1>3. IInv => RenewsItsPlan
  BY DEF IInv, InvoiceInv, RenewsItsPlan
<1>4. IInv => InvoicesAreSound
  BY <1>1, <1>2, <1>3 DEF InvoicesAreSound
<1> QED BY <1>4, Invariant, PTL

-----------------------------------------------------------------------------
(*                                Broadcast                                 *)

(***************************************************************************)
(* The inductive invariant: the state of each task's delivery; what the    *)
(* sender has in hand, what it has treated and what the rows say of both;  *)
(* and what a deletion still carries.                                      *)
(***************************************************************************)

Results == {"COMPLETED", "CANCELED", "ERROR"}

Locals ==
    [pc : {"idle", "check", "batch", "record", "finish", "erase", "write"}, job : 0 .. MaxDeletes,
     todo : SUBSET Users, batch : SUBSET Users, known : SUBSET Users,
     rows : [Users -> Messages], result : Results]

JobType == [state : {"none", "queued", "acked"}, rows : [Users -> Messages]]

\* No message is a row with another status than "none", and no row one with it.
Shaped(m) == \A u \in Users : m[u].status = "none" => m[u] = NoRow

Asked(j) == jobs[j].state # "none"

WorkerInv(w) ==
    /\ Shaped(run[w].rows)
    /\ run[w].pc = "idle" => run[w] = Idle
    /\ run[w].pc = "check" => run[w].batch = {}
    /\ run[w].pc = "batch" => Cardinality(run[w].batch) <= BatchSize
    /\ run[w].pc = "batch" => run[w].batch \cap run[w].todo = {}
    /\ run[w].pc = "record" =>
          /\ run[w].batch \cap run[w].todo = {}
          /\ \A u \in run[w].batch : run[w].rows[u].status \in {"SENT", "FAILED"}
    /\ Deleting(w) =>
          /\ run[w].job \in Jobs /\ jobs[run[w].job].state = "queued"
          /\ \A u \in run[w].todo \cup run[w].batch : run[w].rows[u] # NoRow

LocalsInv ==
    /\ run \in [Workers -> Locals] /\ jobs \in [Jobs -> JobType]
    /\ Shaped(rows) /\ \A j \in Jobs : Shaped(jobs[j].rows)
    /\ \A w \in Workers : WorkerInv(w)
    /\ \A v, w \in Workers : Deleting(v) /\ Deleting(w) /\ run[v].job = run[w].job => v = w

\* What was begun when: the sending before the deletions, and all of it before the row goes.
StageInv ==
    /\ status = "NONE" <=> send = "none"
    /\ send \in {"none", "committed"} => deliveries = 0 /\ \A j \in Jobs : ~Asked(j)
    /\ deliveries = 0 =>
          /\ status # "COMPLETED" /\ rows = NoRows /\ success = 0 /\ failed = 0
          /\ \A u \in Users : chat[u] = {} /\ given[u] = 0
          /\ \A w \in Workers : ~Sending(w)
    /\ cancel => Exists
    /\ status = "GONE" => /\ send = "acked" /\ rows = NoRows
                          /\ \A w \in Workers : run[w] = Idle
                          /\ \A j \in Jobs : jobs[j].state # "queued"

\* A delivery sends each user at most one message.
Owing(w, u) ==
    Sending(w) /\ (u \in run[w].todo \/ (run[w].pc = "batch" /\ u \in run[w].batch))

Owers(u) == {w \in Workers : Owing(w, u)}

GivenInv ==
    \A u \in Users : IsFiniteSet(Owers(u)) /\ given[u] + Cardinality(Owers(u)) <= deliveries

\* While no delivery overtakes another there is one sender; a task that is done has none.
SenderInv ==
    Spared({"late"}) =>
        /\ \A v, w \in Workers : Sending(v) /\ Sending(w) => v = w
        /\ send = "acked" => \A w \in Workers : ~Sending(w)

\* While the task runs once, its sender knows every recipient.
KnownInv ==
    Once =>
        /\ deliveries <= 1
        /\ deliveries = 1 /\ send # "acked" => \E w \in Workers : Sending(w)
        /\ \A w \in Workers : Sending(w) =>
              run[w].todo \cup run[w].batch \subseteq run[w].known
              /\ run[w].known = Recipients(rows)

\* A deletion that does not overlap the sending starts when it is over.
OverInv ==
    Spared({"overlap"}) => \A j \in Jobs : Asked(j) => send = "acked"

Calm == Once /\ Spared({"overlap"}) /\ Exists

\* What the sender has in hand is in no chat, or in the chat and with the sender; all else
\* that is in a chat is in its row.
InHand(w, u) == Sending(w) /\ run[w].pc # "finish" /\ u \in run[w].todo \cup run[w].batch

Unsent(u) == rows[u].status = "PENDING" /\ chat[u] = {}

Spot(u) ==
    /\ \A w \in Workers : InHand(w, u) =>
         IF run[w].pc = "record" /\ u \in run[w].batch
         THEN /\ rows[u].status = "PENDING"
              /\ chat[u] = IF run[w].rows[u].status = "SENT" THEN {run[w].rows[u].id} ELSE {}
         ELSE Unsent(u)
    /\ (\A w \in Workers : ~InHand(w, u)) /\ chat[u] # {}
         => rows[u].status = "SENT" /\ chat[u] = {rows[u].id}
    /\ \A w \in Workers : Sending(w) /\ run[w].pc # "finish" /\ rows[u].status = "PENDING"
         => u \in run[w].todo \cup run[w].batch

SpotInv == Calm => \A u \in Users : Spot(u)

\* A deletion carries what the row says of a message that is in a chat, and of any other
\* whether it was sent.
Class(s) == IF s = "DELETED" THEN "SENT" ELSE s

Carries(m) == \A u \in Users :
    /\ chat[u] # {} => m[u] = rows[u]
    /\ Class(m[u].status) = Class(rows[u].status)

CarryInv ==
    Calm =>
        /\ \A j \in Jobs : jobs[j].state = "queued" => Carries(jobs[j].rows)
        /\ \A w \in Workers : Deleting(w) => Carries(run[w].rows)

\* What a deletion has been through is in no chat.
ClearedInv ==
    Calm /\ Spared({"refuse"}) =>
        /\ \A w \in Workers : Deleting(w) => \A u \in Users : chat[u] # {} => u \in run[w].todo
        /\ status = "DELETED" => \A u \in Users : chat[u] = {}
        /\ status = "DELETED" => send = "acked"

SentRows   == {u \in Users : rows[u].status \in {"SENT", "DELETED"}}
FailedRows == {u \in Users : rows[u].status = "FAILED"}

AllTreated(w) == run[w].pc = "finish" /\ run[w].result = "COMPLETED"

CountInv ==
    Calm =>
        /\ success = Cardinality(SentRows) /\ failed = Cardinality(FailedRows)
        /\ status = "COMPLETED" \/ (\E w \in Workers : AllTreated(w))
             => \A u \in Users : rows[u].status # "PENDING"

\* After a cancellation the sender does not take another batch.
StopInv ==
    Spared({"overlap", "late"}) =>
        IF "canceled" \in mishaps
        THEN /\ extra <= BatchSize
             /\ status = "CANCELED" \/ send = "acked"
             /\ \A w \in Workers : run[w].pc = "batch" => extra = 0
        ELSE extra = 0

BroadcastInv ==
    /\ BroadcastTypeOK /\ LocalsInv /\ StageInv /\ GivenInv /\ SenderInv /\ KnownInv /\ OverInv
    /\ SpotInv /\ CarryInv /\ ClearedInv /\ CountInv /\ TotalIsRecipients /\ StopInv

BroadcastTypes == BroadcastTypeOK /\ LocalsInv

-----------------------------------------------------------------------------
(* What each step does to the locals of its worker and to the tables.       *)

Others(w) == \A v \in Workers \ {w} : run'[v] = run[v]

Same(w) ==
    /\ run'[w].job = run[w].job /\ run'[w].known = run[w].known
    /\ run'[w].rows = run[w].rows

LEMMA RunType == ASSUME BroadcastTypes, NEW w \in Workers PROVE run[w] \in Locals
BY DEF BroadcastTypes, LocalsInv

LEMMA IdleType ==
    ASSUME BroadcastTypes
    PROVE  Idle \in Locals /\ NoRow \in Messages /\ NoRows \in [Users -> Messages]
<1>1. 0 \in 0 .. MaxDeliveries /\ 0 \in 0 .. MaxDeletes
  BY BroadcastAssumption
<1>2. NoRow \in Messages
  BY <1>1 DEF NoRow, Messages
<1> QED BY <1>1, <1>2 DEF Idle, Locals, NoRows, Results

\* The locals of one worker are replaced by others of their type.
LEMMA PutRun ==
    ASSUME BroadcastTypes, NEW w \in Workers, NEW l \in Locals, run' = [run EXCEPT ![w] = l]
    PROVE  run' \in [Workers -> Locals] /\ Others(w) /\ run'[w] = l
BY DEF BroadcastTypes, LocalsInv, Others

LEMMA BatchesType ==
    ASSUME NEW S \in SUBSET Users, S # {}, NEW b \in Batches(S)
    PROVE  b \subseteq S /\ IsFiniteSet(b) /\ Cardinality(b) \in Nat /\ Cardinality(b) <= BatchSize
<1>1. IsFiniteSet(S)
  BY BroadcastAssumption, FS_Subset
<1>2. Cardinality(S) \in Nat /\ BatchSize \in Nat
  BY <1>1, FS_CardinalityType, BroadcastAssumption
<1>3. /\ b \subseteq S
      /\ Cardinality(b) = IF Cardinality(S) < BatchSize THEN Cardinality(S) ELSE BatchSize
  BY DEF Batches, kSubset
<1>4. IsFiniteSet(b) /\ Cardinality(b) \in Nat
  BY <1>1, <1>3, FS_Subset, FS_CardinalityType
<1> QED BY <1>2, <1>3, <1>4

LEMMA SendCheckDoes ==
    ASSUME BroadcastTypes, NEW w \in Workers, SendCheck(w)
    PROVE  /\ run' \in [Workers -> Locals] /\ Others(w) /\ Same(w) /\ run[w].pc = "check"
           /\ \/ /\ run'[w].pc = "finish" /\ run'[w].batch = {} /\ run'[w].todo = run[w].todo
                 /\ \/ run'[w].result = "COMPLETED" /\ run[w].todo = {}
                    \/ run'[w].result = "CANCELED" /\ Stopped(w)
              \/ /\ run'[w].pc = "batch" /\ ~Stopped(w)
                 /\ run'[w].batch \subseteq run[w].todo
                 /\ run'[w].todo = run[w].todo \ run'[w].batch
                 /\ Cardinality(run'[w].batch) <= BatchSize
<1>0. run[w] \in Locals /\ run \in [Workers -> Locals] /\ run[w].pc = "check" /\ run[w].batch = {}
  BY RunType DEF BroadcastTypes, LocalsInv, WorkerInv, SendCheck
<1>1. CASE run[w].todo = {}
  <2> DEFINE l == [run[w] EXCEPT !.pc = "finish", !.result = "COMPLETED"]
  <2>1. run' = [run EXCEPT ![w] = l]
    BY <1>0, <1>1 DEF SendCheck
  <2>2. /\ l \in Locals /\ l.pc = "finish" /\ l.result = "COMPLETED" /\ l.batch = {}
        /\ l.todo = run[w].todo /\ l.job = run[w].job /\ l.known = run[w].known
        /\ l.rows = run[w].rows
    BY <1>0 DEF Locals, Results
  <2> HIDE DEF l
  <2> QED BY <1>0, <1>1, <2>1, <2>2, PutRun DEF Same
<1>2. CASE run[w].todo # {} /\ Stopped(w)
  <2> DEFINE l == [run[w] EXCEPT !.pc = "finish", !.result = "CANCELED"]
  <2>1. run' = [run EXCEPT ![w] = l]
    BY <1>0, <1>2 DEF SendCheck
  <2>2. /\ l \in Locals /\ l.pc = "finish" /\ l.result = "CANCELED" /\ l.batch = {}
        /\ l.todo = run[w].todo /\ l.job = run[w].job /\ l.known = run[w].known
        /\ l.rows = run[w].rows
    BY <1>0 DEF Locals, Results
  <2> HIDE DEF l
  <2> QED BY <1>0, <1>2, <2>1, <2>2, PutRun DEF Same
<1>3. CASE run[w].todo # {} /\ ~Stopped(w)
  <2>1. PICK b \in Batches(run[w].todo) :
           run' = [run EXCEPT ![w].pc = "batch", ![w].batch = b, ![w].todo = @ \ b]
    BY <1>3 DEF SendCheck
  <2> DEFINE l == [run[w] EXCEPT !.pc = "batch", !.batch = b, !.todo = @ \ b]
  <2>2. run[w].todo \subseteq Users
    BY <1>0 DEF Locals
  <2>3. b \subseteq run[w].todo /\ Cardinality(b) <= BatchSize
    BY <1>3, <2>2, BatchesType
  <2>4. run' = [run EXCEPT ![w] = l]
    BY <1>0, <2>1
  <2>5. /\ l \in Locals /\ l.pc = "batch" /\ l.batch = b
        /\ l.todo = run[w].todo \ b /\ l.job = run[w].job /\ l.known = run[w].known
        /\ l.rows = run[w].rows
    BY <1>0, <2>2, <2>3 DEF Locals
  <2> HIDE DEF l
  <2> QED BY <1>0, <1>3, <2>3, <2>4, <2>5, PutRun DEF Same
<1> QED BY <1>1, <1>2, <1>3

LEMMA SendBeginDoes ==
    ASSUME BroadcastTypes, NEW w \in Workers, SendBegin(w)
    PROVE  /\ run' \in [Workers -> Locals] /\ Others(w) /\ run[w] = Idle
           /\ run'[w].batch = {} /\ run'[w].rows = NoRows /\ run'[w].result = "COMPLETED"
           /\ \E a \in SUBSET Users :
                 /\ run'[w].todo = a
                 /\ IF a = {}
                    THEN /\ run'[w].pc = "finish" /\ run'[w].known = {}
                         /\ rows' = rows /\ total' = total
                    ELSE /\ run'[w].pc = "check" /\ Initialize(a)
                         /\ run'[w].known = IF Recipients(rows) # {} THEN Recipients(rows) ELSE a
<1>0. /\ run \in [Workers -> Locals] /\ run[w] = Idle /\ Idle \in Locals
      /\ Recipients(rows) \subseteq Users
  BY RunType, IdleType DEF BroadcastTypes, LocalsInv, WorkerInv, SendBegin, Recipients
<1>1. PICK a \in SUBSET Users :
        IF a = {}
        THEN /\ run' = [run EXCEPT ![w] = [Idle EXCEPT !.pc = "finish"]]
             /\ UNCHANGED <<rows, total>>
        ELSE /\ Initialize(a)
             /\ run' = [run EXCEPT ![w] = [Idle EXCEPT !.pc = "check", !.todo = a,
                            !.known = IF Recipients(rows) # {} THEN Recipients(rows) ELSE a]]
  BY DEF SendBegin
<1>2. CASE a = {}
  <2> DEFINE l == [Idle EXCEPT !.pc = "finish"]
  <2>1. /\ l \in Locals /\ l.pc = "finish" /\ l.todo = {} /\ l.batch = {} /\ l.rows = NoRows
        /\ l.result = "COMPLETED" /\ l.known = {}
    BY <1>0 DEF Locals, Idle
  <2>2. run' = [run EXCEPT ![w] = l] /\ rows' = rows /\ total' = total
    BY <1>1, <1>2
  <2> HIDE DEF l
  <2> QED BY <1>0, <1>2, <2>1, <2>2, PutRun
<1>3. CASE a # {}
  <2> DEFINE k == IF Recipients(rows) # {} THEN Recipients(rows) ELSE a
             l == [Idle EXCEPT !.pc = "check", !.todo = a, !.known = k]
  <2>1. k \in SUBSET Users
    BY <1>0
  <2>2. run' = [run EXCEPT ![w] = l] /\ Initialize(a)
    BY <1>1, <1>3
  <2> HIDE DEF k
  <2>3. /\ l \in Locals /\ l.pc = "check" /\ l.todo = a /\ l.batch = {} /\ l.rows = NoRows
        /\ l.result = "COMPLETED" /\ l.known = k
    BY <1>0, <2>1 DEF Locals, Idle
  <2> HIDE DEF l
  <2>4. run' \in [Workers -> Locals] /\ Others(w) /\ run'[w] = l
    BY <2>2, <2>3, PutRun
  <2> QED BY <1>0, <1>3, <2>2, <2>3, <2>4 DEF k
<1> QED BY <1>2, <1>3

\* What a batch gives the users of it.
Sent(w, lost) ==
    /\ \A u \in run[w].batch \ lost :
          /\ given'[u] = given[u] + 1 /\ chat'[u] = chat[u] \cup {given[u] + 1}
          /\ run'[w].rows[u].status = "SENT" /\ run'[w].rows[u].id = given[u] + 1
    /\ \A u \in lost :
          /\ given'[u] = given[u] /\ chat'[u] = chat[u]
          /\ run'[w].rows[u].status = "FAILED"
    /\ \A u \in Users \ run[w].batch :
          given'[u] = given[u] /\ chat'[u] = chat[u] /\ run'[w].rows[u] = NoRow

LEMMA SendBatchDoes ==
    ASSUME BroadcastTypes, GivenInv, NEW w \in Workers, SendBatch(w)
    PROVE  /\ run' \in [Workers -> Locals] /\ Others(w) /\ run[w].pc = "batch"
           /\ run'[w].pc = "record" /\ run'[w].todo = run[w].todo
           /\ run'[w].batch = run[w].batch /\ run'[w].known = run[w].known
           /\ \A u \in run[w].batch : given[u] + 1 \in 0 .. MaxDeliveries
           /\ given' = [u \in Users |-> given'[u]] /\ chat' = [u \in Users |-> chat'[u]]
           /\ \E lost \in SUBSET run[w].batch :
                 /\ FaultIf("send", lost) /\ Sent(w, lost)
                 /\ extra' = IF "canceled" \in mishaps
                             THEN extra + Cardinality(run[w].batch \ lost) ELSE extra
<1>0. /\ run \in [Workers -> Locals] /\ run[w] \in Locals /\ run[w].pc = "batch"
      /\ NoRow \in Messages /\ run[w].batch \subseteq Users
  BY RunType, IdleType DEF BroadcastTypes, LocalsInv, SendBatch, Locals
<1>1. PICK lost \in SUBSET run[w].batch :
        /\ FaultIf("send", lost)
        /\ LET got == run[w].batch \ lost
           IN /\ given' = [u \in Users |-> IF u \in got THEN given[u] + 1 ELSE given[u]]
              /\ chat' = [u \in Users |-> IF u \in got THEN chat[u] \cup {given[u] + 1}
                                          ELSE chat[u]]
              /\ extra' = IF "canceled" \in mishaps THEN extra + Cardinality(got) ELSE extra
              /\ run' = [run EXCEPT ![w].pc = "record",
                             ![w].rows = [u \in Users |->
                                 IF u \in got THEN [status |-> "SENT", id |-> given[u] + 1]
                                 ELSE IF u \in lost THEN [status |-> "FAILED", id |-> 0]
                                 ELSE NoRow]]
  BY DEF SendBatch
<1>2. \A u \in run[w].batch : given[u] + 1 \in 0 .. MaxDeliveries
  <2> TAKE u \in run[w].batch
  <2>1. w \in Owers(u)
    BY <1>0 DEF Owers, Owing, Sending
  <2>2. IsFiniteSet(Owers(u)) /\ given[u] + Cardinality(Owers(u)) <= deliveries
    BY <1>0 DEF GivenInv
  <2>3. Cardinality(Owers(u)) \in Nat /\ Cardinality(Owers(u)) # 0
    BY <2>1, <2>2, FS_CardinalityType, FS_EmptySet
  <2> QED BY <1>0, <2>2, <2>3, BroadcastAssumption DEF BroadcastTypes, BroadcastTypeOK
<1> DEFINE got == run[w].batch \ lost
           m == [u \in Users |-> IF u \in got THEN [status |-> "SENT", id |-> given[u] + 1]
                                 ELSE IF u \in lost THEN [status |-> "FAILED", id |-> 0]
                                 ELSE NoRow]
           l == [run[w] EXCEPT !.pc = "record", !.rows = m]
<1>3. m \in [Users -> Messages]
  <2> SUFFICES ASSUME NEW u \in Users
               PROVE  m[u] \in Messages
    OBVIOUS
  <2>1. CASE u \in got
    BY <1>2, <2>1 DEF Messages
  <2>2. CASE u \in lost
    BY <2>2, BroadcastAssumption DEF Messages
  <2>3. CASE u \notin got /\ u \notin lost
    BY <1>0, <2>3
  <2> QED BY <2>1, <2>2, <2>3
<1>4. run' = [run EXCEPT ![w] = l]
  BY <1>0, <1>1
<1>5. Sent(w, lost) /\ given' = [u \in Users |-> given'[u]] /\ chat' = [u \in Users |-> chat'[u]]
  BY <1>0, <1>1 DEF Sent
<1> HIDE DEF m
<1>6. /\ l \in Locals /\ l.pc = "record" /\ l.todo = run[w].todo /\ l.batch = run[w].batch
      /\ l.known = run[w].known
  BY <1>0, <1>3 DEF Locals
<1> HIDE DEF l
<1>7. run' \in [Workers -> Locals] /\ Others(w) /\ run'[w] = l
  BY <1>4, <1>6, PutRun
<1> QED BY <1>0, <1>1, <1>2, <1>5, <1>6, <1>7

LEMMA SendRecordDoes ==
    ASSUME BroadcastTypes, NEW w \in Workers, SendRecord(w)
    PROVE  /\ run' \in [Workers -> Locals] /\ Others(w) /\ run[w].pc = "record"
           /\ run'[w].todo = run[w].todo /\ run'[w].known = run[w].known
           /\ \/ /\ run[w].batch \subseteq run[w].known
                 /\ BulkUpdate(run[w].batch, run[w].rows) /\ CountBatch(w)
                 /\ run'[w].pc = "check" /\ run'[w].batch = {} /\ run'[w].rows = NoRows
                 /\ run'[w].result = run[w].result
              \/ /\ ~(run[w].batch \subseteq run[w].known)
                 /\ run'[w].pc = "finish" /\ run'[w].result = "ERROR"
                 /\ run'[w].batch = run[w].batch /\ run'[w].rows = run[w].rows
                 /\ UNCHANGED <<rows, success, failed>>
<1>0. /\ run[w] \in Locals /\ run \in [Workers -> Locals] /\ run[w].pc = "record"
      /\ NoRows \in [Users -> Messages]
  BY RunType, IdleType DEF BroadcastTypes, LocalsInv, SendRecord
<1>1. CASE run[w].batch \subseteq run[w].known
  <2> DEFINE l == [run[w] EXCEPT !.pc = "check", !.batch = {}, !.rows = NoRows]
  <2>1. run' = [run EXCEPT ![w] = l] /\ BulkUpdate(run[w].batch, run[w].rows) /\ CountBatch(w)
    BY <1>0, <1>1 DEF SendRecord
  <2>2. /\ l \in Locals /\ l.pc = "check" /\ l.batch = {} /\ l.rows = NoRows
        /\ l.todo = run[w].todo /\ l.known = run[w].known /\ l.result = run[w].result
    BY <1>0 DEF Locals
  <2> HIDE DEF l
  <2> QED BY <1>0, <1>1, <2>1, <2>2, PutRun
<1>2. CASE ~(run[w].batch \subseteq run[w].known)
  <2> DEFINE l == [run[w] EXCEPT !.pc = "finish", !.result = "ERROR"]
  <2>1. run' = [run EXCEPT ![w] = l] /\ UNCHANGED <<rows, success, failed>>
    BY <1>0, <1>2 DEF SendRecord
  <2>2. /\ l \in Locals /\ l.pc = "finish" /\ l.result = "ERROR" /\ l.batch = run[w].batch
        /\ l.todo = run[w].todo /\ l.known = run[w].known /\ l.rows = run[w].rows
    BY <1>0 DEF Locals, Results
  <2> HIDE DEF l
  <2> QED BY <1>0, <1>2, <2>1, <2>2, PutRun
<1> QED BY <1>1, <1>2

LEMMA DeleteBeginDoes ==
    ASSUME BroadcastTypes, NEW w \in Workers, DeleteBegin(w)
    PROVE  /\ run' \in [Workers -> Locals] /\ Others(w) /\ run[w] = Idle
           /\ run'[w].pc = "erase" /\ run'[w].batch = {} /\ run'[w].result = "COMPLETED"
           /\ \E j \in Jobs :
                 /\ jobs[j].state = "queued" /\ run'[w].job = j
                 /\ run'[w].todo = Recipients(jobs[j].rows) /\ run'[w].rows = jobs[j].rows
<1>0. run \in [Workers -> Locals] /\ run[w] = Idle /\ Idle \in Locals
  BY RunType, IdleType DEF BroadcastTypes, LocalsInv, WorkerInv, DeleteBegin
<1>1. PICK j \in Jobs :
        /\ jobs[j].state = "queued"
        /\ run' = [run EXCEPT ![w] = [Idle EXCEPT !.pc = "erase", !.job = j,
                       !.todo = Recipients(jobs[j].rows), !.rows = jobs[j].rows]]
  BY DEF DeleteBegin
<1>2. /\ jobs[j].rows \in [Users -> Messages] /\ Recipients(jobs[j].rows) \subseteq Users
      /\ j \in 0 .. MaxDeletes
  BY BroadcastAssumption DEF BroadcastTypes, LocalsInv, JobType, Recipients, Jobs
<1> DEFINE l == [Idle EXCEPT !.pc = "erase", !.job = j, !.todo = Recipients(jobs[j].rows),
                             !.rows = jobs[j].rows]
<1>3. run' = [run EXCEPT ![w] = l]
  BY <1>1
<1>4. /\ l \in Locals /\ l.pc = "erase" /\ l.batch = {} /\ l.result = "COMPLETED" /\ l.job = j
      /\ l.todo = Recipients(jobs[j].rows) /\ l.rows = jobs[j].rows
  BY <1>0, <1>2 DEF Locals, Idle
<1> HIDE DEF l
<1> QED BY <1>0, <1>1, <1>3, <1>4, PutRun

\* What a batch of a deletion takes out of the chats.
Taken(w, gone) ==
    /\ \A u \in gone :
          /\ chat'[u] = chat[u] \ {run[w].rows[u].id}
          /\ run'[w].rows[u].status = "DELETED"
    /\ \A u \in Users \ gone : chat'[u] = chat[u] /\ run'[w].rows[u] = run[w].rows[u]

LEMMA DeleteBatchDoes ==
    ASSUME BroadcastTypes, NEW w \in Workers, DeleteBatch(w)
    PROVE  /\ run' \in [Workers -> Locals] /\ Others(w) /\ run[w].pc = "erase"
           /\ run'[w].pc = "write" /\ run'[w].job = run[w].job
           /\ run'[w].result = run[w].result
           /\ run'[w].todo = run[w].todo \ run'[w].batch /\ run'[w].batch \subseteq run[w].todo
           /\ chat' = [u \in Users |-> chat'[u]]
           /\ \E refused \in SUBSET run'[w].batch :
                 /\ FaultIf("refuse", refused)
                 /\ Taken(w, {u \in run'[w].batch : /\ run[w].rows[u].status = "SENT"
                                                    /\ run[w].rows[u].id \in chat[u]} \ refused)
<1>0. /\ run[w] \in Locals /\ run \in [Workers -> Locals] /\ run[w].pc = "erase"
      /\ run[w].rows \in [Users -> Messages] /\ run[w].todo \subseteq Users /\ run[w].todo # {}
  BY RunType DEF BroadcastTypes, LocalsInv, DeleteBatch, Locals
<1>1. PICK b \in Batches(run[w].todo) :
        LET asked == {u \in b : Erasable(w, u) /\ run[w].rows[u].id \in chat[u]}
        IN \E refused \in SUBSET asked :
            /\ FaultIf("refuse", refused)
            /\ chat' = [u \in Users |-> IF u \in asked \ refused
                                        THEN chat[u] \ {run[w].rows[u].id} ELSE chat[u]]
            /\ run' = [run EXCEPT ![w].pc = "write", ![w].batch = b, ![w].todo = @ \ b,
                           ![w].rows = [u \in Users |->
                               IF u \in asked \ refused
                               THEN [run[w].rows[u] EXCEPT !.status = "DELETED"]
                               ELSE run[w].rows[u]]]
  BY DEF DeleteBatch
<1> DEFINE asked == {u \in b : Erasable(w, u) /\ run[w].rows[u].id \in chat[u]}
<1>2. PICK refused \in SUBSET asked :
            /\ FaultIf("refuse", refused)
            /\ chat' = [u \in Users |-> IF u \in asked \ refused
                                        THEN chat[u] \ {run[w].rows[u].id} ELSE chat[u]]
            /\ run' = [run EXCEPT ![w].pc = "write", ![w].batch = b, ![w].todo = @ \ b,
                           ![w].rows = [u \in Users |->
                               IF u \in asked \ refused
                               THEN [run[w].rows[u] EXCEPT !.status = "DELETED"]
                               ELSE run[w].rows[u]]]
  BY <1>1
<1>3. b \subseteq run[w].todo
  BY <1>0, BatchesType
<1> DEFINE gone == asked \ refused
           m == [u \in Users |-> IF u \in gone THEN [run[w].rows[u] EXCEPT !.status = "DELETED"]
                                 ELSE run[w].rows[u]]
           l == [run[w] EXCEPT !.pc = "write", !.batch = b, !.todo = @ \ b, !.rows = m]
<1>4. m \in [Users -> Messages]
  <2> SUFFICES ASSUME NEW u \in Users
               PROVE  m[u] \in Messages
    OBVIOUS
  <2> QED BY <1>0 DEF Messages
<1>5. run' = [run EXCEPT ![w] = l]
  BY <1>0, <1>2
<1>6. \A u \in Users : m[u] = IF u \in gone THEN [run[w].rows[u] EXCEPT !.status = "DELETED"]
                              ELSE run[w].rows[u]
  OBVIOUS
<1>7. \A u \in gone : m[u].status = "DELETED"
  BY <1>0, <1>3, <1>6 DEF Messages
<1> HIDE DEF m
<1>8. /\ l \in Locals /\ l.pc = "write" /\ l.todo = run[w].todo \ b /\ l.batch = b
      /\ l.job = run[w].job /\ l.rows = m /\ l.result = run[w].result
  BY <1>0, <1>3, <1>4 DEF Locals
<1> HIDE DEF l
<1>9. run' \in [Workers -> Locals] /\ Others(w) /\ run'[w] = l
  BY <1>5, <1>8, PutRun
<1>10. gone \subseteq Users
  BY <1>0, <1>3
<1>11. Taken(w, gone)
  BY <1>2, <1>6, <1>7, <1>8, <1>9, <1>10 DEF Taken
<1>12. asked = {u \in run'[w].batch : /\ run[w].rows[u].status = "SENT"
                                      /\ run[w].rows[u].id \in chat[u]}
  BY <1>8, <1>9 DEF Erasable
<1>13. chat' = [u \in Users |-> chat'[u]]
  BY <1>2
<1> HIDE DEF asked
<1> QED BY <1>0, <1>2, <1>3, <1>8, <1>9, <1>11, <1>12, <1>13

LEMMA DeleteWriteDoes ==
    ASSUME BroadcastTypes, NEW w \in Workers, DeleteWrite(w)
    PROVE  /\ run' \in [Workers -> Locals] /\ Others(w) /\ run[w].pc = "write"
           /\ run'[w].pc = "erase" /\ run'[w].batch = {} /\ run'[w].job = run[w].job
           /\ run'[w].todo = run[w].todo /\ run'[w].rows = run[w].rows
           /\ run'[w].result = run[w].result
<1>0. run[w] \in Locals /\ run \in [Workers -> Locals] /\ run[w].pc = "write"
  BY RunType DEF BroadcastTypes, LocalsInv, DeleteWrite
<1> DEFINE l == [run[w] EXCEPT !.pc = "erase", !.batch = {}]
<1>1. run' = [run EXCEPT ![w] = l]
  BY <1>0 DEF DeleteWrite
<1>2. /\ l \in Locals /\ l.pc = "erase" /\ l.batch = {} /\ l.job = run[w].job
      /\ l.todo = run[w].todo /\ l.rows = run[w].rows /\ l.result = run[w].result
  BY <1>0 DEF Locals
<1> HIDE DEF l
<1> QED BY <1>0, <1>1, <1>2, PutRun

\* A worker that is done, or dead, has nothing in hand.
LEMMA LeaveDoes ==
    ASSUME BroadcastTypes, NEW w \in Workers, run' = [run EXCEPT ![w] = Idle]
    PROVE  /\ run' \in [Workers -> Locals] /\ Others(w) /\ run'[w] = Idle
           /\ run'[w].pc = "idle" /\ run'[w].todo = {} /\ run'[w].batch = {}
           /\ run'[w].rows = NoRows
BY IdleType, PutRun DEF Idle

-----------------------------------------------------------------------------
(* Types.                                                                   *)

\* The locals of the other workers stay as they should be while their jobs do.
LEMMA OtherWorkers ==
    ASSUME BroadcastTypes, NEW w \in Workers, Others(w), run' \in [Workers -> Locals],
           \A v \in Workers \ {w} : Deleting(v) => jobs'[run[v].job].state = "queued",
           WorkerInv(w)'
    PROVE  \A v \in Workers : WorkerInv(v)'
<1> SUFFICES ASSUME NEW v \in Workers, v # w
             PROVE  WorkerInv(v)'
  OBVIOUS
<1>1. run'[v] = run[v] /\ WorkerInv(v)
  BY DEF Others, BroadcastTypes, LocalsInv
<1>2. Deleting(v)' <=> Deleting(v)
  BY <1>1 DEF Deleting
<1>3. Deleting(v) => jobs'[run[v].job].state = "queued"
  OBVIOUS
<1> QED BY <1>1, <1>2, <1>3 DEF WorkerInv

LEMMA OneEach ==
    ASSUME BroadcastTypes, NEW w \in Workers, Others(w),
           Deleting(w)' => Deleting(w) /\ run'[w].job = run[w].job
    PROVE  (\A v, x \in Workers : Deleting(v) /\ Deleting(x) /\ run[v].job = run[x].job => v = x)'
<1>1. \A v \in Workers : Deleting(v)' => Deleting(v) /\ run'[v].job = run[v].job
  BY DEF Others, Deleting
<1> QED BY <1>1 DEF BroadcastTypes, LocalsInv

LEMMA LocalsInTables ==
    ASSUME run' \in [Workers -> Locals]
    PROVE  \A w \in Workers : /\ run'[w].todo \cup run'[w].batch \cup run'[w].known \subseteq Users
                              /\ run'[w].rows \in [Users -> Messages]
BY DEF Locals

\* What a bulk update writes is typed as what it was given.
LEMMA BulkUpdateType ==
    ASSUME rows \in [Users -> Messages], Shaped(rows), NEW m \in [Users -> Messages], Shaped(m),
           NEW S, BulkUpdate(S, m)
    PROVE  rows' \in [Users -> Messages] /\ Shaped(rows)'
<1>1. \A u \in Users : rows'[u] = rows[u] \/ rows'[u] = m[u]
  BY DEF BulkUpdate
<1>2. rows' \in [Users -> Messages]
  BY DEF BulkUpdate
<1> QED BY <1>1, <1>2 DEF Shaped

LEMMA InitializeType ==
    ASSUME BroadcastTypes, NEW a \in SUBSET Users, Initialize(a)
    PROVE  rows' \in [Users -> Messages] /\ Shaped(rows)' /\ total' \in Nat
<1>1. rows \in [Users -> Messages] /\ Shaped(rows) /\ total \in Nat
  BY DEF BroadcastTypes, BroadcastTypeOK, LocalsInv
<1>2. CASE Recipients(rows) # {}
  BY <1>1, <1>2 DEF Initialize, Shaped
<1>3. CASE Recipients(rows) = {}
  <2>1. [status |-> "PENDING", id |-> 0] \in Messages /\ NoRow \in Messages
    BY IdleType, BroadcastAssumption DEF Messages
  <2>2. rows' = [u \in Users |-> IF u \in a THEN [status |-> "PENDING", id |-> 0] ELSE NoRow]
    BY <1>3 DEF Initialize
  <2>3. IsFiniteSet(a) /\ total' = Cardinality(a)
    BY <1>3, BroadcastAssumption, FS_Subset DEF Initialize
  <2>4. rows' \in [Users -> Messages]
    BY <2>1, <2>2
  <2>5. \A u \in Users : rows'[u] = NoRow \/ rows'[u] = [status |-> "PENDING", id |-> 0]
    BY <2>2
  <2>6. Shaped(rows)'
    BY <2>5 DEF Shaped
  <2> QED BY <2>3, <2>4, <2>6, FS_CardinalityType
<1> QED BY <1>2, <1>3

LEMMA Bounds ==
    MaxDeliveries \in Nat /\ MaxDeletes \in Nat /\ MaxFaults \in Nat /\ BatchSize \in Nat
BY BroadcastAssumption

LEMMA SubsetCount ==
    ASSUME NEW S \in SUBSET Users
    PROVE  IsFiniteSet(S) /\ Cardinality(S) \in Nat
BY BroadcastAssumption, FS_Subset, FS_CardinalityType

\* Whatever an operator commands.
LEMMA CommandsType ==
    ASSUME BroadcastTypes,
           StartBroadcast \/ Dispatch \/ CancelBroadcast \/ CancelCommit \/ DeleteBroadcast
              \/ ClearOldBroadcasts
    PROVE  BroadcastTypes'
<1>0. Cardinality(Users) \in Nat /\ MaxFaults \in Nat
  BY BroadcastAssumption, FS_CardinalityType
<1>1. CASE StartBroadcast
  <2>1. total' \in Nat
    BY <1>0, <1>1 DEF StartBroadcast
  <2>2. BroadcastTypeOK'
    BY <1>1, <2>1 DEF StartBroadcast, BroadcastTypes, BroadcastTypeOK, Statuses, telegram,
       history, Jobs
  <2>3. LocalsInv'
    BY <1>1 DEF StartBroadcast, BroadcastTypes, LocalsInv, WorkerInv, Shaped, Deleting
  <2> QED BY <2>2, <2>3 DEF BroadcastTypes
<1>2. CASE Dispatch
  <2>1. faults' \in 0 .. MaxFaults
    BY <1>0, <1>2 DEF Dispatch, Fault, BroadcastTypes, BroadcastTypeOK, history
  <2>2. BroadcastTypeOK'
    BY <1>2, <2>1 DEF Dispatch, BroadcastTypes, BroadcastTypeOK, Fault, telegram, counters, history
  <2>3. LocalsInv'
    BY <1>2 DEF Dispatch, BroadcastTypes, LocalsInv, WorkerInv, Shaped, Deleting
  <2> QED BY <2>2, <2>3 DEF BroadcastTypes
<1>3. CASE CancelBroadcast
  BY <1>3 DEF CancelBroadcast, BroadcastTypes, BroadcastTypeOK, LocalsInv, WorkerInv, Shaped,
     Deleting,
              counters, telegram, queue, history
<1>4. CASE CancelCommit
  <2>1. status' \in Statuses
    BY <1>4 DEF CancelCommit, SetStatus, BroadcastTypes, BroadcastTypeOK, Statuses
  <2> QED BY <1>4, <2>1 DEF CancelCommit, BroadcastTypes, BroadcastTypeOK, LocalsInv, WorkerInv,
             Shaped,
                            Deleting, counters, telegram, queue
<1>5. CASE DeleteBroadcast
  <2>1. PICK j \in Jobs : /\ jobs[j].state = "none"
                          /\ jobs' = [jobs EXCEPT ![j] = [state |-> "queued", rows |-> rows]]
    BY <1>5 DEF DeleteBroadcast
  <2>2. rows \in [Users -> Messages] /\ jobs \in [Jobs -> JobType] /\ Shaped(rows)
    BY DEF BroadcastTypes, BroadcastTypeOK, LocalsInv
  <2>3. jobs' \in [Jobs -> JobType]
    BY <2>1, <2>2 DEF JobType
  <2>4. /\ \A k \in Jobs : k # j => jobs'[k] = jobs[k]
        /\ jobs'[j].state = "queued" /\ jobs'[j].rows = rows
    BY <2>1, <2>2
  <2>5. BroadcastTypeOK'
    BY <1>5, <2>3 DEF DeleteBroadcast, BroadcastTypes, BroadcastTypeOK, JobType, counters, telegram
  <2>6. /\ run' = run /\ rows' = rows
        /\ \A k \in Jobs : jobs[k].state = "queued" => jobs'[k].state = "queued"
    BY <1>5, <2>4 DEF DeleteBroadcast
  <2>7. \A w \in Workers : WorkerInv(w)'
    BY <2>6 DEF BroadcastTypes, LocalsInv, WorkerInv, Deleting
  <2>8. (\A k \in Jobs : Shaped(jobs[k].rows))' /\ Shaped(rows)'
    BY <2>4, <2>6 DEF BroadcastTypes, LocalsInv, Shaped
  <2>9. LocalsInv'
    BY <2>3, <2>6, <2>7, <2>8 DEF BroadcastTypes, LocalsInv, Deleting
  <2> QED BY <2>5, <2>9 DEF BroadcastTypes
<1>6. CASE ClearOldBroadcasts
  <2>1. rows' = NoRows /\ rows' \in [Users -> Messages] /\ Shaped(rows)'
    BY <1>6, IdleType DEF ClearOldBroadcasts, Shaped, NoRows
  <2>2. BroadcastTypeOK'
    BY <1>6, <2>1 DEF ClearOldBroadcasts, BroadcastTypes, BroadcastTypeOK, Statuses, counters,
       telegram,
                      queue, history
  <2>3. LocalsInv'
    BY <1>6, <2>1 DEF ClearOldBroadcasts, BroadcastTypes, LocalsInv, WorkerInv, Deleting, Shaped,
       queue
  <2> QED BY <2>2, <2>3 DEF BroadcastTypes
<1> QED BY <1>1, <1>2, <1>3, <1>4, <1>5, <1>6

\* Whatever a sender does.
LEMMA SendingType ==
    ASSUME BroadcastTypes, GivenInv, NEW w \in Workers, SendBegin(w) \/ SendStep(w)
    PROVE  BroadcastTypes'
<1> USE BroadcastAssumption
<1>0. /\ WorkerInv(w) /\ run[w] \in Locals /\ Shaped(NoRows) /\ NoRows \in [Users -> Messages]
      /\ Shaped(rows) /\ rows \in [Users -> Messages] /\ run[w].rows \in [Users -> Messages]
      /\ \A j \in Jobs : Shaped(jobs[j].rows)
      /\ run[w].batch \subseteq Users /\ run[w].todo \subseteq Users
      /\ success \in Nat /\ failed \in Nat /\ extra \in Nat
  BY RunType, IdleType DEF BroadcastTypes, LocalsInv, Shaped, NoRows, BroadcastTypeOK, Locals
<1>1. CASE SendBegin(w)
  <2>1. /\ run' \in [Workers -> Locals] /\ Others(w) /\ run[w] = Idle
        /\ run'[w].batch = {} /\ run'[w].rows = NoRows /\ run'[w].pc \in {"finish", "check"}
    BY <1>1, SendBeginDoes
  <2>2. rows' \in [Users -> Messages] /\ Shaped(rows)' /\ total' \in Nat
    <3>1. PICK a \in SUBSET Users :
            IF a = {} THEN rows' = rows /\ total' = total ELSE Initialize(a)
      BY <1>1, SendBeginDoes
    <3>2. CASE a = {}
      BY <1>0, <3>1, <3>2 DEF BroadcastTypes, BroadcastTypeOK, Shaped
    <3> QED BY <3>1, <3>2, InitializeType
  <2>3. jobs' = jobs
    BY <1>1 DEF SendBegin
  <2>4. WorkerInv(w)'
    BY <1>0, <2>1 DEF WorkerInv, Deleting, Shaped
  <2>5. \A v \in Workers : WorkerInv(v)'
    BY <2>1, <2>3, <2>4, OtherWorkers DEF BroadcastTypes, LocalsInv, WorkerInv
  <2>6. LocalsInv'
    <3>1. (\A v, x \in Workers : Deleting(v) /\ Deleting(x) /\ run[v].job = run[x].job => v = x)'
      BY <2>1, OneEach DEF Deleting
    <3> QED BY <1>0, <2>1, <2>2, <2>3, <2>5, <3>1 DEF BroadcastTypes, LocalsInv
  <2>7. deliveries' \in 0 .. MaxDeliveries /\ faults' \in 0 .. MaxFaults
    <3>1. deliveries \in 0 .. MaxDeliveries /\ faults \in 0 .. MaxFaults
      BY DEF BroadcastTypes, BroadcastTypeOK
    <3>2. deliveries < MaxDeliveries /\ deliveries' = deliveries + 1
      BY <1>1 DEF SendBegin
    <3>3. faults' = faults \/ (faults < MaxFaults /\ faults' = faults + 1)
      BY <1>1 DEF SendBegin, Fault
    <3> QED BY <3>1, <3>2, <3>3, Bounds
  <2>8. BroadcastTypeOK'
    BY <1>1, <2>1, <2>2, <2>3, <2>7, LocalsInTables
    DEF SendBegin, BroadcastTypes, BroadcastTypeOK, telegram
  <2> QED BY <2>6, <2>8 DEF BroadcastTypes
<1>2. CASE SendCheck(w)
  <2>1. /\ run' \in [Workers -> Locals] /\ Others(w) /\ run[w].pc = "check"
        /\ run'[w].rows = run[w].rows
        /\ \/ run'[w].pc = "finish"
           \/ /\ run'[w].pc = "batch" /\ run'[w].todo = run[w].todo \ run'[w].batch
              /\ Cardinality(run'[w].batch) <= BatchSize
    BY <1>2, SendCheckDoes DEF Same
  <2>2. UNCHANGED <<status, counters, rows, telegram, queue, cancel, history>>
    BY <1>2 DEF SendCheck
  <2>3. WorkerInv(w)'
    BY <1>0, <2>1 DEF WorkerInv, Deleting, Shaped
  <2>4. \A v \in Workers : WorkerInv(v)'
    BY <2>1, <2>2, <2>3, OtherWorkers DEF BroadcastTypes, LocalsInv, WorkerInv, queue
  <2>5. (\A v, x \in Workers : Deleting(v) /\ Deleting(x) /\ run[v].job = run[x].job => v = x)'
    BY <2>1, OneEach DEF Deleting
  <2>6. LocalsInv'
    BY <2>1, <2>2, <2>4, <2>5 DEF BroadcastTypes, LocalsInv, Shaped, queue
  <2>7. BroadcastTypeOK'
    BY <2>1, <2>2, LocalsInTables DEF BroadcastTypes, BroadcastTypeOK, counters, telegram, queue,
       history
  <2> QED BY <2>6, <2>7 DEF BroadcastTypes
<1>3. CASE SendBatch(w)
  <2>1. /\ run' \in [Workers -> Locals] /\ Others(w) /\ run[w].pc = "batch"
        /\ run'[w].pc = "record" /\ run'[w].todo = run[w].todo /\ run'[w].batch = run[w].batch
        /\ \A u \in run[w].batch : given[u] + 1 \in 0 .. MaxDeliveries
        /\ given' = [u \in Users |-> given'[u]] /\ chat' = [u \in Users |-> chat'[u]]
    BY <1>3, SendBatchDoes
  <2>2. PICK lost \in SUBSET run[w].batch :
          /\ FaultIf("send", lost) /\ Sent(w, lost)
          /\ extra' = IF "canceled" \in mishaps
                      THEN extra + Cardinality(run[w].batch \ lost) ELSE extra
    BY <1>3, SendBatchDoes
  <2>3. UNCHANGED <<status, counters, rows, queue, cancel>>
    BY <1>3 DEF SendBatch
  <2>4. extra' \in Nat
    BY <1>0, <2>2, SubsetCount
  <2>5. faults' \in 0 .. MaxFaults
    BY <2>2 DEF FaultIf, Fault, history, BroadcastTypes, BroadcastTypeOK
  <2>6. /\ \A u \in Users :
              run'[w].rows[u] = NoRow \/ run'[w].rows[u].status \in {"SENT", "FAILED"}
        /\ \A u \in run[w].batch : run'[w].rows[u].status \in {"SENT", "FAILED"}
    <3>1. \A u \in run[w].batch \ lost : run'[w].rows[u].status = "SENT"
      BY <2>2 DEF Sent
    <3>2. \A u \in lost : run'[w].rows[u].status = "FAILED"
      BY <2>2 DEF Sent
    <3>3. \A u \in Users \ run[w].batch : run'[w].rows[u] = NoRow
      BY <2>2 DEF Sent
    <3> QED BY <3>1, <3>2, <3>3
  <2>7. WorkerInv(w)'
    BY <1>0, <2>1, <2>6 DEF WorkerInv, Deleting, Shaped
  <2>8. \A v \in Workers : WorkerInv(v)'
    BY <2>1, <2>3, <2>7, OtherWorkers DEF BroadcastTypes, LocalsInv, WorkerInv, queue
  <2>9. (\A v, x \in Workers : Deleting(v) /\ Deleting(x) /\ run[v].job = run[x].job => v = x)'
    BY <2>1, OneEach DEF Deleting
  <2>10. LocalsInv'
    BY <2>1, <2>3, <2>8, <2>9 DEF BroadcastTypes, LocalsInv, Shaped, queue
  <2>11. /\ given' \in [Users -> 0 .. MaxDeliveries]
         /\ \A u \in Users : chat'[u] \subseteq 1 .. given'[u]
    <3>1. \A u \in Users : given[u] \in 0 .. MaxDeliveries /\ chat[u] \subseteq 1 .. given[u]
      BY DEF BroadcastTypes, BroadcastTypeOK
    <3>2. \A u \in Users : given'[u] \in 0 .. MaxDeliveries /\ chat'[u] \subseteq 1 .. given'[u]
      <4> TAKE u \in Users
      <4>1. CASE u \in run[w].batch \ lost
        <5>1. given'[u] = given[u] + 1 /\ chat'[u] = chat[u] \cup {given[u] + 1}
          BY <2>2, <4>1 DEF Sent
        <5>2. given[u] \in Nat /\ chat[u] \subseteq 1 .. given[u]
          BY <3>1, Bounds
        <5>3. \A i \in chat'[u] : i \in 1 .. given'[u]
          BY <5>1, <5>2
        <5> QED BY <2>1, <4>1, <5>1, <5>3
      <4>2. CASE u \notin run[w].batch \ lost
        BY <1>0, <2>2, <3>1, <4>2 DEF Sent
      <4> QED BY <4>1, <4>2
    <3> QED BY <2>1, <3>2
  <2>12. BroadcastTypeOK'
    BY <2>1, <2>3, <2>4, <2>5, <2>11, LocalsInTables
    DEF BroadcastTypes, BroadcastTypeOK, counters, queue
  <2> QED BY <2>10, <2>12 DEF BroadcastTypes
<1>4. CASE SendRecord(w)
  <2>1. /\ run' \in [Workers -> Locals] /\ Others(w) /\ run[w].pc = "record"
        /\ \/ /\ BulkUpdate(run[w].batch, run[w].rows) /\ CountBatch(w)
              /\ run'[w].pc = "check" /\ run'[w].batch = {} /\ run'[w].rows = NoRows
           \/ /\ run'[w].pc = "finish" /\ run'[w].rows = run[w].rows
              /\ UNCHANGED <<rows, success, failed>>
    BY <1>4, SendRecordDoes
  <2>2. UNCHANGED <<status, total, telegram, queue, cancel, history>>
    BY <1>4 DEF SendRecord
  <2>3. rows' \in [Users -> Messages] /\ Shaped(rows)'
    <3>1. Shaped(run[w].rows)
      BY <1>0 DEF WorkerInv
    <3>2. CASE BulkUpdate(run[w].batch, run[w].rows)
      BY <1>0, <3>1, <3>2, BulkUpdateType
    <3>3. CASE UNCHANGED <<rows, success, failed>>
      BY <1>0, <3>3 DEF Shaped
    <3> QED BY <2>1, <3>2, <3>3
  <2>4. success' \in Nat /\ failed' \in Nat
    <3> DEFINE sent == {u \in run[w].batch : run[w].rows[u].status = "SENT"}
    <3>1. Cardinality(sent) \in Nat /\ Cardinality(run[w].batch \ sent) \in Nat
      BY <1>0, SubsetCount
    <3>2. CASE CountBatch(w)
      <4>1. /\ success' = success + Cardinality(sent)
            /\ failed' = failed + Cardinality(run[w].batch \ sent)
        BY <3>2 DEF CountBatch
      <4> QED BY <1>0, <3>1, <4>1
    <3> QED BY <1>0, <2>1, <3>2
  <2>5. WorkerInv(w)'
    BY <1>0, <2>1 DEF WorkerInv, Deleting, Shaped
  <2>6. \A v \in Workers : WorkerInv(v)'
    BY <2>1, <2>2, <2>5, OtherWorkers DEF BroadcastTypes, LocalsInv, WorkerInv, queue
  <2>7. (\A v, x \in Workers : Deleting(v) /\ Deleting(x) /\ run[v].job = run[x].job => v = x)'
    BY <2>1, OneEach DEF Deleting
  <2>8. LocalsInv'
    BY <2>1, <2>2, <2>3, <2>6, <2>7 DEF BroadcastTypes, LocalsInv, Shaped, queue
  <2>9. BroadcastTypeOK'
    BY <2>1, <2>2, <2>3, <2>4, LocalsInTables
    DEF BroadcastTypes, BroadcastTypeOK, telegram, queue, history
  <2> QED BY <2>8, <2>9 DEF BroadcastTypes
<1>5. CASE SendFinish(w)
  <2>1. /\ run' \in [Workers -> Locals] /\ Others(w) /\ run'[w] = Idle /\ run'[w].pc = "idle"
        /\ run'[w].rows = NoRows /\ run[w].result \in Results
    BY <1>0, <1>5, LeaveDoes DEF SendFinish, Locals
  <2>2. status' \in Statuses /\ send' = "acked"
    BY <1>5, <2>1 DEF SendFinish, SetStatus, Ack, BroadcastTypes, BroadcastTypeOK, Results,
       Statuses
  <2>3. UNCHANGED <<counters, rows, telegram, deliveries, jobs, cancel, history>>
    BY <1>5 DEF SendFinish
  <2>4. WorkerInv(w)'
    BY <1>0, <2>1 DEF WorkerInv, Deleting, Shaped
  <2>5. \A v \in Workers : WorkerInv(v)'
    BY <2>1, <2>3, <2>4, OtherWorkers DEF BroadcastTypes, LocalsInv, WorkerInv
  <2>6. (\A v, x \in Workers : Deleting(v) /\ Deleting(x) /\ run[v].job = run[x].job => v = x)'
    BY <2>1, OneEach DEF Deleting
  <2>7. LocalsInv'
    BY <2>1, <2>3, <2>5, <2>6 DEF BroadcastTypes, LocalsInv, Shaped
  <2>8. BroadcastTypeOK'
    BY <2>1, <2>2, <2>3, LocalsInTables DEF BroadcastTypes, BroadcastTypeOK, counters, telegram,
       history
  <2> QED BY <2>7, <2>8 DEF BroadcastTypes
<1> QED BY <1>1, <1>2, <1>3, <1>4, <1>5 DEF SendStep

\* Whatever a deletion does.
LEMMA DeletingType ==
    ASSUME BroadcastTypes, NEW w \in Workers, DeleteBegin(w) \/ DeleteStep(w)
    PROVE  BroadcastTypes'
<1>0. /\ WorkerInv(w) /\ run[w] \in Locals /\ Shaped(NoRows) /\ NoRows \in [Users -> Messages]
      /\ Shaped(rows) /\ rows \in [Users -> Messages] /\ run[w].rows \in [Users -> Messages]
      /\ \A j \in Jobs : Shaped(jobs[j].rows)
      /\ run[w].batch \subseteq Users /\ run[w].todo \subseteq Users
      /\ \A u \in Users : chat[u] \subseteq 1 .. given[u]
  BY RunType, IdleType DEF BroadcastTypes, LocalsInv, Shaped, NoRows, BroadcastTypeOK, Locals
<1>1. CASE DeleteBegin(w)
  <2>1. /\ run' \in [Workers -> Locals] /\ Others(w) /\ run[w] = Idle
        /\ run'[w].pc = "erase" /\ run'[w].batch = {}
    BY <1>1, DeleteBeginDoes
  <2>2. PICK j \in Jobs :
           /\ jobs[j].state = "queued" /\ \A v \in Workers : ~(Deleting(v) /\ run[v].job = j)
           /\ run'[w].job = j
           /\ run'[w].todo = Recipients(jobs[j].rows) /\ run'[w].rows = jobs[j].rows
    <3>1. PICK j \in Jobs :
            /\ jobs[j].state = "queued" /\ \A v \in Workers : ~(Deleting(v) /\ run[v].job = j)
            /\ run' = [run EXCEPT ![w] = [Idle EXCEPT !.pc = "erase", !.job = j,
                           !.todo = Recipients(jobs[j].rows), !.rows = jobs[j].rows]]
      BY <1>1 DEF DeleteBegin
    <3>2. run'[w] = [Idle EXCEPT !.pc = "erase", !.job = j,
                           !.todo = Recipients(jobs[j].rows), !.rows = jobs[j].rows]
      BY <3>1 DEF BroadcastTypes, LocalsInv
    <3> DEFINE l == [Idle EXCEPT !.pc = "erase", !.job = j, !.todo = Recipients(jobs[j].rows),
                                 !.rows = jobs[j].rows]
    <3>3. l.job = j /\ l.todo = Recipients(jobs[j].rows) /\ l.rows = jobs[j].rows
      BY DEF Idle
    <3> QED BY <3>1, <3>2, <3>3
  <2>3. UNCHANGED <<status, counters, rows, telegram, queue, cancel, history>>
    BY <1>1 DEF DeleteBegin
  <2>4. WorkerInv(w)'
    <3>1. Shaped(run[w].rows)'
      BY <1>0, <2>2 DEF Shaped
    <3>2. \A u \in Recipients(jobs[j].rows) : jobs[j].rows[u] # NoRow
      BY DEF Recipients
    <3>3. jobs'[j].state = "queued"
      BY <2>2, <2>3 DEF queue
    <3> QED BY <2>1, <2>2, <3>1, <3>2, <3>3 DEF WorkerInv
  <2>5. \A v \in Workers : WorkerInv(v)'
    BY <2>1, <2>3, <2>4, OtherWorkers DEF BroadcastTypes, LocalsInv, WorkerInv, queue
  <2>6. (\A v, x \in Workers : Deleting(v) /\ Deleting(x) /\ run[v].job = run[x].job => v = x)'
    <3>1. \A v \in Workers : v # w /\ Deleting(v)' => Deleting(v) /\ run'[v].job = run[v].job
      BY <2>1 DEF Others, Deleting
    <3> QED BY <2>2, <3>1 DEF BroadcastTypes, LocalsInv
  <2>7. LocalsInv'
    BY <2>1, <2>3, <2>5, <2>6 DEF BroadcastTypes, LocalsInv, Shaped, queue
  <2>8. BroadcastTypeOK'
    BY <2>1, <2>3, LocalsInTables DEF BroadcastTypes, BroadcastTypeOK, counters, telegram, queue,
       history
  <2> QED BY <2>7, <2>8 DEF BroadcastTypes
<1>2. CASE DeleteBatch(w)
  <2>1. /\ run' \in [Workers -> Locals] /\ Others(w) /\ run[w].pc = "erase"
        /\ run'[w].pc = "write" /\ run'[w].job = run[w].job
        /\ run'[w].todo = run[w].todo \ run'[w].batch /\ run'[w].batch \subseteq run[w].todo
        /\ chat' = [u \in Users |-> chat'[u]]
    BY <1>2, DeleteBatchDoes
  <2>2. PICK refused \in SUBSET run'[w].batch :
          /\ FaultIf("refuse", refused)
          /\ Taken(w, {u \in run'[w].batch : /\ run[w].rows[u].status = "SENT"
                                             /\ run[w].rows[u].id \in chat[u]} \ refused)
    BY <1>2, DeleteBatchDoes
  <2>3. UNCHANGED <<status, counters, rows, given, extra, queue, cancel>>
    BY <1>2 DEF DeleteBatch
  <2> DEFINE gone == {u \in run'[w].batch : /\ run[w].rows[u].status = "SENT"
                                            /\ run[w].rows[u].id \in chat[u]} \ refused
  <2>4. Taken(w, gone) /\ gone \subseteq Users
    BY <1>0, <2>1, <2>2
  <2> HIDE DEF gone
  <2>5. \A u \in Users : chat'[u] \subseteq chat[u]
    BY <2>4 DEF Taken
  <2>6. /\ \A u \in gone : run'[w].rows[u].status = "DELETED"
        /\ \A u \in Users \ gone : run'[w].rows[u] = run[w].rows[u]
    BY <2>4 DEF Taken
  <2>7. faults' \in 0 .. MaxFaults
    BY <2>2, Bounds DEF FaultIf, Fault, history, BroadcastTypes, BroadcastTypeOK
  <2>8. WorkerInv(w)'
    <3>1. Shaped(run[w].rows) /\ Deleting(w)
      BY <1>0, <2>1 DEF WorkerInv, Deleting
    <3>2. Shaped(run[w].rows)'
      BY <2>4, <2>6, <3>1 DEF Shaped
    <3>3. \A u \in run'[w].todo \cup run'[w].batch : run'[w].rows[u] # NoRow
      BY <1>0, <2>1, <2>6, <3>1 DEF WorkerInv, NoRow
    <3>4. run'[w].job \in Jobs /\ jobs'[run'[w].job].state = "queued"
      BY <1>0, <2>1, <2>3, <3>1 DEF WorkerInv, queue
    <3> QED BY <2>1, <3>2, <3>3, <3>4 DEF WorkerInv
  <2>9. \A v \in Workers : WorkerInv(v)'
    BY <2>1, <2>3, <2>8, OtherWorkers DEF BroadcastTypes, LocalsInv, WorkerInv, queue
  <2>10. (\A v, x \in Workers : Deleting(v) /\ Deleting(x) /\ run[v].job = run[x].job => v = x)'
    BY <2>1, OneEach DEF Deleting
  <2>11. LocalsInv'
    BY <2>1, <2>3, <2>9, <2>10 DEF BroadcastTypes, LocalsInv, Shaped, queue
  <2>12. \A u \in Users : chat'[u] \subseteq 1 .. given'[u]
    BY <1>0, <2>3, <2>5
  <2>13. BroadcastTypeOK'
    BY <2>1, <2>3, <2>7, <2>12, LocalsInTables DEF BroadcastTypes, BroadcastTypeOK, counters, queue
  <2> QED BY <2>11, <2>13 DEF BroadcastTypes
<1>3. CASE DeleteWrite(w)
  <2>1. /\ run' \in [Workers -> Locals] /\ Others(w) /\ run[w].pc = "write"
        /\ run'[w].pc = "erase" /\ run'[w].batch = {} /\ run'[w].job = run[w].job
        /\ run'[w].todo = run[w].todo /\ run'[w].rows = run[w].rows
    BY <1>3, DeleteWriteDoes
  <2>2. /\ UNCHANGED <<status, counters, telegram, queue, cancel, history>>
        /\ BulkUpdate(run[w].batch, run[w].rows)
    BY <1>3 DEF DeleteWrite
  <2>3. rows' \in [Users -> Messages] /\ Shaped(rows)'
    BY <1>0, <2>2, BulkUpdateType DEF WorkerInv
  <2>4. WorkerInv(w)'
    BY <1>0, <2>1, <2>2 DEF WorkerInv, Deleting, Shaped, queue
  <2>5. \A v \in Workers : WorkerInv(v)'
    BY <2>1, <2>2, <2>4, OtherWorkers DEF BroadcastTypes, LocalsInv, WorkerInv, queue
  <2>6. (\A v, x \in Workers : Deleting(v) /\ Deleting(x) /\ run[v].job = run[x].job => v = x)'
    BY <2>1, OneEach DEF Deleting
  <2>7. LocalsInv'
    BY <2>1, <2>2, <2>3, <2>5, <2>6 DEF BroadcastTypes, LocalsInv, Shaped, queue
  <2>8. BroadcastTypeOK'
    BY <2>1, <2>2, <2>3, LocalsInTables DEF BroadcastTypes, BroadcastTypeOK, counters, telegram,
       queue, history
  <2> QED BY <2>7, <2>8 DEF BroadcastTypes
<1>4. CASE DeleteFinish(w)
  <2>1. /\ run' \in [Workers -> Locals] /\ Others(w) /\ run'[w] = Idle /\ run'[w].pc = "idle"
        /\ run'[w].rows = NoRows
    BY <1>4, LeaveDoes DEF DeleteFinish
  <2>2. status' \in Statuses
    BY <1>4 DEF DeleteFinish, SetStatus, BroadcastTypes, BroadcastTypeOK, Statuses
  <2>3. /\ UNCHANGED <<counters, rows, telegram, send, deliveries, cancel, history>>
        /\ jobs' = [jobs EXCEPT ![run[w].job].state = "acked"]
    BY <1>4 DEF DeleteFinish
  <2>4. run[w].job \in Jobs /\ jobs \in [Jobs -> JobType] /\ Deleting(w)
    BY <1>0, <1>4 DEF BroadcastTypes, LocalsInv, WorkerInv, DeleteFinish, Deleting
  <2>5. /\ jobs' \in [Jobs -> JobType]
        /\ \A j \in Jobs : jobs'[j].rows = jobs[j].rows
        /\ \A j \in Jobs : j # run[w].job => jobs'[j] = jobs[j]
    BY <2>3, <2>4 DEF JobType
  <2>6. WorkerInv(w)'
    BY <1>0, <2>1 DEF WorkerInv, Deleting, Shaped
  <2>7. \A v \in Workers \ {w} : Deleting(v) => jobs'[run[v].job].state = "queued"
    BY <2>4, <2>5 DEF BroadcastTypes, LocalsInv, WorkerInv
  <2>8. \A v \in Workers : WorkerInv(v)'
    BY <2>1, <2>6, <2>7, OtherWorkers
  <2>9. (\A v, x \in Workers : Deleting(v) /\ Deleting(x) /\ run[v].job = run[x].job => v = x)'
    BY <2>1, OneEach DEF Deleting
  <2>10. LocalsInv'
    BY <1>0, <2>1, <2>3, <2>5, <2>8, <2>9 DEF LocalsInv, Shaped
  <2>11. BroadcastTypeOK'
    BY <2>1, <2>2, <2>3, <2>5, LocalsInTables
    DEF BroadcastTypes, BroadcastTypeOK, counters, telegram, history, JobType
  <2> QED BY <2>10, <2>11 DEF BroadcastTypes
<1> QED BY <1>1, <1>2, <1>3, <1>4 DEF DeleteStep

LEMMA CrashType ==
    ASSUME BroadcastTypes, NEW w \in Workers, Crash(w)
    PROVE  BroadcastTypes'
<1>1. /\ run' \in [Workers -> Locals] /\ Others(w) /\ run'[w] = Idle /\ run'[w].pc = "idle"
      /\ run'[w].rows = NoRows
  BY LeaveDoes DEF Crash
<1>2. faults' \in 0 .. MaxFaults
  BY Bounds DEF Crash, Fault, BroadcastTypes, BroadcastTypeOK
<1>3. UNCHANGED <<status, counters, rows, telegram, queue, cancel>>
  BY DEF Crash
<1>4. WorkerInv(w)'
  BY <1>1 DEF WorkerInv, Deleting, Shaped, NoRows
<1>5. \A v \in Workers : WorkerInv(v)'
  BY <1>1, <1>3, <1>4, OtherWorkers DEF BroadcastTypes, LocalsInv, WorkerInv, queue
<1>6. (\A v, x \in Workers : Deleting(v) /\ Deleting(x) /\ run[v].job = run[x].job => v = x)'
  BY <1>1, OneEach DEF Deleting
<1>7. LocalsInv'
  BY <1>1, <1>3, <1>5, <1>6 DEF BroadcastTypes, LocalsInv, Shaped, queue
<1>8. BroadcastTypeOK'
  BY <1>1, <1>2, <1>3, LocalsInTables DEF BroadcastTypes, BroadcastTypeOK, counters, telegram,
     queue
<1> QED BY <1>7, <1>8 DEF BroadcastTypes

LEMMA TypeStep ==
    ASSUME BroadcastTypes, GivenInv, [BroadcastNext]_broadcastVars
    PROVE  BroadcastTypes'
<1>1. CASE BroadcastNext
  BY <1>1, CommandsType, SendingType, DeletingType, CrashType DEF BroadcastNext
<1>2. CASE UNCHANGED broadcastVars
  BY <1>2 DEF broadcastVars, BroadcastTypes, BroadcastTypeOK, LocalsInv, WorkerInv, Deleting,
     Shaped
<1> QED BY <1>1, <1>2

-----------------------------------------------------------------------------
(* Stages: the sending before the deletions, and all of it before the row   *)
(* goes.                                                                    *)

\* Only a delivery makes a sender, and only a delivery of a deletion a deleter.
LEMMA SendersStep ==
    ASSUME BroadcastTypes, GivenInv, NEW w \in Workers,
           SendStep(w) \/ DeleteBegin(w) \/ DeleteStep(w) \/ Crash(w)
    PROVE  Others(w) /\ \A v \in Workers : Sending(v)' => Sending(v)
<1>1. CASE SendCheck(w)
  BY <1>1, SendCheckDoes DEF Others, Sending
<1>2. CASE SendBatch(w)
  BY <1>2, SendBatchDoes DEF Others, Sending
<1>3. CASE SendRecord(w)
  BY <1>3, SendRecordDoes DEF Others, Sending
<1>4. CASE SendFinish(w) \/ DeleteFinish(w) \/ Crash(w)
  BY <1>4, LeaveDoes DEF Others, Sending, SendFinish, DeleteFinish, Crash
<1>5. CASE DeleteBegin(w)
  BY <1>5, DeleteBeginDoes DEF Others, Sending
<1>6. CASE DeleteBatch(w)
  BY <1>6, DeleteBatchDoes DEF Others, Sending
<1>7. CASE DeleteWrite(w)
  BY <1>7, DeleteWriteDoes DEF Others, Sending
<1> QED BY <1>1, <1>2, <1>3, <1>4, <1>5, <1>6, <1>7 DEF SendStep, DeleteStep

LEMMA DeletersStep ==
    ASSUME BroadcastTypes, GivenInv, NEW w \in Workers,
           SendBegin(w) \/ SendStep(w) \/ DeleteStep(w) \/ Crash(w)
    PROVE  Others(w) /\ \A v \in Workers : Deleting(v)' => Deleting(v) /\ run'[v].job = run[v].job
<1>1. CASE SendBegin(w)
  BY <1>1, SendBeginDoes DEF Others, Deleting
<1>2. CASE SendCheck(w)
  BY <1>2, SendCheckDoes DEF Others, Deleting
<1>3. CASE SendBatch(w)
  BY <1>3, SendBatchDoes DEF Others, Deleting
<1>4. CASE SendRecord(w)
  BY <1>4, SendRecordDoes DEF Others, Deleting
<1>5. CASE SendFinish(w) \/ DeleteFinish(w) \/ Crash(w)
  BY <1>5, LeaveDoes DEF Others, Deleting, SendFinish, DeleteFinish, Crash
<1>6. CASE DeleteBatch(w)
  BY <1>6, DeleteBatchDoes DEF Others, Deleting
<1>7. CASE DeleteWrite(w)
  BY <1>7, DeleteWriteDoes DEF Others, Deleting
<1> QED BY <1>1, <1>2, <1>3, <1>4, <1>5, <1>6, <1>7 DEF SendStep, DeleteStep

\* A deletion that runs was asked for; a row that is gone has none, and no sender.
LEMMA Underway ==
    ASSUME BroadcastTypes, StageInv, NEW w \in Workers
    PROVE  /\ Deleting(w) => Asked(run[w].job) /\ run[w].job \in Jobs
           /\ Deleting(w) => send \in {"queued", "acked"} /\ Exists
           /\ Sending(w) => deliveries # 0 /\ send \in {"queued", "acked"} /\ Exists
<1>1. Deleting(w) => Asked(run[w].job) /\ run[w].job \in Jobs
  BY DEF BroadcastTypes, LocalsInv, WorkerInv, Asked
<1>2. Sending(w) => deliveries # 0
  BY DEF StageInv
<1>3. Deleting(w) \/ Sending(w) => send \in {"queued", "acked"}
  BY <1>1, <1>2 DEF StageInv, BroadcastTypes, BroadcastTypeOK
<1>4. Deleting(w) \/ Sending(w) => Exists
  <2>1. Deleting(w) \/ Sending(w) => run[w] # Idle
    BY DEF Deleting, Sending, Idle
  <2> QED BY <1>3, <2>1 DEF StageInv, Exists
<1> QED BY <1>1, <1>2, <1>3, <1>4

LEMMA StageCommands ==
    ASSUME BroadcastTypes, StageInv,
           StartBroadcast \/ Dispatch \/ CancelBroadcast \/ CancelCommit \/ DeleteBroadcast
              \/ ClearOldBroadcasts
    PROVE  StageInv'
<1>1. CASE StartBroadcast
  BY <1>1 DEF StartBroadcast, StageInv, Sending, Asked, Exists, telegram
<1>2. CASE Dispatch
  BY <1>2 DEF Dispatch, StageInv, Sending, Asked, Exists, telegram, counters
<1>3. CASE CancelBroadcast
  BY <1>3 DEF CancelBroadcast, StageInv, Sending, Asked, Exists, telegram, counters, queue
<1>4. CASE CancelCommit
  BY <1>4 DEF CancelCommit, SetStatus, StageInv, Sending, Asked, Exists, telegram, counters, queue
<1>5. CASE DeleteBroadcast
  <2>1. status' = status /\ send' = send /\ send \notin {"none", "committed"} /\ Exists
    BY <1>5 DEF DeleteBroadcast, StageInv, Exists
  <2> QED BY <1>5, <2>1 DEF DeleteBroadcast, StageInv, Sending, Exists, telegram, counters
<1>6. CASE ClearOldBroadcasts
  BY <1>6 DEF ClearOldBroadcasts, StageInv, Sending, Asked, Exists, telegram, counters, queue
<1> QED BY <1>1, <1>2, <1>3, <1>4, <1>5, <1>6

LEMMA StageSending ==
    ASSUME BroadcastTypes, GivenInv, StageInv, NEW w \in Workers, SendBegin(w) \/ SendStep(w)
    PROVE  StageInv'
<1>1. CASE SendBegin(w)
  <2>1. /\ send = "queued" /\ send' = send /\ deliveries' # 0 /\ status' = status
        /\ cancel' = cancel /\ status \notin {"NONE", "GONE"}
    <3>1. deliveries \in 0 .. MaxDeliveries
      BY DEF BroadcastTypes, BroadcastTypeOK
    <3>2. deliveries' # 0
      <4>1. deliveries' = deliveries + 1
        BY <1>1 DEF SendBegin
      <4> QED BY <3>1, <4>1, Bounds
    <3>3. send = "queued" /\ send' = send /\ status' = status /\ cancel' = cancel
      BY <1>1 DEF SendBegin
    <3> QED BY <3>2, <3>3 DEF StageInv
  <2> QED BY <2>1 DEF StageInv, Exists
<1>2. CASE SendStep(w)
  <2>1. Sending(w)
    BY <1>2 DEF SendStep, SendCheck, SendBatch, SendRecord, SendFinish, Sending
  <2>2. deliveries # 0 /\ send \in {"queued", "acked"} /\ Exists
    BY <2>1, Underway
  <2>3. deliveries' = deliveries /\ send' \in {"queued", "acked"}
    BY <1>2, <2>2
    DEF SendStep, SendCheck, SendBatch, SendRecord, SendFinish, Ack, telegram, queue, counters,
        history
  <2>4. cancel' = cancel /\ (status' = status \/ status' \in Results)
    BY <1>2, <2>2, RunType
    DEF SendStep, SendCheck, SendBatch, SendRecord, SendFinish, SetStatus, Locals
  <2> QED BY <2>2, <2>3, <2>4 DEF StageInv, Exists, Results
<1> QED BY <1>1, <1>2

LEMMA StageDeleting ==
    ASSUME BroadcastTypes, GivenInv, StageInv, NEW w \in Workers,
           DeleteBegin(w) \/ DeleteStep(w) \/ Crash(w)
    PROVE  StageInv'
<1>1. /\ deliveries' = deliveries /\ send' = send /\ cancel' = cancel
      /\ success' = success /\ failed' = failed /\ given' = given
  BY DEF DeleteBegin, DeleteStep, DeleteBatch, DeleteWrite, DeleteFinish, Crash, telegram, queue,
         counters, history
<1>2. Exists /\ (DeleteBegin(w) \/ DeleteStep(w) => send \in {"queued", "acked"})
  <2>1. CASE DeleteStep(w)
    BY <2>1, Underway DEF DeleteStep, DeleteBatch, DeleteWrite, DeleteFinish, Deleting
  <2>2. CASE DeleteBegin(w)
    <3>1. \E j \in Jobs : jobs[j].state = "queued"
      BY <2>2 DEF DeleteBegin
    <3> QED BY <3>1 DEF StageInv, BroadcastTypes, BroadcastTypeOK, Asked, Exists
  <2>3. CASE Crash(w)
    <3>1. run[w] # Idle
      BY <2>3 DEF Crash
    <3>2. Sending(w) \/ Deleting(w)
      BY <3>1, RunType DEF BroadcastTypes, LocalsInv, WorkerInv, Locals, Sending, Deleting
    <3> QED BY <3>2, Underway, <2>3
  <2> QED BY <2>1, <2>2, <2>3
<1>3. status' \in {status, "DELETED"}
  BY DEF DeleteBegin, DeleteStep, DeleteBatch, DeleteWrite, DeleteFinish, Crash, SetStatus
<1>4. \A v \in Workers : Sending(v)' => Sending(v)
  BY SendersStep
<1>5. rows = NoRows => rows' = NoRows
  BY DEF DeleteBegin, DeleteStep, DeleteBatch, DeleteWrite, DeleteFinish, Crash, BulkUpdate, NoRows
<1>6. \A u \in Users : chat'[u] \subseteq chat[u]
  <2>1. CASE DeleteBatch(w)
    BY <2>1, DeleteBatchDoes DEF Taken
  <2>2. CASE ~DeleteBatch(w)
    BY <2>2 DEF DeleteBegin, DeleteStep, DeleteWrite, DeleteFinish, Crash, telegram
  <2> QED BY <2>1, <2>2
<1>7. send \in {"none", "committed"} => \A j \in Jobs : ~Asked(j)'
  <2>1. send \in {"none", "committed"} => jobs' = jobs
    BY <1>2 DEF Crash, queue
  <2> QED BY <2>1 DEF StageInv, Asked
<1> QED BY <1>1, <1>2, <1>3, <1>4, <1>5, <1>6, <1>7 DEF StageInv, Exists

LEMMA StageStep ==
    ASSUME BroadcastTypes, GivenInv, StageInv, [BroadcastNext]_broadcastVars
    PROVE  StageInv'
<1>1. CASE BroadcastNext
  BY <1>1, StageCommands, StageSending, StageDeleting DEF BroadcastNext
<1>2. CASE UNCHANGED broadcastVars
  BY <1>2 DEF broadcastVars, StageInv, Sending, Asked, Exists
<1> QED BY <1>1, <1>2

-----------------------------------------------------------------------------
(* How many messages Telegram gave a user.                                  *)

LEMMA OneMore ==
    ASSUME NEW S, IsFiniteSet(S), NEW w, NEW T, T \subseteq S \cup {w}
    PROVE  /\ IsFiniteSet(T) /\ Cardinality(T) \in Nat /\ Cardinality(S) \in Nat
           /\ Cardinality(T) <= Cardinality(S) + 1
<1>1. /\ IsFiniteSet(S \cup {w}) /\ Cardinality(S) \in Nat
      /\ \/ Cardinality(S \cup {w}) = Cardinality(S)
         \/ Cardinality(S \cup {w}) = Cardinality(S) + 1
  BY FS_AddElement, FS_CardinalityType
<1>2. IsFiniteSet(T) /\ Cardinality(T) <= Cardinality(S \cup {w})
  BY <1>1, FS_Subset
<1>3. Cardinality(T) \in Nat /\ Cardinality(S) \in Nat /\ Cardinality(S \cup {w}) \in Nat
  BY <1>1, <1>2, FS_CardinalityType
<1> QED BY <1>1, <1>2, <1>3

LEMMA OneFewer ==
    ASSUME NEW S, IsFiniteSet(S), NEW w \in S, NEW T, T \subseteq S \ {w}
    PROVE  /\ IsFiniteSet(T) /\ Cardinality(T) \in Nat /\ Cardinality(S) \in Nat
           /\ Cardinality(T) + 1 <= Cardinality(S)
<1>1. IsFiniteSet(S \ {w}) /\ Cardinality(S \ {w}) = Cardinality(S) - 1
  BY FS_RemoveElement
<1>2. IsFiniteSet(T) /\ Cardinality(T) <= Cardinality(S \ {w})
  BY <1>1, FS_Subset
<1>3. Cardinality(T) \in Nat /\ Cardinality(S) \in Nat /\ Cardinality(S \ {w}) \in Nat
  BY <1>1, <1>2, FS_CardinalityType
<1> QED BY <1>1, <1>2, <1>3

LEMMA NoMore ==
    ASSUME NEW S, IsFiniteSet(S), NEW T, T \subseteq S
    PROVE  /\ IsFiniteSet(T) /\ Cardinality(T) \in Nat /\ Cardinality(S) \in Nat
           /\ Cardinality(T) <= Cardinality(S)
BY FS_Subset, FS_CardinalityType

LEMMA GivenTypes ==
    ASSUME BroadcastTypes
    PROVE  deliveries \in Nat /\ \A u \in Users : given[u] \in Nat
BY Bounds DEF BroadcastTypes, BroadcastTypeOK

\* Nobody is owed anything new.
LEMMA GivenKept ==
    ASSUME BroadcastTypes, GivenInv, NEW w \in Workers, Others(w), given' = given,
       deliveries' = deliveries,
           \A u \in Users : Owing(w, u)' => Owing(w, u)
    PROVE  GivenInv'
<1> SUFFICES ASSUME NEW u \in Users
             PROVE  /\ IsFiniteSet(Owers(u)')
                    /\ given'[u] + Cardinality(Owers(u)') <= deliveries'
  BY DEF GivenInv, Owers
<1>1. IsFiniteSet(Owers(u)) /\ given[u] + Cardinality(Owers(u)) <= deliveries
  BY DEF GivenInv
<1>2. Owers(u)' \subseteq Owers(u)
  BY DEF Owers, Owing, Sending, Others
<1>3. /\ IsFiniteSet(Owers(u)') /\ Cardinality(Owers(u)') \in Nat /\ Cardinality(Owers(u)) \in Nat
      /\ Cardinality(Owers(u)') <= Cardinality(Owers(u))
  BY <1>1, <1>2, NoMore
<1> QED BY <1>1, <1>3, GivenTypes

LEMMA GivenBegin ==
    ASSUME BroadcastTypes, GivenInv, NEW w \in Workers, SendBegin(w)
    PROVE  GivenInv'
<1> SUFFICES ASSUME NEW u \in Users
             PROVE  /\ IsFiniteSet(Owers(u)')
                    /\ given'[u] + Cardinality(Owers(u)') <= deliveries'
  BY DEF GivenInv, Owers
<1>1. IsFiniteSet(Owers(u)) /\ given[u] + Cardinality(Owers(u)) <= deliveries
  BY DEF GivenInv
<1>2. Others(w) /\ given' = given /\ deliveries' = deliveries + 1
  BY SendBeginDoes DEF SendBegin, telegram
<1>3. Owers(u)' \subseteq Owers(u) \cup {w}
  BY <1>2 DEF Owers, Owing, Sending, Others
<1>4. /\ IsFiniteSet(Owers(u)') /\ Cardinality(Owers(u)') \in Nat /\ Cardinality(Owers(u)) \in Nat
      /\ Cardinality(Owers(u)') <= Cardinality(Owers(u)) + 1
  BY <1>1, <1>3, OneMore
<1> QED BY <1>1, <1>2, <1>4, GivenTypes

LEMMA GivenBatch ==
    ASSUME BroadcastTypes, GivenInv, NEW w \in Workers, SendBatch(w)
    PROVE  GivenInv'
<1> SUFFICES ASSUME NEW u \in Users
             PROVE  /\ IsFiniteSet(Owers(u)')
                    /\ given'[u] + Cardinality(Owers(u)') <= deliveries'
  BY DEF GivenInv, Owers
<1>1. IsFiniteSet(Owers(u)) /\ given[u] + Cardinality(Owers(u)) <= deliveries
  BY DEF GivenInv
<1>2. /\ Others(w) /\ run[w].pc = "batch" /\ run'[w].pc = "record"
      /\ run'[w].todo = run[w].todo
  BY SendBatchDoes
<1>3. PICK lost \in SUBSET run[w].batch : Sent(w, lost)
  BY SendBatchDoes
<1>4. deliveries' = deliveries
  BY DEF SendBatch, queue
<1>5. Owers(u)' \subseteq Owers(u)
  BY <1>2 DEF Owers, Owing, Sending, Others
<1>6. CASE u \in run[w].batch \ lost
  <2>1. w \in Owers(u)
    BY <1>2, <1>6 DEF Owers, Owing, Sending
  <2>2. u \notin run[w].todo
    BY <1>2, <1>6 DEF BroadcastTypes, LocalsInv, WorkerInv
  <2>3. w \notin Owers(u)'
    BY <1>2, <2>2 DEF Owers, Owing
  <2>4. /\ IsFiniteSet(Owers(u)')
        /\ Cardinality(Owers(u)') \in Nat /\ Cardinality(Owers(u)) \in Nat
        /\ Cardinality(Owers(u)') + 1 <= Cardinality(Owers(u))
    BY <1>1, <1>5, <2>1, <2>3, OneFewer
  <2>5. given'[u] = given[u] + 1
    BY <1>3, <1>6 DEF Sent
  <2> QED BY <1>1, <1>4, <2>4, <2>5, GivenTypes
<1>7. CASE u \notin run[w].batch \ lost
  <2>1. given'[u] = given[u]
    BY <1>3, <1>7 DEF Sent
  <2>2. /\ IsFiniteSet(Owers(u)')
        /\ Cardinality(Owers(u)') \in Nat /\ Cardinality(Owers(u)) \in Nat
        /\ Cardinality(Owers(u)') <= Cardinality(Owers(u))
    BY <1>1, <1>5, NoMore
  <2> QED BY <1>1, <1>4, <2>1, <2>2, GivenTypes
<1> QED BY <1>6, <1>7

LEMMA GivenStep ==
    ASSUME BroadcastTypes, GivenInv, [BroadcastNext]_broadcastVars
    PROVE  GivenInv'
<1>1. CASE \/ StartBroadcast \/ Dispatch \/ CancelBroadcast \/ CancelCommit \/ DeleteBroadcast
           \/ ClearOldBroadcasts \/ UNCHANGED broadcastVars
  <2>1. run' = run /\ given' = given /\ deliveries' = deliveries
    BY <1>1 DEF StartBroadcast, Dispatch, CancelBroadcast, CancelCommit, DeleteBroadcast,
       ClearOldBroadcasts, broadcastVars, telegram, queue
  <2> QED BY <2>1 DEF GivenInv, Owers, Owing, Sending
<1>2. ASSUME NEW w \in Workers, SendBegin(w)
      PROVE  GivenInv'
  BY <1>2, GivenBegin
<1>3. ASSUME NEW w \in Workers, SendBatch(w)
      PROVE  GivenInv'
  BY <1>3, GivenBatch
<1>4. ASSUME NEW w \in Workers,
             \/ SendCheck(w) \/ SendRecord(w) \/ SendFinish(w) \/ DeleteBegin(w) \/ DeleteStep(w)
             \/ Crash(w)
      PROVE  GivenInv'
  <2>1. given' = given /\ deliveries' = deliveries
    BY <1>4 DEF SendCheck, SendRecord, SendFinish, DeleteBegin, DeleteStep, DeleteBatch,
       DeleteWrite,
       DeleteFinish, Crash, telegram, queue
  <2>2. Others(w) /\ (Sending(w)' => Sending(w))
    BY <1>4, SendersStep DEF SendStep
  <2>3. Sending(w)' => run'[w].todo \subseteq run[w].todo
    <3>1. CASE SendCheck(w)
      BY <3>1, SendCheckDoes
    <3>2. CASE SendRecord(w)
      BY <3>2, SendRecordDoes
    <3>3. CASE SendFinish(w) \/ DeleteFinish(w) \/ Crash(w)
      BY <3>3, LeaveDoes DEF Sending, SendFinish, DeleteFinish, Crash
    <3>4. CASE DeleteBegin(w)
      BY <3>4, DeleteBeginDoes DEF Sending
    <3>5. CASE DeleteBatch(w)
      BY <3>5, DeleteBatchDoes DEF Sending
    <3>6. CASE DeleteWrite(w)
      BY <3>6, DeleteWriteDoes DEF Sending
    <3> QED BY <1>4, <3>1, <3>2, <3>3, <3>4, <3>5, <3>6 DEF DeleteStep
  <2>4. run'[w].pc = "batch" => run'[w].batch \subseteq run[w].todo
    <3>1. CASE SendCheck(w)
      BY <3>1, SendCheckDoes
    <3>2. CASE ~SendCheck(w)
      BY <1>4, <3>2, SendRecordDoes, LeaveDoes, DeleteBeginDoes, DeleteBatchDoes, DeleteWriteDoes
      DEF DeleteStep, SendFinish, DeleteFinish, Crash
    <3> QED BY <3>1, <3>2
  <2>5. \A u \in Users : Owing(w, u)' => Owing(w, u)
    BY <2>2, <2>3, <2>4 DEF Owing
  <2> QED BY <2>1, <2>2, <2>5, GivenKept
<1> QED BY <1>1, <1>2, <1>3, <1>4 DEF BroadcastNext, SendStep

-----------------------------------------------------------------------------
(* Who sends.                                                               *)

\* What happened is not forgotten.
LEMMA MishapsStep == ASSUME [BroadcastNext]_broadcastVars PROVE mishaps \subseteq mishaps'
<1>1. ASSUME NEW kind, Fault(kind)
      PROVE  mishaps \subseteq mishaps'
  BY <1>1 DEF Fault
<1>2. ASSUME NEW kind, NEW S, FaultIf(kind, S)
      PROVE  mishaps \subseteq mishaps'
  BY <1>1, <1>2 DEF FaultIf, history
<1>3. CASE \/ StartBroadcast \/ Dispatch \/ CancelBroadcast \/ CancelCommit \/ DeleteBroadcast
           \/ ClearOldBroadcasts \/ UNCHANGED broadcastVars
  BY <1>1, <1>3 DEF StartBroadcast, Dispatch, CancelBroadcast, CancelCommit, DeleteBroadcast,
     ClearOldBroadcasts, broadcastVars, history
<1>4. ASSUME NEW w \in Workers, SendBegin(w) \/ SendStep(w)
      PROVE  mishaps \subseteq mishaps'
  <2>1. CASE SendBegin(w)
    BY <1>1, <2>1 DEF SendBegin
  <2>2. CASE SendBatch(w)
    BY <1>2, <2>2 DEF SendBatch
  <2>3. CASE SendCheck(w) \/ SendRecord(w) \/ SendFinish(w)
    BY <2>3 DEF SendCheck, SendRecord, SendFinish, history
  <2> QED BY <1>4, <2>1, <2>2, <2>3 DEF SendStep
<1>5. ASSUME NEW w \in Workers, DeleteBegin(w) \/ DeleteStep(w) \/ Crash(w)
      PROVE  mishaps \subseteq mishaps'
  <2>1. CASE DeleteBatch(w)
    <3>1. PICK S : FaultIf("refuse", S)
      BY <2>1 DEF DeleteBatch
    <3> QED BY <1>2, <3>1
  <2>2. CASE Crash(w)
    BY <1>1, <2>2 DEF Crash
  <2>3. CASE DeleteBegin(w) \/ DeleteWrite(w) \/ DeleteFinish(w)
    BY <2>3 DEF DeleteBegin, DeleteWrite, DeleteFinish, history
  <2> QED BY <1>5, <2>1, <2>2, <2>3 DEF DeleteStep
<1> QED BY <1>3, <1>4, <1>5 DEF BroadcastNext

LEMMA SparedStep ==
    ASSUME [BroadcastNext]_broadcastVars, NEW CONSTANT kinds, Spared(kinds)'
    PROVE  Spared(kinds)
BY MishapsStep DEF Spared

\* Steps that are no worker's leave all workers alone.
LEMMA CommandsLeave ==
    ASSUME StartBroadcast \/ Dispatch \/ CancelBroadcast \/ CancelCommit \/ DeleteBroadcast
              \/ ClearOldBroadcasts \/ UNCHANGED broadcastVars
    PROVE  /\ run' = run /\ deliveries' = deliveries /\ chat' = chat /\ given' = given
           /\ extra' = extra /\ success' = success /\ failed' = failed
           /\ ~ClearOldBroadcasts => rows' = rows
BY DEF StartBroadcast, Dispatch, CancelBroadcast, CancelCommit, DeleteBroadcast,
   ClearOldBroadcasts, broadcastVars, telegram, queue, counters

LEMMA SenderStep ==
    ASSUME BroadcastTypes, GivenInv, StageInv, SenderInv, [BroadcastNext]_broadcastVars
    PROVE  SenderInv'
<1> SUFFICES ASSUME Spared({"late"})'
             PROVE  /\ \A v, x \in Workers : Sending(v)' /\ Sending(x)' => v = x
                    /\ send' = "acked" => \A v \in Workers : ~Sending(v)'
  BY DEF SenderInv
<1>0. /\ \A v, x \in Workers : Sending(v) /\ Sending(x) => v = x
      /\ send = "acked" => \A v \in Workers : ~Sending(v)
  BY SparedStep DEF SenderInv
<1>1. CASE \/ StartBroadcast \/ Dispatch \/ CancelBroadcast \/ CancelCommit \/ DeleteBroadcast
           \/ ClearOldBroadcasts \/ UNCHANGED broadcastVars
  <2>1. \A v \in Workers : Sending(v)' <=> Sending(v)
    BY <1>1, CommandsLeave DEF Sending
  <2>2. CASE Dispatch
    BY <1>0, <2>1, <2>2 DEF Dispatch, StageInv
  <2>3. CASE ~Dispatch
    <3>1. send' = send \/ send' = "committed"
      BY <1>1, <2>3 DEF StartBroadcast, CancelBroadcast, CancelCommit, DeleteBroadcast,
         ClearOldBroadcasts, broadcastVars, queue
    <3> QED BY <1>0, <2>1, <3>1
  <2> QED BY <2>2, <2>3
<1>2. ASSUME NEW w \in Workers, SendBegin(w)
      PROVE  /\ \A v, x \in Workers : Sending(v)' /\ Sending(x)' => v = x
             /\ send' = "acked" => \A v \in Workers : ~Sending(v)'
  <2>1. Others(w) /\ send = "queued" /\ send' = send
    BY <1>2, SendBeginDoes DEF SendBegin
  <2>2. ~Slow(w)
    BY <1>2 DEF SendBegin, Fault, Spared
  <2> QED BY <2>1, <2>2 DEF Slow, Others, Sending
<1>3. ASSUME NEW w \in Workers,
             SendStep(w) \/ DeleteBegin(w) \/ DeleteStep(w) \/ Crash(w)
      PROVE  /\ \A v, x \in Workers : Sending(v)' /\ Sending(x)' => v = x
             /\ send' = "acked" => \A v \in Workers : ~Sending(v)'
  <2>1. Others(w) /\ \A v \in Workers : Sending(v)' => Sending(v)
    BY <1>3, SendersStep
  <2>2. CASE SendFinish(w)
    <3>1. Sending(w) /\ ~Sending(w)'
      BY <2>2, LeaveDoes DEF SendFinish, Sending
    <3> QED BY <1>0, <2>1, <3>1
  <2>3. CASE ~SendFinish(w)
    <3>1. send' = send
      BY <1>3, <2>3 DEF SendStep, SendCheck, SendBatch, SendRecord, DeleteBegin, DeleteStep,
         DeleteBatch, DeleteWrite, DeleteFinish, Crash, queue
    <3> QED BY <1>0, <2>1, <3>1
  <2> QED BY <2>2, <2>3
<1> QED BY <1>1, <1>2, <1>3 DEF BroadcastNext

LEMMA OverStep ==
    ASSUME BroadcastTypes, StageInv, OverInv, [BroadcastNext]_broadcastVars
    PROVE  OverInv'
<1> SUFFICES ASSUME Spared({"overlap"})', NEW j \in Jobs, Asked(j)'
             PROVE  send' = "acked"
  BY DEF OverInv
<1>0. Asked(j) => send = "acked"
  BY SparedStep DEF OverInv
<1>1. CASE DeleteBroadcast
  BY <1>1 DEF DeleteBroadcast, Spared
<1>2. CASE ~DeleteBroadcast
  <2>1. Asked(j)
    <3>1. ASSUME NEW w \in Workers, DeleteFinish(w)
          PROVE  Asked(j)
      <4>1. jobs' = [jobs EXCEPT ![run[w].job].state = "acked"]
        BY <3>1 DEF DeleteFinish
      <4>2. Deleting(w)
        BY <3>1 DEF DeleteFinish, Deleting
      <4>3. run[w].job \in Jobs /\ Asked(run[w].job)
        BY <4>2 DEF BroadcastTypes, LocalsInv, WorkerInv, Asked
      <4> QED BY <4>1, <4>3 DEF Asked, BroadcastTypes, LocalsInv
    <3>2. CASE \A w \in Workers : ~DeleteFinish(w)
      <4>1. jobs' = jobs
        BY <1>2, <3>2 DEF BroadcastNext, StartBroadcast, Dispatch, CancelBroadcast, CancelCommit,
           ClearOldBroadcasts, SendBegin, SendStep, SendCheck, SendBatch, SendRecord, SendFinish,
           DeleteBegin, DeleteStep, DeleteBatch, DeleteWrite, Crash, broadcastVars, queue
      <4> QED BY <4>1 DEF Asked
    <3> QED BY <3>1, <3>2
  <2>2. send = "acked" /\ status # "NONE"
    BY <1>0, <2>1 DEF StageInv
  <2>3. send' = send \/ send' = "acked"
    BY <1>2, <2>2 DEF BroadcastNext, StartBroadcast, Dispatch, CancelBroadcast, CancelCommit,
           ClearOldBroadcasts, SendBegin, SendStep, SendCheck, SendBatch, SendRecord, SendFinish,
           DeleteBegin, DeleteStep, DeleteBatch, DeleteWrite, DeleteFinish, Crash, broadcastVars,
           queue, Ack
  <2> QED BY <2>2, <2>3
<1> QED BY <1>1, <1>2

\* A bulk update of messages that exist adds no recipient and takes none away.
LEMMA BulkUpdateKeeps ==
    ASSUME NEW S \in SUBSET Users, NEW m, \A u \in S : m[u] # NoRow, BulkUpdate(S, m)
    PROVE  Recipients(rows)' = Recipients(rows)
<1>1. \A u \in Users : rows'[u] # NoRow <=> rows[u] # NoRow
  BY DEF BulkUpdate
<1> QED BY <1>1 DEF Recipients

LEMMA RecipientsKept ==
    ASSUME BroadcastTypes, GivenInv, NEW w \in Workers,
           SendStep(w) \/ DeleteBegin(w) \/ DeleteStep(w) \/ Crash(w)
    PROVE  Recipients(rows)' = Recipients(rows)
<1>0. run[w].batch \subseteq Users /\ WorkerInv(w)
  BY RunType DEF BroadcastTypes, LocalsInv, Locals
<1>1. CASE SendRecord(w)
  <2>1. \A u \in run[w].batch : run[w].rows[u] # NoRow
    BY <1>0, <1>1 DEF SendRecord, WorkerInv, NoRow
  <2>2. BulkUpdate(run[w].batch, run[w].rows) \/ rows' = rows
    BY <1>1 DEF SendRecord
  <2> QED BY <1>0, <2>1, <2>2, BulkUpdateKeeps DEF Recipients
<1>2. CASE DeleteWrite(w)
  <2>1. \A u \in run[w].batch : run[w].rows[u] # NoRow
    BY <1>0, <1>2 DEF DeleteWrite, WorkerInv, Deleting
  <2> QED BY <1>0, <1>2, <2>1, BulkUpdateKeeps DEF DeleteWrite
<1>3. CASE ~SendRecord(w) /\ ~DeleteWrite(w)
  <2>1. rows' = rows
    BY <1>3 DEF SendStep, SendCheck, SendBatch, SendFinish, DeleteBegin, DeleteStep, DeleteBatch,
       DeleteFinish, Crash
  <2> QED BY <2>1 DEF Recipients
<1> QED BY <1>1, <1>2, <1>3

\* What a sender has in hand it has from before, and it knows whom it knew.
LEMMA HandStep ==
    ASSUME BroadcastTypes, GivenInv, NEW w \in Workers,
           SendStep(w) \/ DeleteBegin(w) \/ DeleteStep(w) \/ Crash(w)
    PROVE  \A v \in Workers : Sending(v)' =>
              /\ Sending(v) /\ run'[v].known = run[v].known
              /\ run'[v].todo \cup run'[v].batch \subseteq run[v].todo \cup run[v].batch
<1>1. Others(w) /\ \A v \in Workers : Sending(v)' => Sending(v)
  BY SendersStep
<1>2. Sending(w)' => /\ run'[w].known = run[w].known
                     /\ run'[w].todo \cup run'[w].batch \subseteq run[w].todo \cup run[w].batch
  <2>1. CASE SendCheck(w)
    BY <2>1, SendCheckDoes DEF Same
  <2>2. CASE SendBatch(w)
    BY <2>2, SendBatchDoes
  <2>3. CASE SendRecord(w)
    BY <2>3, SendRecordDoes
  <2>4. CASE SendFinish(w) \/ DeleteFinish(w) \/ Crash(w)
    BY <2>4, LeaveDoes DEF Sending, SendFinish, DeleteFinish, Crash
  <2>5. CASE DeleteBegin(w)
    BY <2>5, DeleteBeginDoes DEF Sending
  <2>6. CASE DeleteBatch(w)
    BY <2>6, DeleteBatchDoes DEF Sending
  <2>7. CASE DeleteWrite(w)
    BY <2>7, DeleteWriteDoes DEF Sending
  <2> QED BY <2>1, <2>2, <2>3, <2>4, <2>5, <2>6, <2>7 DEF SendStep, DeleteStep
<1> QED BY <1>1, <1>2 DEF Others

\* The first delivery: nothing was inserted yet, and nobody sends.
LEMMA FirstBegin ==
    ASSUME BroadcastTypes, StageInv, NEW w \in Workers, SendBegin(w), Spared({"again", "late"})'
    PROVE  /\ deliveries = 0 /\ deliveries' = 1 /\ Others(w) /\ run'[w].batch = {}
           /\ rows = NoRows /\ Recipients(rows)' = run'[w].todo /\ run'[w].known = run'[w].todo
           /\ \A u \in Users : rows'[u] = IF u \in run'[w].todo
                                          THEN [status |-> "PENDING", id |-> 0] ELSE NoRow
           /\ \A v \in Workers : ~Sending(v)
           /\ run'[w].todo = {} => run'[w].pc = "finish"
           /\ run'[w].todo # {} => run'[w].pc = "check"
<1>1. ~Slow(w)
  BY DEF SendBegin, Fault, Spared
<1>2. mishaps' = mishaps \cup (IF deliveries > 0 THEN {"again"} ELSE {})
  BY <1>1 DEF SendBegin
<1>3. ~(deliveries > 0)
  BY <1>2 DEF Spared
<1>4. deliveries = 0
  BY <1>3, GivenTypes
<1>5. deliveries' = deliveries + 1
  BY DEF SendBegin
<1>6. rows = NoRows /\ Recipients(rows) = {} /\ \A v \in Workers : ~Sending(v)
  BY <1>4 DEF StageInv, Recipients, NoRows
<1>7. PICK a \in SUBSET Users :
         /\ run'[w].todo = a
         /\ IF a = {}
            THEN run'[w].pc = "finish" /\ run'[w].known = {} /\ rows' = rows
            ELSE /\ run'[w].pc = "check" /\ Initialize(a)
                 /\ run'[w].known = IF Recipients(rows) # {} THEN Recipients(rows) ELSE a
  BY SendBeginDoes
<1>8. run'[w].known = a
  BY <1>6, <1>7
<1>9. \A u \in Users : rows'[u] = IF u \in a THEN [status |-> "PENDING", id |-> 0] ELSE NoRow
  BY <1>6, <1>7 DEF Initialize, NoRows
<1>10. Recipients(rows)' = a
  BY <1>9 DEF Recipients, NoRow
<1> QED BY <1>4, <1>5, <1>6, <1>7, <1>8, <1>9, <1>10, SendBeginDoes

LEMMA KnownStep ==
    ASSUME BroadcastTypes, GivenInv, StageInv, KnownInv, [BroadcastNext]_broadcastVars
    PROVE  KnownInv'
<1> SUFFICES ASSUME Once'
             PROVE  /\ deliveries' <= 1
                    /\ deliveries' = 1 /\ send' # "acked" => \E v \in Workers : Sending(v)'
                    /\ \A v \in Workers : Sending(v)' =>
                          /\ run'[v].todo \cup run'[v].batch \subseteq run'[v].known
                          /\ run'[v].known = Recipients(rows)'
  BY DEF KnownInv
<1>0. /\ deliveries <= 1
      /\ deliveries = 1 /\ send # "acked" => \E v \in Workers : Sending(v)
      /\ \A v \in Workers : Sending(v) =>
            /\ run[v].todo \cup run[v].batch \subseteq run[v].known
            /\ run[v].known = Recipients(rows)
  <2>1. Once
    BY SparedStep DEF Once
  <2> QED BY <2>1 DEF KnownInv
<1>1. CASE \/ StartBroadcast \/ Dispatch \/ CancelBroadcast \/ CancelCommit \/ DeleteBroadcast
           \/ ClearOldBroadcasts \/ UNCHANGED broadcastVars
  <2>1. run' = run /\ deliveries' = deliveries /\ \A v \in Workers : Sending(v)' <=> Sending(v)
    BY <1>1, CommandsLeave DEF Sending
  <2>2. (\E v \in Workers : Sending(v)) => Recipients(rows)' = Recipients(rows)
    <3>1. ClearOldBroadcasts => \A v \in Workers : ~Sending(v)
      BY DEF ClearOldBroadcasts, Sending, Idle
    <3>2. ~ClearOldBroadcasts => rows' = rows
      BY <1>1, CommandsLeave
    <3> QED BY <3>1, <3>2 DEF Recipients
  <2>3. deliveries = 1 /\ send' # "acked" => send # "acked"
    BY <1>1 DEF StartBroadcast, Dispatch, CancelBroadcast, CancelCommit, DeleteBroadcast,
       ClearOldBroadcasts, broadcastVars, queue, StageInv
  <2> QED BY <1>0, <2>1, <2>2, <2>3
<1>2. ASSUME NEW w \in Workers, SendBegin(w)
      PROVE  /\ deliveries' <= 1
             /\ deliveries' = 1 /\ send' # "acked" => \E v \in Workers : Sending(v)'
             /\ \A v \in Workers : Sending(v)' =>
                   /\ run'[v].todo \cup run'[v].batch \subseteq run'[v].known
                   /\ run'[v].known = Recipients(rows)'
  <2>1. Spared({"again", "late"})'
    BY DEF Once, Spared
  <2>2. /\ deliveries' = 1 /\ Others(w) /\ run'[w].batch = {}
        /\ Recipients(rows)' = run'[w].todo /\ run'[w].known = run'[w].todo
        /\ run'[w].pc \in {"finish", "check"}
        /\ \A v \in Workers : ~Sending(v)
    BY <1>2, <2>1, FirstBegin
  <2>3. Sending(w)' /\ \A v \in Workers : v # w => ~Sending(v)'
    BY <2>2 DEF Others, Sending
  <2> QED BY <2>2, <2>3
<1>3. ASSUME NEW w \in Workers,
             SendStep(w) \/ DeleteBegin(w) \/ DeleteStep(w) \/ Crash(w)
      PROVE  /\ deliveries' <= 1
             /\ deliveries' = 1 /\ send' # "acked" => \E v \in Workers : Sending(v)'
             /\ \A v \in Workers : Sending(v)' =>
                   /\ run'[v].todo \cup run'[v].batch \subseteq run'[v].known
                   /\ run'[v].known = Recipients(rows)'
  <2>0. ~Crash(w)
    BY DEF Crash, Fault, Once, Spared
  <2>1. deliveries' = deliveries
    BY <1>3 DEF SendStep, SendCheck, SendBatch, SendRecord, SendFinish, DeleteBegin, DeleteStep,
       DeleteBatch, DeleteWrite, DeleteFinish, Crash, queue
  <2>2. \A v \in Workers : Sending(v)' =>
           /\ run'[v].todo \cup run'[v].batch \subseteq run'[v].known
           /\ run'[v].known = Recipients(rows)'
    BY <1>0, <1>3, HandStep, RecipientsKept
  <2>3. send' # "acked" => send' = send /\ \A v \in Workers : Sending(v) => Sending(v)'
    <3>1. CASE SendFinish(w)
      BY <3>1 DEF SendFinish, Ack
    <3>2. CASE ~SendFinish(w)
      <4>1. send' = send
        BY <1>3, <3>2 DEF SendStep, SendCheck, SendBatch, SendRecord, DeleteBegin, DeleteStep,
           DeleteBatch, DeleteWrite, DeleteFinish, Crash, queue
      <4>2. Sending(w) => Sending(w)'
        <5>1. Sending(w) => SendCheck(w) \/ SendBatch(w) \/ SendRecord(w)
          BY <1>3, <2>0, <3>2 DEF SendStep, Sending, DeleteBegin, DeleteStep, DeleteBatch,
             DeleteWrite, DeleteFinish
        <5> QED BY <5>1, SendCheckDoes, SendBatchDoes, SendRecordDoes DEF Sending
      <4>3. Others(w)
        BY <1>3, SendersStep
      <4> QED BY <4>1, <4>2, <4>3 DEF Others, Sending
    <3> QED BY <3>1, <3>2
  <2> QED BY <1>0, <2>1, <2>2, <2>3
<1> QED BY <1>1, <1>2, <1>3 DEF BroadcastNext

-----------------------------------------------------------------------------
(* What the rows say while the task runs once and nothing overlaps it.      *)

LEMMA CalmStep ==
    ASSUME [BroadcastNext]_broadcastVars, Calm', ~StartBroadcast
    PROVE  Calm
<1>1. Once /\ Spared({"overlap"})
  BY SparedStep DEF Calm, Once
<1>2. Exists
  <2>1. Exists' => Exists
    BY DEF BroadcastNext, Dispatch, CancelBroadcast, CancelCommit, DeleteBroadcast,
       ClearOldBroadcasts, SendBegin, SendStep, SendCheck, SendBatch, SendRecord, SendFinish,
       DeleteBegin, DeleteStep, DeleteBatch, DeleteWrite, DeleteFinish, Crash, broadcastVars,
       SetStatus, Exists
  <2> QED BY <2>1 DEF Calm
<1> QED BY <1>1, <1>2 DEF Calm

\* No deletion is asked for, and none runs, while somebody sends.
LEMMA NoOverlap ==
    ASSUME BroadcastTypes, StageInv, SenderInv, OverInv, Spared({"overlap"}), Spared({"late"})
    PROVE  /\ \A v, x \in Workers : Sending(v) /\ Sending(x) => v = x
           /\ \A v \in Workers : Deleting(v) => send = "acked"
           /\ \A j \in Jobs : Asked(j) => send = "acked"
           /\ send = "acked" => \A v \in Workers : ~Sending(v)
BY Underway DEF SenderInv, OverInv

LEMMA CalmApart ==
    ASSUME BroadcastTypes, StageInv, SenderInv, OverInv, Calm
    PROVE  /\ \A v, x \in Workers : Sending(v) /\ Sending(x) => v = x
           /\ \A v \in Workers : Deleting(v) => send = "acked"
           /\ \A j \in Jobs : Asked(j) => send = "acked"
           /\ send = "acked" => \A v \in Workers : ~Sending(v)
BY NoOverlap DEF Calm, Once, Spared

\* The task is delivered once, and no worker dies.
LEMMA CalmSteps ==
    ASSUME Calm'
    PROVE  Spared({"again", "late"})' /\ \A w \in Workers : ~Crash(w)
BY DEF Calm, Once, Spared, Crash, Fault

LEMMA FirstBeginChats ==
    ASSUME BroadcastTypes, StageInv, NEW w \in Workers, SendBegin(w), deliveries = 0
    PROVE  \A u \in Users : chat'[u] = {}
BY DEF SendBegin, StageInv, telegram

LEMMA SpotBegin ==
    ASSUME BroadcastTypes, StageInv, Calm', NEW w \in Workers, SendBegin(w), NEW u \in Users
    PROVE  Spot(u)'
<1>1. /\ Others(w) /\ run'[w].batch = {}
      /\ rows'[u] = IF u \in run'[w].todo THEN [status |-> "PENDING", id |-> 0] ELSE NoRow
      /\ \A v \in Workers : ~Sending(v)
      /\ run'[w].todo = {} => run'[w].pc = "finish"
      /\ run'[w].todo # {} => run'[w].pc = "check"
      /\ deliveries = 0
  BY CalmSteps, FirstBegin
<1>2. chat'[u] = {}
  BY <1>1, FirstBeginChats
<1>3. \A v \in Workers : v # w => ~Sending(v)'
  BY <1>1 DEF Others, Sending
<1> QED BY <1>1, <1>2, <1>3 DEF Spot, InHand, Unsent, NoRow

LEMMA SpotCheck ==
    ASSUME BroadcastTypes, NEW w \in Workers, SendCheck(w), NEW u \in Users, Spot(u)
    PROVE  Spot(u)'
<1>1. rows' = rows /\ chat' = chat
  BY DEF SendCheck, telegram
<1>2. /\ Others(w) /\ run[w].pc = "check" /\ run[w].batch = {}
      /\ \/ run'[w].pc = "finish"
         \/ run'[w].pc = "batch" /\ run'[w].todo \cup run'[w].batch = run[w].todo
  BY SendCheckDoes DEF BroadcastTypes, LocalsInv, WorkerInv
<1>3. \A v \in Workers : v # w => run'[v] = run[v]
  BY <1>2 DEF Others
<1>4. InHand(w, u) => Unsent(u)
  BY <1>2 DEF Spot
<1>5. InHand(w, u)' => InHand(w, u) /\ run'[w].pc # "record"
  BY <1>2 DEF InHand, Sending
<1>6. \A v \in Workers : v # w => (InHand(v, u)' <=> InHand(v, u)) /\ (Sending(v)' <=> Sending(v))
  BY <1>3 DEF InHand, Sending
<1>7. Unsent(u)' <=> Unsent(u)
  BY <1>1 DEF Unsent
<1>8. (\A v \in Workers : ~InHand(v, u)') /\ chat'[u] # {}
         => rows'[u].status = "SENT" /\ chat'[u] = {rows'[u].id}
  BY <1>1, <1>4, <1>6 DEF Spot, Unsent
<1>9. \A v \in Workers : Sending(v)' /\ run'[v].pc # "finish" /\ rows'[u].status = "PENDING"
         => u \in run'[v].todo \cup run'[v].batch
  <2>1. Sending(w)
    BY <1>2 DEF Sending
  <2> QED BY <1>1, <1>2, <1>3, <1>6, <2>1 DEF Spot
<1>10. \A v \in Workers : InHand(v, u)' =>
         IF run'[v].pc = "record" /\ u \in run'[v].batch
         THEN /\ rows'[u].status = "PENDING"
              /\ chat'[u] = IF run'[v].rows[u].status = "SENT" THEN {run'[v].rows[u].id} ELSE {}
         ELSE Unsent(u)'
  BY <1>1, <1>3, <1>4, <1>5, <1>6, <1>7 DEF Spot
<1> QED BY <1>8, <1>9, <1>10 DEF Spot

LEMMA SpotBatch ==
    ASSUME BroadcastTypes, GivenInv, NEW w \in Workers, SendBatch(w), NEW u \in Users, Spot(u),
           \A v \in Workers : Sending(v) => v = w
    PROVE  Spot(u)'
<1>1. rows' = rows
  BY DEF SendBatch
<1>2. /\ Others(w) /\ run[w].pc = "batch" /\ run'[w].pc = "record"
      /\ run'[w].todo = run[w].todo /\ run'[w].batch = run[w].batch
  BY SendBatchDoes
<1>3. PICK lost \in SUBSET run[w].batch : Sent(w, lost)
  BY SendBatchDoes
<1>4. \A v \in Workers : v # w => ~Sending(v) /\ ~Sending(v)'
  BY <1>2 DEF Others, Sending
<1>5. (InHand(w, u)' <=> InHand(w, u)) /\ Sending(w)
  BY <1>2 DEF InHand, Sending
<1>6. InHand(w, u) => Unsent(u)
  BY <1>2 DEF Spot
<1>7. \A v \in Workers : Sending(v)' /\ run'[v].pc # "finish" /\ rows'[u].status = "PENDING"
         => u \in run'[v].todo \cup run'[v].batch
  BY <1>1, <1>2, <1>4, <1>5 DEF Spot
<1>8. CASE u \in run[w].batch
  <2>1. InHand(w, u)
    BY <1>2, <1>8 DEF InHand, Sending
  <2>2. chat'[u] = IF run'[w].rows[u].status = "SENT" THEN {run'[w].rows[u].id} ELSE {}
    <3>1. chat[u] = {}
      BY <1>6, <2>1 DEF Unsent
    <3>2. CASE u \in lost
      BY <1>3, <3>1, <3>2 DEF Sent
    <3>3. CASE u \notin lost
      BY <1>3, <1>8, <3>1, <3>3 DEF Sent
    <3> QED BY <3>2, <3>3
  <2> QED BY <1>1, <1>2, <1>4, <1>5, <1>6, <1>7, <1>8, <2>1, <2>2 DEF Spot, InHand, Unsent
<1>9. CASE u \notin run[w].batch
  <2>1. chat'[u] = chat[u]
    BY <1>3, <1>9 DEF Sent
  <2> QED BY <1>1, <1>2, <1>4, <1>5, <1>6, <1>7, <1>9, <2>1 DEF Spot, InHand, Unsent
<1> QED BY <1>8, <1>9

LEMMA SpotRecord ==
    ASSUME BroadcastTypes, KnownInv, Once, NEW w \in Workers, SendRecord(w), NEW u \in Users,
       Spot(u),
           \A v \in Workers : Sending(v) => v = w
    PROVE  Spot(u)'
<1>1. chat' = chat
  BY DEF SendRecord, telegram
<1>2. /\ Others(w) /\ run[w].pc = "record" /\ run'[w].todo = run[w].todo
      /\ Sending(w) /\ run[w].batch \cap run[w].todo = {}
      /\ \A x \in run[w].batch : run[w].rows[x].status \in {"SENT", "FAILED"}
  BY SendRecordDoes DEF BroadcastTypes, LocalsInv, WorkerInv, Sending
<1>3. run[w].batch \subseteq run[w].known /\ run[w].known = Recipients(rows)
  BY <1>2 DEF KnownInv
<1>4. BulkUpdate(run[w].batch, run[w].rows) /\ run'[w].pc = "check" /\ run'[w].batch = {}
  BY <1>3, SendRecordDoes
<1>5. \A v \in Workers : v # w => ~Sending(v) /\ ~Sending(v)'
  BY <1>2 DEF Others, Sending
<1>6. CASE u \in run[w].batch
  <2>1. rows'[u] = run[w].rows[u]
    BY <1>3, <1>4, <1>6 DEF BulkUpdate, Recipients
  <2>2. InHand(w, u)
    BY <1>2, <1>6 DEF InHand
  <2>3. chat[u] = IF run[w].rows[u].status = "SENT" THEN {run[w].rows[u].id} ELSE {}
    BY <1>2, <1>6, <2>2 DEF Spot
  <2>4. rows'[u].status \in {"SENT", "FAILED"}
    BY <1>2, <1>6, <2>1
  <2>5. ~InHand(w, u)' /\ \A v \in Workers : ~InHand(v, u)'
    BY <1>2, <1>4, <1>5, <1>6 DEF InHand
  <2> QED BY <1>1, <1>5, <2>1, <2>3, <2>4, <2>5 DEF Spot
<1>7. CASE u \notin run[w].batch
  <2>1. rows'[u] = rows[u]
    BY <1>4, <1>7 DEF BulkUpdate
  <2>2. InHand(w, u)' <=> InHand(w, u)
    BY <1>2, <1>4, <1>7 DEF InHand, Sending
  <2>3. Unsent(u)' <=> Unsent(u)
    BY <1>1, <2>1 DEF Unsent
  <2> QED BY <1>1, <1>2, <1>4, <1>5, <1>7, <2>1, <2>2, <2>3 DEF Spot, InHand
<1> QED BY <1>6, <1>7

\* Where nobody sends, a row is only asked about what is in the chat.
LEMMA SpotDeleted ==
    ASSUME NEW u \in Users, Spot(u), \A v \in Workers : ~Sending(v) /\ ~Sending(v)',
           chat'[u] # {} => chat'[u] = chat[u] /\ rows'[u] = rows[u]
    PROVE  Spot(u)'
BY DEF Spot, InHand

\* What a deletion takes out of a chat was all that was there; what it writes there
\* already was in the row.
LEMMA TakenAll ==
    ASSUME BroadcastTypes, NEW w \in Workers, DeleteBatch(w), Carries(run[w].rows),
           \A v \in Workers : ~Sending(v), NEW u \in Users, Spot(u)
    PROVE  /\ chat'[u] = {} \/ chat'[u] = chat[u]
           /\ chat'[u] = chat[u] => chat[u] = {} \/ run'[w].rows[u] = run[w].rows[u]
           /\ Class(run'[w].rows[u].status) = Class(run[w].rows[u].status)
<1>1. PICK refused \in SUBSET run'[w].batch :
          Taken(w, {x \in run'[w].batch : /\ run[w].rows[x].status = "SENT"
                                          /\ run[w].rows[x].id \in chat[x]} \ refused)
  BY DeleteBatchDoes
<1> DEFINE gone == {x \in run'[w].batch : /\ run[w].rows[x].status = "SENT"
                                          /\ run[w].rows[x].id \in chat[x]} \ refused
<1>2. CASE u \in gone
  <2>1. /\ chat'[u] = chat[u] \ {run[w].rows[u].id} /\ run'[w].rows[u].status = "DELETED"
        /\ run[w].rows[u].status = "SENT" /\ chat[u] # {}
    BY <1>1, <1>2 DEF Taken
  <2>2. run[w].rows[u] = rows[u] /\ chat[u] = {rows[u].id}
    BY <2>1 DEF Carries, Spot, InHand
  <2> QED BY <2>1, <2>2 DEF Class
<1>3. CASE u \notin gone
  BY <1>1, <1>3 DEF Taken
<1> QED BY <1>2, <1>3

LEMMA WrittenSame ==
    ASSUME NEW w \in Workers, DeleteWrite(w), Carries(run[w].rows), NEW u \in Users
    PROVE  /\ chat'[u] = chat[u]
           /\ chat[u] # {} => rows'[u] = rows[u]
           /\ Class(rows'[u].status) = Class(rows[u].status)
<1>1. chat' = chat /\ rows'[u] \in {rows[u], run[w].rows[u]}
  BY DEF DeleteWrite, BulkUpdate, telegram
<1> QED BY <1>1 DEF Carries

LEMMA SpotStep ==
    ASSUME BroadcastTypes, GivenInv, StageInv, SenderInv, KnownInv, OverInv, SpotInv, CarryInv,
           [BroadcastNext]_broadcastVars
    PROVE  SpotInv'
<1> SUFFICES ASSUME Calm', NEW u \in Users
             PROVE  Spot(u)'
  BY DEF SpotInv
<1>1. CASE StartBroadcast
  <2>1. deliveries = 0 /\ run' = run /\ rows' = rows /\ chat' = chat
    BY <1>1 DEF StartBroadcast, StageInv, telegram
  <2> QED BY <2>1 DEF StageInv, Spot, InHand, Sending
<1>2. CASE ~StartBroadcast
  <2>0. Calm /\ Spot(u)
    BY <1>2, CalmStep DEF SpotInv
  <2>1. CASE \/ StartBroadcast \/ Dispatch \/ CancelBroadcast \/ CancelCommit \/ DeleteBroadcast
             \/ ClearOldBroadcasts \/ UNCHANGED broadcastVars
    <3>1. ~ClearOldBroadcasts
      BY DEF ClearOldBroadcasts, Calm, Exists
    <3>2. run' = run /\ rows' = rows /\ chat' = chat
      BY <2>1, <3>1, CommandsLeave
    <3> QED BY <2>0, <3>2 DEF Spot, InHand, Sending, Unsent
  <2>2. ASSUME NEW w \in Workers, SendBegin(w)
        PROVE  Spot(u)'
    BY <2>2, SpotBegin
  <2>3. ASSUME NEW w \in Workers, SendStep(w)
        PROVE  Spot(u)'
    <3>1. \A v \in Workers : Sending(v) => v = w
      BY <2>0, <2>3, CalmApart
      DEF SendStep, SendCheck, SendBatch, SendRecord, SendFinish, Sending
    <3>2. CASE SendFinish(w)
      <4>1. rows' = rows /\ chat' = chat /\ run[w].pc = "finish"
        BY <3>2 DEF SendFinish, telegram
      <4>2. Others(w) /\ run'[w].pc = "idle"
        BY <3>2, LeaveDoes DEF SendFinish
      <4> QED BY <2>0, <4>1, <4>2 DEF Spot, InHand, Sending, Unsent, Others
    <3> QED BY <2>0, <2>3, <3>1, <3>2, SpotCheck, SpotBatch, SpotRecord DEF SendStep, Calm
  <2>4. ASSUME NEW w \in Workers, DeleteBegin(w)
        PROVE  Spot(u)'
    <3>1. rows' = rows /\ chat' = chat
      BY <2>4 DEF DeleteBegin, telegram
    <3>2. Others(w) /\ run'[w].pc = "erase" /\ run[w].pc = "idle"
      BY <2>4, DeleteBeginDoes DEF DeleteBegin
    <3> QED BY <2>0, <3>1, <3>2 DEF Spot, InHand, Sending, Unsent, Others
  <2>5. ASSUME NEW w \in Workers, DeleteStep(w)
        PROVE  Spot(u)'
    <3>1. Deleting(w)
      BY <2>5 DEF DeleteStep, DeleteBatch, DeleteWrite, DeleteFinish, Deleting
    <3>2. Carries(run[w].rows)
      BY <2>0, <3>1 DEF CarryInv
    <3>3. \A v \in Workers : ~Sending(v)
      BY <2>0, <3>1, CalmApart
    <3>4. \A v \in Workers : ~Sending(v)'
      BY <2>5, <3>3, SendersStep
    <3>5. chat'[u] # {} => chat'[u] = chat[u] /\ rows'[u] = rows[u]
      <4>1. CASE DeleteBatch(w)
        BY <2>0, <3>2, <3>3, <4>1, TakenAll DEF DeleteBatch
      <4>2. CASE DeleteWrite(w)
        BY <3>2, <4>2, WrittenSame
      <4>3. CASE DeleteFinish(w)
        BY <4>3 DEF DeleteFinish, telegram
      <4> QED BY <2>5, <4>1, <4>2, <4>3 DEF DeleteStep
    <3> QED BY <2>0, <3>3, <3>4, <3>5, SpotDeleted
  <2> QED BY <2>1, <2>2, <2>3, <2>4, <2>5, CalmSteps DEF BroadcastNext
<1> QED BY <1>1, <1>2

\* Nothing is sent while a deletion was asked for, so no step of a sender meets one.
LEMMA SendingAlone ==
    ASSUME BroadcastTypes, GivenInv, StageInv, SenderInv, OverInv, Calm, NEW w \in Workers,
           SendBegin(w) \/ SendStep(w)
    PROVE  /\ send # "acked" /\ jobs' = jobs
           /\ \A j \in Jobs : ~Asked(j)
           /\ \A v \in Workers : ~Deleting(v) /\ ~Deleting(v)'
<1>1. send # "acked"
  <2>1. SendStep(w) => Sending(w)
    BY DEF SendStep, SendCheck, SendBatch, SendRecord, SendFinish, Sending
  <2> QED BY <2>1, CalmApart DEF SendBegin
<1>2. \A j \in Jobs : ~Asked(j)
  BY <1>1, CalmApart
<1>3. jobs' = jobs
  BY DEF SendBegin, SendStep, SendCheck, SendBatch, SendRecord, SendFinish, queue
<1>4. \A v \in Workers : ~Deleting(v)
  BY <1>1, CalmApart
<1>5. \A v \in Workers : ~Deleting(v)'
  BY <1>4, DeletersStep
<1> QED BY <1>1, <1>2, <1>3, <1>4, <1>5

LEMMA CarryStep ==
    ASSUME BroadcastTypes, GivenInv, StageInv, SenderInv, OverInv, SpotInv, CarryInv,
           [BroadcastNext]_broadcastVars
    PROVE  CarryInv'
<1> SUFFICES ASSUME Calm'
             PROVE  /\ \A j \in Jobs : jobs'[j].state = "queued" => Carries(jobs[j].rows)'
                    /\ \A v \in Workers : Deleting(v)' => Carries(run[v].rows)'
  BY DEF CarryInv
<1>1. CASE StartBroadcast
  <2>1. send = "none" /\ jobs' = jobs /\ run' = run
    BY <1>1 DEF StartBroadcast, StageInv
  <2>2. \A j \in Jobs : jobs'[j].state # "queued"
    BY <2>1 DEF StageInv, Asked
  <2>3. \A v \in Workers : ~Deleting(v)'
    BY <2>1, Underway DEF Deleting
  <2> QED BY <2>2, <2>3
<1>2. CASE ~StartBroadcast
  <2>0. /\ Calm
        /\ \A j \in Jobs : jobs[j].state = "queued" => Carries(jobs[j].rows)
        /\ \A v \in Workers : Deleting(v) => Carries(run[v].rows)
    BY <1>2, CalmStep DEF CarryInv
  <2>1. CASE Dispatch \/ CancelBroadcast \/ CancelCommit \/ UNCHANGED broadcastVars
    <3>1. run' = run /\ rows' = rows /\ chat' = chat /\ jobs' = jobs
      BY <2>1 DEF Dispatch, CancelBroadcast, CancelCommit, broadcastVars, telegram, queue
    <3> QED BY <2>0, <3>1 DEF Carries, Deleting
  <2>2. CASE ClearOldBroadcasts
    BY <2>2 DEF ClearOldBroadcasts, Calm, Exists
  <2>3. CASE DeleteBroadcast
    <3>1. run' = run /\ rows' = rows /\ chat' = chat
      BY <2>3 DEF DeleteBroadcast, telegram
    <3>2. PICK j \in Jobs : jobs' = [jobs EXCEPT ![j] = [state |-> "queued", rows |-> rows]]
      BY <2>3 DEF DeleteBroadcast
    <3>3. jobs'[j].rows = rows /\ \A k \in Jobs : k # j => jobs'[k] = jobs[k]
      BY <3>2 DEF BroadcastTypes, LocalsInv
    <3>4. Carries(jobs[j].rows)'
      BY <3>1, <3>3 DEF Carries
    <3>5. \A k \in Jobs : k # j /\ jobs'[k].state = "queued" => Carries(jobs[k].rows)'
      BY <2>0, <3>1, <3>3 DEF Carries
    <3> QED BY <2>0, <3>1, <3>4, <3>5 DEF Carries, Deleting
  <2>4. ASSUME NEW w \in Workers, SendBegin(w) \/ SendStep(w)
        PROVE  /\ \A j \in Jobs : jobs'[j].state = "queued" => Carries(jobs[j].rows)'
               /\ \A v \in Workers : Deleting(v)' => Carries(run[v].rows)'
    BY <2>0, <2>4, SendingAlone DEF Asked
  <2>5. ASSUME NEW w \in Workers, DeleteBegin(w)
        PROVE  /\ \A j \in Jobs : jobs'[j].state = "queued" => Carries(jobs[j].rows)'
               /\ \A v \in Workers : Deleting(v)' => Carries(run[v].rows)'
    <3>1. rows' = rows /\ chat' = chat /\ jobs' = jobs
      BY <2>5 DEF DeleteBegin, telegram, queue
    <3>2. PICK j \in Jobs : jobs[j].state = "queued" /\ run'[w].rows = jobs[j].rows
      BY <2>5, DeleteBeginDoes
    <3>3. Carries(run[w].rows)'
      BY <2>0, <3>1, <3>2 DEF Carries
    <3>4. Others(w)
      BY <2>5, DeleteBeginDoes
    <3> QED BY <2>0, <3>1, <3>3, <3>4 DEF Carries, Others, Deleting
  <2>6. ASSUME NEW w \in Workers, DeleteStep(w)
        PROVE  /\ \A j \in Jobs : jobs'[j].state = "queued" => Carries(jobs[j].rows)'
               /\ \A v \in Workers : Deleting(v)' => Carries(run[v].rows)'
    <3>1. Deleting(w)
      BY <2>6 DEF DeleteStep, DeleteBatch, DeleteWrite, DeleteFinish, Deleting
    <3>2. Carries(run[w].rows) /\ \A v \in Workers : ~Sending(v)
      BY <2>0, <3>1, CalmApart
    <3>3. Others(w) /\ \A v \in Workers : Deleting(v)' => Deleting(v)
      BY <2>6, DeletersStep
    <3>4. CASE DeleteBatch(w)
      <4>1. rows' = rows /\ jobs' = jobs
        BY <3>4 DEF DeleteBatch, queue
      <4>2. \A u \in Users : /\ chat'[u] = {} \/ chat'[u] = chat[u]
                             /\ chat'[u] = chat[u] =>
                                   chat[u] = {} \/ run'[w].rows[u] = run[w].rows[u]
                             /\ Class(run'[w].rows[u].status) = Class(run[w].rows[u].status)
        BY <2>0, <3>2, <3>4, TakenAll DEF SpotInv
      <4>3. Carries(run[w].rows)'
        BY <3>2, <4>1, <4>2 DEF Carries
      <4>4. \A v \in Workers : v # w /\ Deleting(v)' => Carries(run[v].rows)'
        BY <2>0, <3>3, <4>1, <4>2 DEF Carries, Others
      <4>5. \A j \in Jobs : jobs'[j].state = "queued" => Carries(jobs[j].rows)'
        BY <2>0, <4>1, <4>2 DEF Carries
      <4> QED BY <4>3, <4>4, <4>5
    <3>5. CASE DeleteWrite(w)
      <4>1. jobs' = jobs /\ run'[w].rows = run[w].rows
        BY <3>5, DeleteWriteDoes DEF DeleteWrite, queue
      <4>2. \A u \in Users : /\ chat'[u] = chat[u]
                             /\ chat[u] # {} => rows'[u] = rows[u]
                             /\ Class(rows'[u].status) = Class(rows[u].status)
        BY <3>2, <3>5, WrittenSame
      <4>3. \A v \in Workers : Deleting(v)' => Carries(run[v].rows)'
        <5>1. \A v \in Workers : run'[v].rows = run[v].rows
          BY <3>3, <4>1 DEF Others
        <5> QED BY <2>0, <3>3, <4>2, <5>1 DEF Carries
      <4>4. \A j \in Jobs : jobs'[j].state = "queued" => Carries(jobs[j].rows)'
        BY <2>0, <4>1, <4>2 DEF Carries
      <4> QED BY <4>3, <4>4
    <3>6. CASE DeleteFinish(w)
      <4>1. rows' = rows /\ chat' = chat /\ jobs' = [jobs EXCEPT ![run[w].job].state = "acked"]
        BY <3>6 DEF DeleteFinish, telegram
      <4>2. run[w].job \in Jobs
        BY <3>1, Underway
      <4>3. \A j \in Jobs : jobs'[j].state = "queued" => jobs'[j] = jobs[j]
        BY <4>1, <4>2 DEF BroadcastTypes, LocalsInv, JobType
      <4>4. ~Deleting(w)'
        BY <3>6, LeaveDoes DEF DeleteFinish, Deleting
      <4> QED BY <2>0, <3>3, <4>1, <4>3, <4>4 DEF Carries, Others, Deleting
    <3> QED BY <2>6, <3>4, <3>5, <3>6 DEF DeleteStep
  <2> QED BY <1>2, <2>1, <2>2, <2>3, <2>4, <2>5, <2>6, CalmSteps DEF BroadcastNext
<1> QED BY <1>1, <1>2

LEMMA ClearedStep ==
    ASSUME BroadcastTypes, GivenInv, StageInv, SenderInv, OverInv, SpotInv, CarryInv, ClearedInv,
           [BroadcastNext]_broadcastVars
    PROVE  ClearedInv'
<1> SUFFICES ASSUME Calm', Spared({"refuse"})'
             PROVE  /\ \A v \in Workers : Deleting(v)' =>
                          \A u \in Users : chat'[u] # {} => u \in run'[v].todo
                    /\ status' = "DELETED" => \A u \in Users : chat'[u] = {}
                    /\ status' = "DELETED" => send' = "acked"
  BY DEF ClearedInv
<1>1. CASE StartBroadcast
  <2>1. send = "none" /\ run' = run /\ status' # "DELETED"
    BY <1>1 DEF StartBroadcast, StageInv
  <2>2. \A v \in Workers : ~Deleting(v)'
    BY <2>1, Underway DEF Deleting
  <2> QED BY <2>1, <2>2
<1>2. CASE ~StartBroadcast
  <2>0. /\ Calm
        /\ \A v \in Workers : Deleting(v) => \A u \in Users : chat[u] # {} => u \in run[v].todo
        /\ status = "DELETED" => \A u \in Users : chat[u] = {}
        /\ status = "DELETED" => send = "acked"
    BY <1>2, CalmStep, SparedStep DEF ClearedInv
  <2>1. CASE \/ Dispatch \/ CancelBroadcast \/ CancelCommit \/ DeleteBroadcast
             \/ ClearOldBroadcasts \/ UNCHANGED broadcastVars
    <3>1. run' = run /\ chat' = chat
      BY <2>1, CommandsLeave
    <3>2. status' = "DELETED" => status = "DELETED" /\ (send = "acked" => send' = "acked")
      BY <2>1 DEF Dispatch, CancelBroadcast, CancelCommit, DeleteBroadcast, ClearOldBroadcasts,
         broadcastVars, SetStatus, queue
    <3> QED BY <2>0, <3>1, <3>2 DEF Deleting
  <2>2. ASSUME NEW w \in Workers, SendBegin(w) \/ SendStep(w)
        PROVE  status' # "DELETED" /\ \A v \in Workers : ~Deleting(v)'
    <3>1. send # "acked" /\ \A v \in Workers : ~Deleting(v)'
      BY <2>0, <2>2, SendingAlone
    <3>2. run[w].result # "DELETED"
      BY RunType DEF Locals, Results
    <3>3. status' = status \/ status' = run[w].result
      BY <2>2 DEF SendBegin, SendStep, SendCheck, SendBatch, SendRecord, SendFinish, SetStatus
    <3> QED BY <2>0, <3>1, <3>2, <3>3
  <2>3. ASSUME NEW w \in Workers, DeleteBegin(w)
        PROVE  \A u \in Users : chat'[u] # {} => u \in run'[w].todo
    <3>1. chat' = chat
      BY <2>3 DEF DeleteBegin, telegram
    <3>2. PICK j \in Jobs : jobs[j].state = "queued" /\ run'[w].todo = Recipients(jobs[j].rows)
      BY <2>3, DeleteBeginDoes
    <3>3. Carries(jobs[j].rows) /\ \A v \in Workers : ~Sending(v)
      BY <2>0, <3>2, CalmApart DEF CarryInv, Asked
    <3>4. \A u \in Users : chat[u] # {} => rows[u].status = "SENT"
      BY <2>0, <3>3 DEF SpotInv, Spot, InHand
    <3> QED BY <3>1, <3>2, <3>3, <3>4 DEF Carries, Recipients, NoRow
  <2>4. ASSUME NEW w \in Workers, DeleteBatch(w)
        PROVE  /\ \A u \in Users : chat'[u] # {} => u \in run'[w].todo
               /\ \A u \in Users : chat'[u] # {} => chat[u] # {}
    <3>1. PICK refused \in SUBSET run'[w].batch :
            /\ FaultIf("refuse", refused)
            /\ Taken(w, {x \in run'[w].batch : /\ run[w].rows[x].status = "SENT"
                                               /\ run[w].rows[x].id \in chat[x]} \ refused)
      BY <2>4, DeleteBatchDoes
    <3>2. refused = {}
      BY <3>1 DEF FaultIf, Fault, Spared
    <3> DEFINE gone == {x \in run'[w].batch : /\ run[w].rows[x].status = "SENT"
                                              /\ run[w].rows[x].id \in chat[x]}
    <3>3. Taken(w, gone)
      BY <3>1, <3>2
    <3>4. Deleting(w) /\ Carries(run[w].rows) /\ \A v \in Workers : ~Sending(v)
      BY <2>0, <2>4, CalmApart DEF CarryInv, DeleteBatch, Deleting
    <3>5. run'[w].todo = run[w].todo \ run'[w].batch
      BY <2>4, DeleteBatchDoes
    <3>6. SUFFICES ASSUME NEW u \in Users, chat'[u] # {}
                   PROVE  u \in run'[w].todo /\ chat[u] # {}
      OBVIOUS
    <3>7. chat[u] # {}
      BY <3>3, <3>6 DEF Taken
    <3>8. rows[u].status = "SENT" /\ chat[u] = {rows[u].id} /\ run[w].rows[u] = rows[u]
      BY <2>0, <3>4, <3>7 DEF SpotInv, Spot, InHand, Carries
    <3>9. u \notin run'[w].batch
      <4>1. SUFFICES ASSUME u \in run'[w].batch
                     PROVE  FALSE
        OBVIOUS
      <4>2. u \in gone
        BY <3>8, <4>1
      <4>3. chat'[u] = chat[u] \ {run[w].rows[u].id}
        BY <3>3, <4>2 DEF Taken
      <4> QED BY <3>6, <3>8, <4>3
    <3> QED BY <2>0, <3>4, <3>5, <3>7, <3>9
  <2>5. ASSUME NEW w \in Workers, DeleteBegin(w) \/ DeleteStep(w)
        PROVE  /\ \A v \in Workers : Deleting(v)' =>
                     \A u \in Users : chat'[u] # {} => u \in run'[v].todo
               /\ status' = "DELETED" => \A u \in Users : chat'[u] = {}
               /\ status' = "DELETED" => send' = "acked"
    <3>1. Others(w) /\ send' = send
      BY <2>5, SendersStep
      DEF DeleteBegin, DeleteStep, DeleteBatch, DeleteWrite, DeleteFinish, queue
    <3>2. \A u \in Users : chat'[u] # {} => chat[u] # {}
      BY <2>4, <2>5 DEF DeleteBegin, DeleteStep, DeleteWrite, DeleteFinish, telegram
    <3>3. Deleting(w)' => \A u \in Users : chat'[u] # {} => u \in run'[w].todo
      <4>1. CASE DeleteBegin(w)
        BY <2>3, <4>1
      <4>2. CASE DeleteBatch(w)
        BY <2>4, <4>2
      <4>3. CASE DeleteWrite(w)
        BY <2>0, <3>2, <4>3, DeleteWriteDoes DEF Deleting
      <4>4. CASE DeleteFinish(w)
        BY <4>4, LeaveDoes DEF DeleteFinish, Deleting
      <4> QED BY <2>5, <4>1, <4>2, <4>3, <4>4 DEF DeleteStep
    <3>4. \A v \in Workers : v # w => (Deleting(v)' <=> Deleting(v)) /\ run'[v] = run[v]
      BY <3>1 DEF Others, Deleting
    <3>5. CASE DeleteFinish(w)
      <4>1. Deleting(w) /\ run[w].todo = {}
        BY <3>5 DEF DeleteFinish, Deleting
      <4>2. \A u \in Users : chat'[u] = {}
        BY <2>0, <3>2, <4>1
      <4>3. send = "acked"
        BY <2>0, <4>1, CalmApart
      <4> QED BY <3>1, <4>2, <4>3
    <3>6. CASE ~DeleteFinish(w)
      <4>1. status' = status
        BY <2>5, <3>6 DEF DeleteBegin, DeleteStep, DeleteBatch, DeleteWrite
      <4> QED BY <2>0, <3>1, <3>2, <3>3, <3>4, <4>1
    <3> QED BY <3>5, <3>6
  <2> QED BY <1>2, <2>1, <2>2, <2>5, CalmSteps DEF BroadcastNext
<1> QED BY <1>1, <1>2

-----------------------------------------------------------------------------
(* Counters.                                                                *)

\* Counting some more that are not counted yet.
LEMMA CountMore ==
    ASSUME NEW S \in SUBSET Users, NEW T \in SUBSET Users, S \cap T = {}
    PROVE  /\ Cardinality(S \cup T) = Cardinality(S) + Cardinality(T)
           /\ Cardinality(S) \in Nat /\ Cardinality(T) \in Nat
<1>1. /\ IsFiniteSet(S) /\ IsFiniteSet(T) /\ Cardinality(S) \in Nat /\ Cardinality(T) \in Nat
  BY SubsetCount
<1>2. Cardinality(S \cup T) = Cardinality(S) + Cardinality(T) - Cardinality(S \cap T)
  BY <1>1, FS_Union
<1>3. Cardinality(S \cap T) = 0
  BY FS_EmptySet
<1> QED BY <1>1, <1>2, <1>3

LEMMA CountRecord ==
    ASSUME BroadcastTypes, KnownInv, Once, NEW w \in Workers, SendRecord(w),
       \A u \in Users : Spot(u),
           success = Cardinality(SentRows), failed = Cardinality(FailedRows)
    PROVE  /\ success' = Cardinality(SentRows') /\ failed' = Cardinality(FailedRows')
           /\ \A u \in Users : rows'[u].status = "PENDING" => rows[u].status = "PENDING"
           /\ ~AllTreated(w)'
<1>1. /\ run[w].pc = "record" /\ Sending(w) /\ run[w].batch \subseteq Users
      /\ \A x \in run[w].batch : run[w].rows[x].status \in {"SENT", "FAILED"}
  BY SendRecordDoes, RunType DEF BroadcastTypes, LocalsInv, WorkerInv, Sending, Locals
<1>2. run[w].batch \subseteq run[w].known /\ run[w].known = Recipients(rows)
  BY <1>1 DEF KnownInv
<1>3. BulkUpdate(run[w].batch, run[w].rows) /\ CountBatch(w) /\ run'[w].pc = "check"
  BY <1>2, SendRecordDoes
<1>4. \A u \in Users : rows'[u] = IF u \in run[w].batch THEN run[w].rows[u] ELSE rows[u]
  BY <1>2, <1>3 DEF BulkUpdate, Recipients
<1>5. \A u \in run[w].batch : rows[u].status = "PENDING"
  BY <1>1 DEF Spot, InHand
<1> DEFINE sent == {u \in run[w].batch : run[w].rows[u].status = "SENT"}
<1>6. /\ success' = success + Cardinality(sent)
      /\ failed' = failed + Cardinality(run[w].batch \ sent)
  BY <1>3 DEF CountBatch
<1>7. SentRows' = SentRows \cup sent /\ SentRows \cap sent = {}
  BY <1>1, <1>4, <1>5 DEF SentRows
<1>8. /\ FailedRows' = FailedRows \cup (run[w].batch \ sent)
      /\ FailedRows \cap (run[w].batch \ sent) = {}
  BY <1>1, <1>4, <1>5 DEF FailedRows
<1>9. SentRows \subseteq Users /\ FailedRows \subseteq Users /\ sent \subseteq Users
  BY <1>1 DEF SentRows, FailedRows
<1> HIDE DEF sent
<1>10. Cardinality(SentRows') = Cardinality(SentRows) + Cardinality(sent)
  BY <1>7, <1>9, CountMore
<1>11. Cardinality(FailedRows') = Cardinality(FailedRows) + Cardinality(run[w].batch \ sent)
  BY <1>1, <1>8, <1>9, CountMore
<1>12. \A u \in Users : rows'[u].status = "PENDING" => rows[u].status = "PENDING"
  BY <1>4, <1>5
<1> QED BY <1>3, <1>6, <1>10, <1>11, <1>12 DEF AllTreated

\* What a deletion writes back moves nothing from one count to another.
LEMMA CountWrite ==
    ASSUME NEW w \in Workers, DeleteWrite(w), Carries(run[w].rows)
    PROVE  /\ SentRows' = SentRows /\ FailedRows' = FailedRows
           /\ \A u \in Users : rows'[u].status = "PENDING" => rows[u].status = "PENDING"
<1>1. \A u \in Users : Class(rows'[u].status) = Class(rows[u].status)
  BY WrittenSame
<1>2. \A u \in Users : /\ rows'[u].status \in {"SENT", "DELETED"}
                            <=> rows[u].status \in {"SENT", "DELETED"}
                       /\ rows'[u].status = "FAILED" <=> rows[u].status = "FAILED"
                       /\ rows'[u].status = "PENDING" <=> rows[u].status = "PENDING"
  BY <1>1 DEF Class
<1> QED BY <1>2 DEF SentRows, FailedRows

Counted ==
    /\ success = Cardinality(SentRows) /\ failed = Cardinality(FailedRows)
    /\ status = "COMPLETED" \/ (\E w \in Workers : AllTreated(w))
         => \A u \in Users : rows[u].status # "PENDING"

LEMMA CountStart ==
    ASSUME BroadcastTypes, StageInv, deliveries = 0, NEW w \in Workers, SendBegin(w), Calm'
    PROVE  Counted'
<1>1. /\ Others(w)
      /\ \A u \in Users : rows'[u] = IF u \in run'[w].todo
                                     THEN [status |-> "PENDING", id |-> 0] ELSE NoRow
      /\ run'[w].todo # {} => run'[w].pc = "check"
  BY CalmSteps, FirstBegin
<1>2. SentRows' = {} /\ FailedRows' = {}
  BY <1>1 DEF SentRows, FailedRows, NoRow
<1>3. success' = 0 /\ failed' = 0 /\ status' # "COMPLETED"
  BY DEF SendBegin, StageInv
<1>4. \A v \in Workers : v # w => ~AllTreated(v)'
  <2>1. \A v \in Workers : ~Sending(v)
    BY DEF StageInv
  <2> QED BY <1>1, <2>1 DEF Others, AllTreated, Sending
<1>5. AllTreated(w)' => \A u \in Users : rows'[u].status # "PENDING"
  BY <1>1 DEF AllTreated, NoRow
<1> QED BY <1>2, <1>3, <1>4, <1>5, FS_EmptySet DEF Counted

LEMMA CountStep ==
    ASSUME BroadcastTypes, GivenInv, StageInv, SenderInv, KnownInv, OverInv, SpotInv, CarryInv,
       CountInv,
           [BroadcastNext]_broadcastVars
    PROVE  CountInv'
<1> SUFFICES ASSUME Calm'
             PROVE  Counted'
  BY DEF CountInv, Counted
<1>1. CASE StartBroadcast
  <2>1. /\ deliveries = 0 /\ run' = run /\ rows' = rows /\ success' = success /\ failed' = failed
        /\ status' # "COMPLETED"
    BY <1>1 DEF StartBroadcast, StageInv
  <2>2. SentRows' = {} /\ FailedRows' = {}
    BY <2>1 DEF StageInv, SentRows, FailedRows, NoRows, NoRow
  <2>3. \A v \in Workers : ~AllTreated(v)'
    BY <2>1 DEF StageInv, Sending, AllTreated
  <2> QED BY <2>1, <2>2, <2>3, FS_EmptySet DEF Counted, StageInv
<1>2. CASE ~StartBroadcast
  <2>0. Calm /\ Counted /\ \A u \in Users : Spot(u)
    BY <1>2, CalmStep DEF CountInv, Counted, SpotInv
  <2>1. CASE \/ Dispatch \/ CancelBroadcast \/ CancelCommit \/ DeleteBroadcast
             \/ UNCHANGED broadcastVars
    <3>1. run' = run /\ rows' = rows /\ success' = success /\ failed' = failed
      BY <2>1 DEF Dispatch, CancelBroadcast, CancelCommit, DeleteBroadcast, broadcastVars, counters
    <3>2. status' = "COMPLETED" => status = "COMPLETED"
      BY <2>1 DEF Dispatch, CancelBroadcast, CancelCommit, DeleteBroadcast, broadcastVars,
         SetStatus
    <3> QED BY <2>0, <3>1, <3>2 DEF Counted, SentRows, FailedRows, AllTreated
  <2>2. CASE ClearOldBroadcasts
    BY <2>2 DEF ClearOldBroadcasts, Calm, Exists
  <2>3. ASSUME NEW w \in Workers, SendBegin(w)
        PROVE  Counted'
    <3>1. deliveries = 0
      BY <2>3, CalmSteps, FirstBegin
    <3> QED BY <2>3, <3>1, CountStart
  <2>4. ASSUME NEW w \in Workers, SendCheck(w)
        PROVE  Counted'
    <3>1. rows' = rows /\ success' = success /\ failed' = failed /\ status' = status
      BY <2>4 DEF SendCheck, counters
    <3>2. Others(w) /\ run[w].pc = "check" /\ run[w].batch = {}
      BY <2>4, SendCheckDoes DEF BroadcastTypes, LocalsInv, WorkerInv
    <3>3. AllTreated(w)' => \A u \in Users : rows[u].status # "PENDING"
      <4>1. AllTreated(w)' => run[w].todo = {}
        BY <2>4, SendCheckDoes DEF AllTreated
      <4> QED BY <2>0, <3>2, <4>1 DEF Spot, Sending
    <3>4. \A v \in Workers : AllTreated(v)' => AllTreated(v) \/ v = w
      BY <3>2 DEF AllTreated, Others
    <3> QED BY <2>0, <3>1, <3>3, <3>4 DEF Counted, SentRows, FailedRows
  <2>5. ASSUME NEW w \in Workers, SendRecord(w)
        PROVE  Counted'
    <3>1. status' = status /\ Others(w)
      BY <2>5, SendRecordDoes DEF SendRecord
    <3>2. /\ success' = Cardinality(SentRows') /\ failed' = Cardinality(FailedRows')
          /\ \A u \in Users : rows'[u].status = "PENDING" => rows[u].status = "PENDING"
          /\ ~AllTreated(w)'
      BY <2>0, <2>5, CountRecord DEF Counted, Calm
    <3>3. \A v \in Workers : AllTreated(v)' => AllTreated(v)
      BY <3>1, <3>2 DEF AllTreated, Others
    <3> QED BY <2>0, <3>1, <3>2, <3>3 DEF Counted
  <2>6. ASSUME NEW w \in Workers,
               \/ SendBatch(w) \/ SendFinish(w) \/ DeleteBegin(w) \/ DeleteBatch(w)
               \/ DeleteFinish(w)
        PROVE  Counted'
    <3>1. rows' = rows /\ success' = success /\ failed' = failed
      BY <2>6 DEF SendBatch, SendFinish, DeleteBegin, DeleteBatch, DeleteFinish, counters
    <3>2. Others(w) /\ ~AllTreated(w)'
      BY <2>6, SendBatchDoes, LeaveDoes, DeleteBeginDoes, DeleteBatchDoes
      DEF SendFinish, DeleteFinish, AllTreated
    <3>3. status' = "COMPLETED" => status = "COMPLETED" \/ AllTreated(w)
      BY <2>6 DEF SendBatch, SendFinish, DeleteBegin, DeleteBatch, DeleteFinish, SetStatus,
         AllTreated
    <3>4. \A v \in Workers : AllTreated(v)' => AllTreated(v)
      BY <3>2 DEF AllTreated, Others
    <3> QED BY <2>0, <3>1, <3>3, <3>4 DEF Counted, SentRows, FailedRows
  <2>7. ASSUME NEW w \in Workers, DeleteWrite(w)
        PROVE  Counted'
    <3>1. status' = status /\ success' = success /\ failed' = failed
      BY <2>7 DEF DeleteWrite, counters
    <3>2. Carries(run[w].rows)
      BY <2>0, <2>7 DEF CarryInv, DeleteWrite, Deleting
    <3>3. Others(w) /\ ~AllTreated(w)'
      BY <2>7, DeleteWriteDoes DEF AllTreated
    <3>4. \A v \in Workers : AllTreated(v)' => AllTreated(v)
      BY <3>3 DEF AllTreated, Others
    <3> QED BY <2>0, <2>7, <3>1, <3>2, <3>4, CountWrite DEF Counted
  <2> QED BY <1>2, <2>1, <2>2, <2>3, <2>4, <2>5, <2>6, <2>7, CalmSteps
      DEF BroadcastNext, SendStep, DeleteStep
<1> QED BY <1>1, <1>2

\* total_count is written when the messages are inserted, and the messages stay.
LEMMA TotalStep ==
    ASSUME BroadcastTypes, GivenInv, StageInv, TotalIsRecipients, [BroadcastNext]_broadcastVars
    PROVE  TotalIsRecipients'
<1> SUFFICES ASSUME Exists', Recipients(rows)' # {}
             PROVE  total' = Cardinality(Recipients(rows)')
  BY DEF TotalIsRecipients
<1>1. CASE StartBroadcast
  <2>1. rows' = NoRows
    BY <1>1 DEF StartBroadcast, StageInv
  <2> QED BY <2>1 DEF Recipients, NoRows
<1>2. CASE \/ Dispatch \/ CancelBroadcast \/ CancelCommit \/ DeleteBroadcast
           \/ UNCHANGED broadcastVars
  <2>1. rows' = rows /\ total' = total /\ (Exists' => Exists)
    BY <1>2 DEF Dispatch, CancelBroadcast, CancelCommit, DeleteBroadcast, broadcastVars, counters,
       SetStatus, Exists
  <2> QED BY <2>1 DEF TotalIsRecipients, Recipients
<1>3. CASE ClearOldBroadcasts
  BY <1>3 DEF ClearOldBroadcasts, Exists
<1>4. ASSUME NEW w \in Workers, SendBegin(w)
      PROVE  total' = Cardinality(Recipients(rows)')
  <2>1. Exists
    BY <1>4 DEF SendBegin, Exists
  <2>2. PICK a \in SUBSET Users :
           IF a = {} THEN rows' = rows /\ total' = total ELSE Initialize(a)
    BY <1>4, SendBeginDoes
  <2>3. CASE rows' = rows /\ total' = total
    BY <2>1, <2>3 DEF TotalIsRecipients, Recipients
  <2>4. CASE ~(rows' = rows /\ total' = total)
    <3>1. /\ rows' = [u \in Users |-> IF u \in a THEN [status |-> "PENDING", id |-> 0] ELSE NoRow]
          /\ total' = Cardinality(a)
      BY <2>2, <2>4 DEF Initialize
    <3>2. Recipients(rows)' = a
      BY <3>1 DEF Recipients, NoRow
    <3> QED BY <3>1, <3>2
  <2> QED BY <2>3, <2>4
<1>5. ASSUME NEW w \in Workers,
             SendStep(w) \/ DeleteBegin(w) \/ DeleteStep(w) \/ Crash(w)
      PROVE  total' = Cardinality(Recipients(rows)')
  <2>1. Recipients(rows)' = Recipients(rows)
    BY <1>5, RecipientsKept
  <2>2. total' = total /\ (Exists' => Exists)
    BY <1>5 DEF SendStep, SendCheck, SendBatch, SendRecord, SendFinish, DeleteBegin, DeleteStep,
       DeleteBatch, DeleteWrite, DeleteFinish, Crash, counters, SetStatus, Exists
  <2> QED BY <2>1, <2>2 DEF TotalIsRecipients
<1> QED BY <1>1, <1>2, <1>3, <1>4, <1>5 DEF BroadcastNext

-----------------------------------------------------------------------------
(* Cancellations.                                                           *)

\* A faultless or faulty step says nothing of a cancellation.
LEMMA CanceledStep ==
    ASSUME [BroadcastNext]_broadcastVars, ~CancelCommit
    PROVE  "canceled" \in mishaps' <=> "canceled" \in mishaps
<1>1. CASE \/ StartBroadcast \/ Dispatch \/ CancelBroadcast \/ DeleteBroadcast
           \/ ClearOldBroadcasts \/ UNCHANGED broadcastVars
  BY <1>1 DEF StartBroadcast, Dispatch, CancelBroadcast, DeleteBroadcast,
     ClearOldBroadcasts, broadcastVars, history, Fault
<1>2. ASSUME NEW w \in Workers, SendBegin(w) \/ SendStep(w)
      PROVE  "canceled" \in mishaps' <=> "canceled" \in mishaps
  <2>1. CASE SendBegin(w)
    BY <2>1 DEF SendBegin, Fault
  <2>2. CASE SendBatch(w)
    BY <2>2 DEF SendBatch, FaultIf, Fault, history
  <2>3. CASE SendCheck(w) \/ SendRecord(w) \/ SendFinish(w)
    BY <2>3 DEF SendCheck, SendRecord, SendFinish, history
  <2> QED BY <1>2, <2>1, <2>2, <2>3 DEF SendStep
<1>3. ASSUME NEW w \in Workers, DeleteBegin(w) \/ DeleteStep(w) \/ Crash(w)
      PROVE  "canceled" \in mishaps' <=> "canceled" \in mishaps
  <2>1. CASE DeleteBatch(w)
    <3>1. PICK S : FaultIf("refuse", S)
      BY <2>1 DEF DeleteBatch
    <3> QED BY <3>1 DEF FaultIf, Fault, history
  <2>2. CASE Crash(w)
    BY <2>2 DEF Crash, Fault
  <2>3. CASE DeleteBegin(w) \/ DeleteWrite(w) \/ DeleteFinish(w)
    BY <2>3 DEF DeleteBegin, DeleteWrite, DeleteFinish, history
  <2> QED BY <1>3, <2>1, <2>2, <2>3 DEF DeleteStep
<1> QED BY <1>1, <1>2, <1>3 DEF BroadcastNext

Heeded ==
    IF "canceled" \in mishaps
    THEN /\ extra <= BatchSize
         /\ status = "CANCELED" \/ send = "acked"
         /\ \A w \in Workers : run[w].pc = "batch" => extra = 0
    ELSE extra = 0

\* What no batch was sent in, and no other batch begun, leaves a cancellation heeded.
LEMMA HeededKept ==
    ASSUME Heeded, extra' = extra, "canceled" \in mishaps' <=> "canceled" \in mishaps,
           (status = "CANCELED" \/ send = "acked") => (status' = "CANCELED" \/ send' = "acked"),
           \A w \in Workers : run'[w].pc = "batch" => run[w].pc = "batch"
    PROVE  Heeded'
BY DEF Heeded

LEMMA StopBatch ==
    ASSUME BroadcastTypes, GivenInv, Heeded, [BroadcastNext]_broadcastVars, NEW w \in Workers,
       SendBatch(w),
           \A v \in Workers : Sending(v) => v = w
    PROVE  Heeded'
<1>1. /\ Others(w) /\ run[w].pc = "batch" /\ run'[w].pc = "record"
  BY SendBatchDoes
<1>2. PICK lost \in SUBSET run[w].batch :
         extra' = IF "canceled" \in mishaps
                  THEN extra + Cardinality(run[w].batch \ lost) ELSE extra
  BY SendBatchDoes
<1>3. "canceled" \in mishaps' <=> "canceled" \in mishaps
  BY CanceledStep DEF SendBatch, CancelCommit, queue
<1>4. status' = status /\ send' = send
  BY DEF SendBatch, queue
<1>5. \A v \in Workers : run'[v].pc # "batch"
  BY <1>1 DEF Others, Sending
<1>6. "canceled" \in mishaps => extra' <= BatchSize
  <2>1. SUFFICES ASSUME "canceled" \in mishaps
                 PROVE  extra' <= BatchSize
    OBVIOUS
  <2>2. extra = 0
    BY <1>1, <2>1 DEF Heeded
  <2>3. run[w].batch \subseteq Users /\ Cardinality(run[w].batch) <= BatchSize
    BY <1>1, RunType DEF BroadcastTypes, LocalsInv, WorkerInv, Locals
  <2>4. /\ Cardinality(run[w].batch \ lost) <= Cardinality(run[w].batch)
        /\ Cardinality(run[w].batch \ lost) \in Nat /\ Cardinality(run[w].batch) \in Nat
    BY <2>3, SubsetCount, NoMore
  <2> QED BY <1>2, <2>1, <2>2, <2>3, <2>4, Bounds
<1> QED BY <1>2, <1>3, <1>4, <1>5, <1>6 DEF Heeded

LEMMA StopStep ==
    ASSUME BroadcastTypes, GivenInv, StageInv, SenderInv, OverInv, StopInv,
           [BroadcastNext]_broadcastVars
    PROVE  StopInv'
<1> SUFFICES ASSUME Spared({"overlap", "late"})'
             PROVE  Heeded'
  BY DEF StopInv, Heeded
<1>0. Spared({"overlap", "late"}) /\ Heeded
  BY SparedStep DEF StopInv, Heeded
<1>1. /\ \A v, x \in Workers : Sending(v) /\ Sending(x) => v = x
      /\ \A v \in Workers : Deleting(v) => send = "acked"
      /\ send = "acked" => \A v \in Workers : ~Sending(v)
  BY <1>0, NoOverlap DEF Spared
<1>2. CASE CancelCommit
  <2>1. status' = "CANCELED"
    BY <1>2 DEF CancelCommit, SetStatus, StageInv
  <2>2. extra' = extra /\ run' = run
    BY <1>2 DEF CancelCommit, telegram
  <2>3. extra <= BatchSize /\ \A v \in Workers : run[v].pc = "batch" => extra = 0
    BY <1>0, Bounds DEF Heeded
  <2>4. "canceled" \in mishaps'
    BY <1>2 DEF CancelCommit
  <2> QED BY <2>1, <2>2, <2>3, <2>4 DEF Heeded
<1>3. CASE ~CancelCommit
  <2>0. "canceled" \in mishaps' <=> "canceled" \in mishaps
    BY <1>3, CanceledStep
  <2>1. CASE \/ StartBroadcast \/ Dispatch \/ CancelBroadcast \/ DeleteBroadcast
             \/ ClearOldBroadcasts \/ UNCHANGED broadcastVars
    <3>1. run' = run /\ extra' = extra
      BY <2>1, CommandsLeave
    <3>2. (status = "CANCELED" \/ send = "acked") => (status' = "CANCELED" \/ send' = "acked")
      BY <2>1 DEF StartBroadcast, Dispatch, CancelBroadcast, DeleteBroadcast, ClearOldBroadcasts,
         broadcastVars, queue, StageInv
    <3> QED BY <1>0, <2>0, <3>1, <3>2, HeededKept
  <2>2. ASSUME NEW w \in Workers, SendBegin(w)
        PROVE  Heeded'
    <3>1. /\ Others(w) /\ run'[w].pc # "batch"
      BY <2>2, SendBeginDoes
    <3>2. status' = status /\ send' = send /\ extra' = extra
      BY <2>2 DEF SendBegin, telegram
    <3> QED BY <1>0, <2>0, <3>1, <3>2, HeededKept DEF Others
  <2>3. ASSUME NEW w \in Workers, SendCheck(w)
        PROVE  Heeded'
    <3>1. status' = status /\ send' = send /\ extra' = extra
      BY <2>3 DEF SendCheck, telegram, queue
    <3>2. Others(w) /\ (run'[w].pc = "batch" => ~Stopped(w)) /\ Sending(w)
      BY <2>3, SendCheckDoes DEF Sending
    <3>3. "canceled" \in mishaps => run'[w].pc # "batch"
      BY <1>0, <1>1, <3>2 DEF Heeded, Stopped
    <3>4. "canceled" \notin mishaps => Heeded'
      BY <1>0, <2>0, <3>1 DEF Heeded
    <3>5. "canceled" \in mishaps => \A v \in Workers : run'[v].pc = "batch" => run[v].pc = "batch"
      BY <3>2, <3>3 DEF Others
    <3> QED BY <1>0, <2>0, <3>1, <3>4, <3>5, HeededKept
  <2>4. ASSUME NEW w \in Workers, SendBatch(w)
        PROVE  Heeded'
    <3>1. Sending(w)
      BY <2>4 DEF SendBatch, Sending
    <3> QED BY <1>0, <1>1, <2>4, <3>1, StopBatch
  <2>5. ASSUME NEW w \in Workers,
               \/ SendRecord(w) \/ SendFinish(w) \/ DeleteBegin(w) \/ DeleteStep(w) \/ Crash(w)
        PROVE  Heeded'
    <3>1. extra' = extra
      BY <2>5, DeleteBatchDoes
      DEF SendRecord, SendFinish, DeleteBegin, DeleteStep, DeleteBatch, DeleteWrite, DeleteFinish,
          Crash, telegram
    <3>2. Others(w) /\ run'[w].pc # "batch"
      BY <2>5, SendRecordDoes, LeaveDoes, DeleteBeginDoes, DeleteBatchDoes, DeleteWriteDoes
      DEF SendFinish, DeleteStep, DeleteFinish, Crash
    <3>3. (status = "CANCELED" \/ send = "acked") => (status' = "CANCELED" \/ send' = "acked")
      <4>1. CASE SendFinish(w)
        BY <4>1 DEF SendFinish, Ack
      <4>2. CASE DeleteFinish(w)
        BY <1>1, <4>2 DEF DeleteFinish, Deleting
      <4>3. CASE ~SendFinish(w) /\ ~DeleteFinish(w)
        BY <2>5, <4>3 DEF SendRecord, DeleteBegin, DeleteStep, DeleteBatch, DeleteWrite, Crash,
           queue
      <4> QED BY <4>1, <4>2, <4>3
    <3> QED BY <1>0, <2>0, <3>1, <3>2, <3>3, HeededKept DEF Others
  <2> QED BY <1>3, <2>1, <2>2, <2>3, <2>4, <2>5 DEF BroadcastNext, SendStep
<1> QED BY <1>2, <1>3

-----------------------------------------------------------------------------
(* The invariant.                                                           *)

LEMMA InitInv == ASSUME BroadcastInit PROVE BroadcastInv
<1> USE DEF BroadcastInit
<1>1. /\ Idle \in Locals /\ NoRow \in Messages /\ NoRows \in [Users -> Messages]
      /\ \A u \in Users : NoRows[u] = NoRow
  <2>1. 0 \in 0 .. MaxDeliveries /\ 0 \in 0 .. MaxDeletes
    BY Bounds
  <2>2. NoRow \in Messages
    BY <2>1 DEF NoRow, Messages
  <2> QED BY <2>1, <2>2 DEF Idle, Locals, NoRows, Results
<1>2. \A w \in Workers : run[w] = Idle /\ run[w].pc = "idle" /\ ~Sending(w) /\ ~Deleting(w)
  BY DEF Sending, Deleting, Idle
<1>3. /\ run \in [Workers -> Locals] /\ jobs \in [Jobs -> JobType]
      /\ \A j \in Jobs : jobs[j].state = "none" /\ jobs[j].rows = NoRows
  BY <1>1 DEF JobType, NoJob
<1>4. BroadcastTypeOK
  <2>1. \A w \in Workers : /\ run[w].todo \cup run[w].batch \cup run[w].known \subseteq Users
                           /\ run[w].rows \in [Users -> Messages]
    BY <1>3 DEF Locals
  <2>2. given \in [Users -> 0 .. MaxDeliveries] /\ \A u \in Users : chat[u] \subseteq 1 .. given[u]
    BY Bounds
  <2>3. /\ deliveries \in 0 .. MaxDeliveries /\ faults \in 0 .. MaxFaults
        /\ {total, success, failed, extra} \subseteq Nat
    BY Bounds
  <2>4. jobs \in [Jobs -> [state : {"none", "queued", "acked"}, rows : [Users -> Messages]]]
    BY <1>3 DEF JobType
  <2> QED BY <1>1, <2>1, <2>2, <2>3, <2>4 DEF BroadcastTypeOK, Statuses
<1>5. LocalsInv
  <2>1. Shaped(NoRows)
    BY <1>1 DEF Shaped
  <2>2. \A w \in Workers : run[w].rows = NoRows
    BY <1>2 DEF Idle
  <2>3. \A w \in Workers : WorkerInv(w)
    BY <1>2, <2>1, <2>2 DEF WorkerInv
  <2> QED BY <1>2, <1>3, <2>1, <2>3 DEF LocalsInv
<1>6. StageInv
  BY <1>2, <1>3 DEF StageInv, Asked, Exists
<1>7. GivenInv
  <2>1. \A u \in Users : Owers(u) = {}
    BY <1>2 DEF Owers, Owing
  <2> QED BY <2>1, FS_EmptySet DEF GivenInv
<1>8. SenderInv /\ KnownInv /\ OverInv
  BY <1>2, <1>3 DEF SenderInv, KnownInv, OverInv, Asked
<1>9. ~Exists
  BY DEF Exists
<1>10. SpotInv /\ CarryInv /\ ClearedInv /\ CountInv /\ TotalIsRecipients
  BY <1>9 DEF SpotInv, CarryInv, ClearedInv, CountInv, TotalIsRecipients, Calm
<1>11. StopInv
  BY DEF StopInv
<1> QED BY <1>4, <1>5, <1>6, <1>7, <1>8, <1>10, <1>11 DEF BroadcastInv

LEMMA NextInv == ASSUME BroadcastInv, [BroadcastNext]_broadcastVars PROVE BroadcastInv'
<1> USE DEF BroadcastInv
<1>1. BroadcastTypes
  BY DEF BroadcastTypes
<1>2. BroadcastTypes' /\ StageInv' /\ GivenInv'
  BY <1>1, TypeStep, StageStep, GivenStep
<1>3. SenderInv' /\ KnownInv' /\ OverInv'
  BY <1>1, SenderStep, KnownStep, OverStep
<1>4. SpotInv' /\ CarryInv' /\ ClearedInv'
  BY <1>1, SpotStep, CarryStep, ClearedStep
<1>5. CountInv' /\ TotalIsRecipients' /\ StopInv'
  BY <1>1, CountStep, TotalStep, StopStep
<1> QED BY <1>2, <1>3, <1>4, <1>5 DEF BroadcastTypes

\* The invariant says what the run asks.
LEMMA InvAgrees == ASSUME BroadcastInv PROVE RowsAgree
<1> USE DEF BroadcastInv
<1>1. NothingOrphaned
  <2>1. SUFFICES ASSUME Once, Spared({"overlap"}), Unsending, Exists, NEW u \in Users, chat[u] # {}
                 PROVE  rows[u].status = "SENT" /\ chat[u] = {rows[u].id}
    BY DEF NothingOrphaned
  <2>2. \A w \in Workers : ~InHand(w, u)
    BY <2>1 DEF Unsending, InHand
  <2> QED BY <2>1, <2>2 DEF SpotInv, Spot, Calm
<1>2. DeletedIsRemoved
  BY DEF DeletedIsRemoved, ClearedInv, Calm, Spared, Exists
<1>3. CancelStops
  <2>1. BatchSize \in Nat
    BY Bounds
  <2> QED BY <2>1 DEF CancelStops, StopInv
<1>4. CountersAgree
  <2>1. SUFFICES ASSUME Once, Spared({"overlap"}), Exists
                 PROVE  /\ success = Cardinality(SentRows) /\ failed = Cardinality(FailedRows)
                        /\ status = "COMPLETED" /\ Recipients(rows) # {}
                              => total = success + failed
    BY DEF CountersAgree, SentRows, FailedRows
  <2>2. Calm
    BY <2>1 DEF Calm
  <2>3. success = Cardinality(SentRows) /\ failed = Cardinality(FailedRows)
    BY <2>2 DEF CountInv
  <2>4. SUFFICES ASSUME status = "COMPLETED", Recipients(rows) # {}
                 PROVE  total = success + failed
    BY <2>3
  <2>5. \A u \in Users : rows[u].status # "PENDING"
    BY <2>2, <2>4 DEF CountInv
  <2>6. rows \in [Users -> Messages] /\ Shaped(rows)
    BY DEF BroadcastTypeOK, LocalsInv
  <2>7. \A u \in Users : rows[u] # NoRow <=> rows[u].status \in {"SENT", "DELETED", "FAILED"}
    BY <2>5, <2>6 DEF Messages, Shaped, NoRow
  <2>8. /\ Recipients(rows) = SentRows \cup FailedRows /\ SentRows \cap FailedRows = {}
        /\ SentRows \subseteq Users /\ FailedRows \subseteq Users
    BY <2>7 DEF Recipients, SentRows, FailedRows
  <2>9. Cardinality(Recipients(rows)) = Cardinality(SentRows) + Cardinality(FailedRows)
    BY <2>8, CountMore
  <2> QED BY <2>1, <2>3, <2>4, <2>9 DEF TotalIsRecipients
<1> QED BY <1>1, <1>2, <1>3, <1>4 DEF RowsAgree

\* The invariant holds in every reachable state of a broadcast: send_broadcast_task and
\* delete_broadcast_task, whatever is delivered twice, canceled, refused or cut short.
THEOREM BroadcastInvariant == BroadcastSpec => []BroadcastInv
<1>1. BroadcastInit => BroadcastInv
  BY InitInv
<1>2. BroadcastInv /\ [BroadcastNext]_broadcastVars => BroadcastInv'
  BY NextInv
<1> QED BY <1>1, <1>2, PTL DEF BroadcastSpec

\* The rows say what is in the chats, so that a deletion removes it; the counters are the
\* rows'; and a cancellation is heeded (send_broadcast_task, delete_broadcast_task).
THEOREM RowsAlwaysAgree == BroadcastSpec => []RowsAgree
<1>1. BroadcastInv => RowsAgree
  BY InvAgrees
<1> QED BY <1>1, BroadcastInvariant, PTL

=============================================================================
