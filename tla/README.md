# A verification project for tunashop

tunashop sells VPN subscriptions through a Telegram bot, a Mini App and a website.
The VPN itself is run by an external panel (Remnawave); the shop keeps users,
subscriptions, payments and a referral ledger in PostgreSQL, volatile state in
Redis, and moves everything that is slow or periodic into taskiq tasks on a Redis
stream. There is no test suite, and most of what can go wrong is a matter of
order: two requests of one user, a repeated webhook, a panel call whose answer is
lost, a worker that dies between two commits, a cron job that overlaps a
purchase. This directory models that part in TLA+, checks it with TLC and proves
the main results with TLAPS.

Paths below are relative to the repository; `PROJECT.json` maps every definition
to the lines it models and lists the hazards, with the properties that cover each.

    Payments            paid path: invoice, webhook, worker, purchase, commission
      Fulfilment        what the paid path promises; Payments implements it
      PaymentsProofs    theorems
    ReferralLedger      balance, payouts, operators' desk, paying from the balance
      GrowthProofs      theorems of ReferralLedger and of Nudges
    TrafficPools        metered quota of a premium squad, against every operation
                        that assigns a plan
      TrafficPoolsProofs
    PanelSync           the panel's webhooks and the synchronisations, against
                        everything that creates, changes or deletes a subscription
      UpkeepProofs      theorems of PanelSync and of Support
    Checkout            purchase dialog of the bot, against the catalogue operators edit
      BotProofs         theorems of Checkout and of Broadcast
    Trials              trial, first connection, bonus day, conversion
      TrialsProofs
    Promocodes          redemptions against limits, purchases and the editor
      PromocodesProofs
    AccountMerge        one account absorbs another, against whatever writes either
      AccountMergeProofs
    Broadcast           send and delete tasks, cancellation, redelivery
      BotProofs
    Nudges              onboarding chain and lifecycle follow-ups, their sweeps
      GrowthProofs
    Support             conversation, operators' topic, the site's stream
      UpkeepProofs
    MC*.tla, MC*.cfg    instances for TLC

BotProofs, GrowthProofs and UpkeepProofs each hold the theorems of two components that
share no variable; that is why Broadcast, Nudges and PanelSync prefix the names of their
specification and of their type invariant (`BroadcastSpec`, `NudgesTypeOK`, `SyncNext`).

## 1. Inventory

### How the code runs

Every use case is an *Interactor* (`src/application/common/interactor.py`) that a
handler of the bot, an endpoint of the web application or a task calls. The DAOs of
one request share one `AsyncSession`; `src/infrastructure/database/uow.py:30-48`
rolls back when a `async with uow` block raises and commits nothing by itself: a
use case commits where it says so. Isolation is READ COMMITTED; a DTO writes back
only the attributes that were assigned (`src/application/dto/base.py:27-34`).
Hence the grain of every model here: **one database transaction, one group of reads
outside one, or one call of the panel is one action**, and between two of them
anything else may happen. Row locks taken by an UPDATE are modelled where the code
holds them across a panel call.

### The components

| component | state | operations | what is hard | what makes it correct |
|---|---|---|---|---|
| payments and purchase | `transactions`, `subscriptions`, `users.current_subscription_id`, the PSP, the panel | create invoice, webhook, ProcessPayment, PurchaseSubscription (NEW / RENEW / CHANGE), cancel old | reports repeated and reordered; retry after FAILED; panel call before commit; two purchases of a user; crash after COMPLETED | a payment is delivered at most once and for good; paid is delivered or retriable; panel and database agree; terms add up |
| purchase dialog, plans | the dialog's data and its cache of payments, `plans`, gateways | choose type, plan, term, gateway, method; edit, open, close, delete a plan; switch a gateway | a cache keyed without the plan; data loaded with a tap and saved whole when its payment exists; edits in between | what is paid is what the screen shows; one invoice per choice; a renewal is of one's own plan |
| referral ledger | `referral_events`, `balance_spends`, `payouts` | commission, three kinds of request, wallet change, Monday batch, start / complete / reject, pay a term | the balance is a sum read before the write it justifies, without a lock; two operators on one payout | one open payout; never promise what is not there; paid is final; to the wallet shown; a debit buys a term |
| traffic pools | `subscription_pool_usage`, squads of the row and of the panel | metering pass, renewal, plan change, grant, promo reward | a pass reads, queries the panel and writes back; refused calls; squads committed before the verdict | a spent pool is withheld; no reset by switching plans; nobody is cut for an older term; failures are made up for |
| panel synchronisation, subscription administration, erasure of users | rows, the current row, the panel's users, webhooks on their way | webhooks, pull, push, both panel-wide synchronisations, extend, toggle, change, delete, erase | a webhook carries an older moment; panel first, commit later; two users of the panel with one Telegram id | in step once all is delivered; a deletion never takes a live subscription; a repair repairs; nothing is left under the account's name |
| trials, first connection | `users.is_trial_available`, `user_connection_states`, `bonus_claimed_at` | activate, restart the clock, bonus day, convert | double click; a clock computed from two dates others move; a timed-out call inside a transaction | one trial per user, of its length; one restart; paid is kept |
| promo codes | `promocodes`, `promocode_activations`, `users.purchase_discount` | create, edit, activate, invoice, purchase | reward on the panel before the activation is recorded; limit checked twice | limit respected, once per user; days are what was earned; a discount is spent once |
| account merge, referral attachment | every table that names a user | merge, attach | rows inserted while being repointed; merges that cross | nobody and nothing vanishes; one open payout; nobody invites themselves |
| broadcasts | `broadcasts`, `broadcast_messages`, the chats | start, dispatch, send, cancel, delete, clean up | redelivered task, final status without a condition, messages sent during the deletion | the rows say what is in the chats; the counters agree; canceled stops; tasks end |
| onboarding nudges, lifecycle follow-ups | `onboarding_nudges`, `lifecycle_followups` | arm, cancel, sweep | overlapping sweeps; a transaction around a hundred sends; limit of rows per sweep | each step once, paced, none after the connection, nobody starved |
| support bridge | `support_conversations`, `support_messages`, topics, the stream | post, reply, close, idle close, follow | first messages that arrive together; reopen and store are two transactions; ids given before commit | one topic; every message relayed; the site misses nothing |
| sessions and sign-in | Redis tokens, `users` | e-mail, bot, widget, refresh | one-shot tokens, rotation against sign-out everywhere | each token is one GETDEL or one Lua script: nothing to interleave |
| task broker, unit of work, event bus | Redis stream, sessions | deliver, redeliver, commit, roll back | redelivery of what was not acknowledged | (external; modelled by use) |

The remaining parts (rate limiting, access mode, ad links, backup and import,
settings, statistics, Telegram dialogs, the web shell, migrations) are listed in
`PROJECT.json` with the reason they are not modelled: one-row CRUD, read-only
aggregates, presentation or pure I/O.

### How they interact

    bot / web ---CreatePayment---> PSP ---webhook---> taskiq stream
    (Checkout)                                          |
                 transactions <---ProcessPayment--------+
                      |               |
                      |        PurchaseSubscription ----> panel (squads, expiry)
                      |               |                      ^
                      |        traffic pool windows <--- metering pass (*/15)
                      |
                RecordReferralCommission ---> referral_events
                                                  |
                    balance = EARNED - SPENT - WITHDRAWN
                      |             |             |
               PayWithBalance   request payout   operators' desk, Monday batch

`Checkout` ends where `Payments` starts, with an invoice. `Payments` ends where a commission
is recorded and `ReferralLedger` starts from commissions in any order; `TrafficPools` takes
from a purchase what touches the window and the squads, `Trials` the conversion of a trial,
`Promocodes` the discount. `PanelSync` has the webhooks' side of all of them, with a purchase
as one operation (its commit is a change of the terms) and the panel's answer as a webhook.
They share the row `subscriptions` and the panel, not their variables: each module keeps the
part of the row its properties speak of (expiry and liveness; expiry; plan, squads and window;
the terms as one number). A purchase occurs in five modules, each time with its reads, its
panel call and its commit apart, next to what that module is about; composing the modules
would multiply their states without a new interleaving, since each already contains the steps
of the others that write what it reads.

## 2. The modules and the code

### Payments

Variables: `tx` is the `transactions` table, `rows` and `current` are
`subscriptions` and `users.current_subscription_id`, `panel` what Remnawave has of
each user, `gateway` the PSP's own state of a payment, `offered` the free checkouts
that may be confirmed, `worker` the program counter and locals of each execution of
`ProcessPayment`, `commission` the rows of `referral_events`; `grants`, `crashes` and
`raced` are history, the last one the users of whom a purchase wrote over what another
had read or pushed (`Overtakes`).

| action | code (`src/application/use_cases/`) |
|---|---|
| CreatePaid, CreateFree, LoseInvoice | `gateways/commands/payment.py` CreatePayment, CreateTestPayment; the free branch reuses `get_recent_pending` |
| GrowOld, CancelOldTransactions | the clock and `misc/commands/maintenance.py`, every 30 minutes |
| Settle (external), HandleReport | the PSP; `web/endpoints/payments.py`, the task, `ProcessPayment._execute` up to the commit |
| ConfirmFree | the checkout confirmed in place, bot and web |
| ReadCurrent, OpenPurchase, CallPanel, CommitPurchase | `_handle_success`, `subscription/commands/purchase.py` |
| PurchaseRaises, MarkFailed | any exception in the purchase: roll back, then FAILED without a condition |
| RecordCommission | `referral/commands/commission.py`, best effort |
| Crash | the process dies; the status committed stays |

Messages are not a queue: the PSP repeats its reports and the broker redelivers in
no order, so the stream may hold any report made so far at any time (`Reportable`).
Time is in plan durations; prices are free or not; a plan change grants some bonus
of the set `Bonuses`, computed by what `compute_change_expiry` may return.

### Checkout

One user before the purchase dialog (`telegram/routers/subscription`). `catalogue` and
`gateways` are the operators' rows, `sub` and `gift` what of the account the dialog asks
for, `dialog` its stored data with what the screen drawn from it offers, `tap` the handlers
that await a payment, `invoices` the transactions; `recent` and `clash` are history.

| action | code (`telegram/routers/subscription/handlers.py` unless named) |
|---|---|
| Start | `on_subscription_start`, links to the plans or to one, the paid trial of the menu |
| ChooseType, ChoosePlan, ChooseTerm, ChooseGateway, ChooseMethod | `on_subscription_plans`, `on_plan_select`, `on_duration_select`, `on_payment_method_select`, `on_platega_method_select`, up to the payment they await |
| Created, Refused | the rest of those handlers, from `CreatePayment`'s answer or error on |
| Back | the buttons back, `on_back_to_gateways`, `on_change_platega_method` |
| CommitPlan, ToggleUserPlanAccess, DeletePlan | `plan/commands/commit.py`, `access.py`, `order.py` |
| TogglePaymentGatewayActive | `gateways/commands/configuration.py` |
| Elsewhere (external) | the subscription bought, changed or lost on another screen; a discount |

The getters and the windows of `dialog.py` are `Show` and what it calls: a screen keeps
the buttons it was drawn with. A handler loads the dialog's data with its tap and writes it
back whole, so that of two that overlap the later to end wins; `dispatcher.py` configures no
isolation of events, and where the library makes taps of a user wait, that is one of
these behaviours.

### ReferralLedger

`earned`, `spent`, `withdrawn` are the three sums; `payout` the table; `session` a
user's request in flight, with the balance it read; `desk` what an operator has on
screen and has loaded. A request reads the sums (`ReadSums`), then whether a payout
is open (`ReadOpen`), passes the gates, and only then opens the transaction that
inserts the payout (`CreatePayout`) or debits (`ReadSubscription`, `ExtendPanel`,
`CommitSpend`). An operator opens a payout (`Show`), the use case loads it
(`LoadOpenPayout`) and writes without a condition (`MarkProcessing`, `MarkPaid`,
`MarkRejected`). `ChangeWallet` and `RunCryptoBatch` are single guarded UPDATEs.
The rest is history: `sent`, the wallet on screen when a payout seen in processing was
paid; `torn`, users whose payout was paid between the two reads of a request; `raced`,
users of whom one request wrote what another had already read past; `overruled`, payouts
that one operator had loaded when another closed them.

### TrafficPools

One pool, one user, calendar months. `pass` is `TrafficPoolMeteringService.run`
(`application/services/traffic_pools.py`) on its target, one action per read, panel call and
commit: targets, query, roll, verdict, then restore or cut, each with the transaction that
precedes its save. `op` is one operation that assigns a plan: RENEW and CHANGE are the
branches of `PurchaseSubscription`, PayWithBalance is a RENEW, GRANT is `SetUserSubscription`,
PROMO a promo code whose reward is a subscription. `window` is the row of
`subscription_pool_usage`, `squad` whether the row's squads hold the pool's, `panel` the same
on the panel; `online` a session through a premium node, which outlives the squad until it is
dropped. The user spends traffic and connects when the panel lets them. Faults are a refused
update, a refused drop, an unreadable page of the panel, a killed process. Passes and
operations overlap freely; `marks` notes, besides a killed process and a refused drop, the
first write of one during the other ("crossed").

### PanelSync

One person with a Telegram id: `account` (and how many there have been), `rows` and
`current`, the `panel`'s users that carry the id (`own`: those under the shop's name,
which the panel keeps unique), the webhooks on their way in `hooks`. The expiry, the
limits and the squads are one number, `term`: what is pushed and written back is
always all of them.

| action | code |
|---|---|
| Deliver (Changed, Ignored, Deleted), Unlink | `services/remnawave.py` RemnaWebhookService: `_process_sync`, `_process_status`, `_process_delete_subscription` in two transactions |
| Sync (Synced, Imported), SyncOne, SyncEach | `use_cases/remnawave/commands/synchronization.py` SyncRemnaUser, reached by webhook, by an operator, by `taskiq/tasks/importer.py` |
| Pull, Push, PullAll, LookPull, LookPush, LookPullAll | `use_cases/subscription/commands/sync.py`, SyncAllUsersFromPanel / FromBot |
| Extend, Change, Toggle, Delete, Buy, Lock, CallUpdate, CallDelete, CallCreate, NotCreated, CommitUpdate, CommitInsert, CommitDelete | `subscription/commands/management.py`, `set_plan.py`, the purchase: read, panel, commit |
| Erase, CollectIds, CallErase, CommitErase; Register | `user/commands/deletion.py`; the middleware that makes an account |
| ByHand, Lose, Killed (external) | the panel's own administrator; a webhook lost; the process dies |

### Trials

`now` is the day, `rows` the trial and the paid row, `panel` the expiry the panel has,
`hooks` its webhooks, `req` the operations in flight. AskTrial, CreateUser, RecordTrial
are ActivateTrialSubscription (`purchase.py:42`); Buy and Convert a CHANGE of the trial;
ReadClock, SaveClock the first connection (`services/trial_connection.py`); PressBonus,
Claim, GrantBonus the bonus button (`broadcast/commands/bonus.py`), whose panel call is
inside the claiming transaction; CallPanel is the panel call of the last three, with its
refusals and lost answers. Connects, Deliver and Lose are the panel and its webhooks
(SyncRemnaUser's part that an own row is concerned by), Day the clock, Crash the process.

### Promocodes

One code. CreatePromocode and UpdatePromocode are the editor (`promocode/commands/manage.py`),
which writes what was on screen; Validate, ReadSubscription, CallPanel, Refuse, Activate
are `ActivatePromocode` with `ValidatePromocode` before it and `create_activation`'s row
lock at its end; Invoice, Pay and Purchase are the priced order, whose discount
(`services/pricing.py`) is fixed in the invoice and cleared by the purchase.

### AccountMerge

Small tables of accounts, subscriptions, payouts, commissions, invitations and code
aliases. Ask is what the three callers (`auth/commands/telegram.py`, `oauth.py`,
`email.py`) check of the accounts they loaded; ReadSubs, Repoint, Commit, MergeFails,
CleanUp are `AccountMergeService.merge` with `dao/account_merge.py`: the UPDATEs of each
table, which see the children of their moment and lock them, then the deletion, which
waits for other transactions and cascades over what was inserted meanwhile. The others
(ReadCurrent, BuyNew, Renew, Change; AskPayout, CreatePayout, StartPayout; ReadInviter,
AddCommission; ReadCode, CreateReferral; StartTrial, Expire) insert or write rows of an
account, one such operation at a time, with what they read before their transaction.

### Broadcast

`status` and the counters of the row, `rows` of `broadcast_messages`, `chat` what is in
each chat, the send task and the delete tasks with the messages they carry, `run` the
locals of each worker. StartBroadcast and Dispatch are `broadcast/commands/lifecycle.py`;
SendBegin, SendStep are `send_broadcast_task` (`taskiq/tasks/broadcast.py`):
initialise, re-read the status, send a batch, record it, finish; DeleteBegin, DeleteStep
are `delete_broadcast_task`; CancelBroadcast and CancelCommit are a read and an
unconditional write; ClearOldBroadcasts is the weekly job. A task may be delivered again
while its worker is dead or merely slow.

### Nudges

Both tables in one module, since `onboarding/commands/process.py` and
`followup/commands/process.py` have the same shape: StartSweep lists the due rows up to
`Limit`; Work handles the first of them (skip, cancel, rate limit, send, mark) or commits;
what a sweep wrote is its own until then. Events are what users and the administrator do
(register, open the funnel, connect, lose and buy access, block the bot, disappear; the
switches), with the arming or cancelling each has in the code; `Arms` is the insert of a chain
that was checked before (`schedule`), which two requests may both pass. `Unreachable` are
users a message to whom raises every time, so that their rows stay pending where they are
(`notification.py:442`, `process.py:160`). Tick is the clock. `order` is the index on
`fire_at`: `Enqueue` puts the rows of a chain behind those due no later, `Without` takes rows
out, `Due` is what `get_due` selects of one table.

### Support

One conversation (`infrastructure/services/support.py`). UserWrites starts a message of
the site or the bot, whose steps (Step: reopen, create the topic, claim it, drop a
second one, store, commit, relay, publish) are each a transaction or a call;
OperatorWrites a reply in the topic, CloseByTopic and CloseIdle (`tasks/support.py`) the
closings. Connect, CatchUp, GoLive, Forward, Disconnect are the site's event stream
(`web/endpoints/public/support.py`): subscribe, read what is past the cursor, forward. The
read is limited (`list_messages`, 200): `Missed` is the first `Page` messages past the cursor,
or the newest ones where there is no cursor yet; `tab.left` is history, what a full page left
out.

## 3. What TLC checks

Each run ends in less than five minutes with two TLC workers. All but `pools_renewal` pass.

| run | instance | distinct states | properties |
|---|---|---|---|
| `payments` | 1 user, 2 payments, 2 workers, 3 offers (a paid trial plan, a paid renewal, a free change), 1 crash, fair | 636 640 | ProvisionedAtMostOnce, DeliveredStaysCompleted, CurrentRowIsLive, PanelAgreesWhenQuiet, CommissionOnlyIfProvisioned, Fulfils, CompletedIsResolved, TermStacks |
| `checkout` | 2 plans of 1 and 2 terms, 2 gateways, 2 methods, 1 opening, 2 invoices created one at a time, 1 change of the shop or the account, 1 refusal | 1 590 738 | PaysForTheChoice, InvoicesAreSound |
| `ledger` | 2 requests of 1 user, 2 payouts, 2 wallets, 2 operators, up to the first conflict | 645 176 | SingleOpenPayout, NoOverdraftUnlessTorn, PanelNeverBehind, PaidToTheWalletShown, PaidIsFinal, SpendsExtend |
| `pools` | 5 plans, 2 rows, 2 operations, 1 fault of 4 kinds, passes and operations that overlap, up to the first crossing write, fair | 717 530 | SquadFollowsVerdict, CountersAreFair, CleanPassSettles, QuotaDecides |
| `pools_renewal` | 1 renewal, no faults; violated | 339 | RenewalStartsOver (expected to fail) |
| `promocodes` | 2 users, 3 requests with 2 at once, 2 edits, 1 fault of 3 kinds | 1 588 027 | ActivationsAllowed, EarnedIsKept, DiscountSpentOnce |
| `merge` | 3 accounts, 3 operations with 2 at once, 1 fault of 2 kinds | 667 678 | AccountsStand, RowsFollow, KeptThroughMerge |
| `trials` | 2 operations at once, 6 in all, 4 days, 2 broadcasts, 1 fault of 6 kinds | 3 087 735 | GrantedOnce, SettledWhenQuiet, RestartsOnce |
| `broadcast` | 2 recipients in batches of 1, 2 workers, 2 deliveries, 1 deletion, 1 fault of 5 kinds, fair | 326 537 | RowsAgree, TasksEnd |
| `nudges` | 2 users, 1 of them unreachable, 4 steps in 3 chains, 2 sweeps of 2 rows, 2 events, 1 fault of 5 kinds, fair | 136 676 | SentAsPlanned, SilentAfterConnect, ArmedIsDelivered |
| `support` | 3 messages handled 2 at a time, 1 closing, 2 streams, catch-ups of 1 message, 1 fault of 5 kinds | 3 711 942 | OperatorsSeeAll, SiteFollows, HeardWhileOpen |
| `panel_sync` | 2 operations of 10 kinds, 1 change by hand, 3 panel users, 1 fault of 6 kinds | 538 639 | InStepWhenQuiet, SyncKeeps, ErasureFreesTheName |

Properties are grouped where they ask one question of one instance; the parts are
named in the modules, each with its own comment:

| property | parts |
|---|---|
| InvoicesAreSound | TypeOK, OneInvoicePerChoice, RenewsItsPlan |
| SquadFollowsVerdict | TypeOK, SpentIsWithheld, PanelMatchesRow |
| CountersAreFair | WindowsMoveForward, SwapKeepsCounter, CutForItsMonths, CutIsEffective |
| QuotaDecides | OverIsCut, UnderIsRestored (liveness) |
| ActivationsAllowed; EarnedIsKept | TypeOK, LimitHeld, OncePerUser; NoMoreThanEarned, NoDayIsLost |
| AccountsStand | TypeOK, NobodyVanishes, CodesResolve, NoSelfReferral |
| RowsFollow; KeptThroughMerge | CommissionsFollow, OneOpenPayout, TrialStaysSpent, OrphansGo; PaidIsKept, TelegramStaysBound |
| GrantedOnce; SettledWhenQuiet | TypeOK, OneTrial, NoMoreThanGranted; PaidIsKept, RowFollowsPanel |
| RowsAgree | BroadcastTypeOK, NothingOrphaned, DeletedIsRemoved, CountersAgree, TotalIsRecipients, CancelStops |
| TasksEnd | SendingEnds, DeletionEnds (liveness) |
| SentAsPlanned | NudgesTypeOK, OncePerStep, Paced |
| OperatorsSeeAll; SiteFollows | TypeOK, OneTopic, Relayed; RepliesReachTheSite, BannerAgrees |
| InStepWhenQuiet; SyncKeeps | SyncTypeOK, RowAgreesWhenQuiet, LinkedWhenQuiet; KeptWhileItLives, PullSettles |

### Bounds, and why they are enough

*Payments.* Two payments of one user are what it takes for one purchase to work on a row
another has replaced; two workers, for both to be in flight or for one report to be handled
twice at a time; users share nothing but payment ids, so one is enough. `MaxCrashes = 1` lets
a worker die at any step, its payment be reported again and the retry run without a further
crash. Three offers, each with another branch of the purchase, start from a running plan: a
renewal, on which terms stack; a free change, confirmed in place and earning no commission; a
paid trial plan. Other offers and other subscriptions to start from (none, lapsed, trial) are
left to the theorems. The run goes on after one purchase overtook another: what is said of
payments and of the current row holds there too.

*Checkout.* A plan with a single term and one with two show the screens that are skipped
and those that are not; two gateways, one of them with methods, every shape of the cache's
key; two invoices, a choice made again and a choice changed. One change closes the last
plan but one, leaves one gateway, modifies the plan on screen or takes the subscription
away, anywhere between two steps. While the one payment is being created every other tap
and button may happen; two creations that overlap are left out for size, and the model
has them (`Taps`).

*ReferralLedger.* A commission of 5 against a price and a minimum of 2 leaves a remainder
and lets a second request pass its gates after the first, and the Stars rate of 2 rounds
down, so amounts below, at and above a gate occur. Both requests are of one user, the case
in which they touch; two operators hold one payout or each another; two payouts, a closed one
and a second; two wallets, the one shown and another. `Undisputed` ends the search where one
request or operator has written over another (`raced`, `overruled`), after which nothing is
claimed of the only user; the interleavings up to that write are all there. For
`PaidToTheWalletShown`, which has no such excuse, the states past it are left to the theorem.

*TrafficPools.* Quotas of 1 and 2 units with `MaxUse = 2` give under, at and over the quota
of either plan, and the 80 % warning floor; two months give one roll; two
operations, a swap away and back; the plans are without the pool, with it unmetered,
two quotas for the term, and the monthly one of old snapshots. `MaxFaults = 1` places
one refused call or crash anywhere; the passes after it show what is made up for. `Uncrossed`
ends the search at the first write of a pass during an operation, or the reverse: an operation
may begin, call the panel and be refused between any two steps of a pass, and a pass likewise.

*PanelSync.* Two operations are every pair, overlapping or one after the other; three
users of the panel are the shop's own, a foreign one and a recreated one; three rows are
an old one, its replacement and an imported one; two terms tell old from new. One thing
done by hand and one fault (a call refused or unanswered, a process that dies, a
webhook lost, late or repeated) fall anywhere.

*Trials.* A trial, a bonus and a term of different lengths in four days let each run out,
be revived or be converted before and after the connection; six operations are each kind
once and some twice, two at a time; two broadcasts, a bonus after or across another.

*Promocodes.* A limit of one and none, rewards of each of three types, two users racing
for the last activation, an edit between validation and activation, three requests so
that two of one user overlap and one follows; reward and term are of different lengths,
so that what a lost update drops shows in the sum.

*AccountMerge.* Three accounts are the least for two merges to cross or form a chain; the
third operation is what gets between. `Starts` gives the tables a merge distinguishes
(who has which identity, subscription, invitation, commission, open payout).

*Broadcast.* Batches of one out of two recipients leave a batch before and one after whatever
happens; two deliveries, a slow worker and its double. *Nudges.* `Limit = 2` makes a third due
row wait, and the rows of the unreachable user fill the sweep or leave room; `Gap`, `Day` and
the cap each forbid some send. *Support.* Three messages are two that arrive together and one
of the other side; two streams, a reconnection; `Page = 1`, a catch-up that leaves something
out and one that does not.

`CHECK_DEADLOCK FALSE` everywhere: a bounded instance ends when its payments, days,
events or operations are used up. That a step never waits for ever is a liveness
property (`CompletedIsResolved`, `QuotaDecides`, `TasksEnd`, `ArmedIsDelivered`).

### Properties that hold under a condition

The code keeps few locks, and some properties hold only in the situation it was
written for. The condition is in the instance or in the property, and said so there;
a history variable (`mishaps`, `excused`, `overlapped`, `marks`, `raced`, `overruled`, `tab.left`)
notes what excuses it, from the write that does the damage on and not before.

* `TermStacks`, `PanelAgreesWhenQuiet`: for users not in `raced`, that is up to and including the
  first purchase of the user that writes while another of the user has read and will not look
  again; the second also for no purchase cut short by a crash or between its panel call and
  its commit.
* `PaysForTheChoice`: not for what `on_subscription_plans` left in the dialog, nor for a
  pending transaction that a purchase without payment took over. `OneInvoicePerChoice`: not
  when taps overlapped, nor for an invoice `on_subscription_plans` created, which it does not
  cache.
* `SingleOpenPayout`, `NoOverdraftUnlessTorn`, `PanelNeverBehind`, `SpendsExtend`: for users not
  in `raced`, of whom no request wrote what another had read past; the first two also not once
  a payout of the user is in `overruled`. `NoOverdraftUnlessTorn` further
  excuses a user whose payout was marked paid between the two reads of a request:
  there the code does overdraw (the sums predate the payment and the payout is no
  longer open, `queries/summary.py:38`).
* `PaidIsFinal`: for payouts not in `overruled`, which one operator had loaded when another
  closed them. A stale screen is no excuse: what an operator loads is checked again.
* TrafficPools: until a pass has written during an operation or an operation during a pass
  ("crossed") and, for what is said at rest, no process
  was killed between two commits; `CutIsEffective`: the panel drops what it is asked to
  drop. `CleanPassSettles`: quotas for the term, no kill. `CutForItsMonths` counts the month of a
  renewal whole, as the code does; see `pools_renewal`.
* PanelSync: `marks` excuses two operations that overlapped ("clash"), a change by hand
  or an import under an operation ("edited"), and a current row that was given another
  panel user ("adopted"); "at rest" means all webhooks delivered, none astray.
  `PullSettles` and `KeptWhileItLives` are free of the fault conditions.
* Trials: `SettledWhenQuiet` excuses operations that overlapped and compute from one
  subscription (of two kinds, or the bonuses of two broadcasts), and webhooks astray;
  `GrantedOnce` a bonus that revived a trial, and a first connection told again after a
  restart whose answer was lost or whose process died.
* Promocodes: `NoDayIsLost` excuses overlapping requests of one user; `DiscountSpentOnce`
  a user with two invoices open. `LimitHeld` and `NoMoreThanEarned` have no excuse.
* AccountMerge: `PaidIsKept`, `OneOpenPayout`, `TrialStaysSpent`, `TelegramStaysBound`,
  `OrphansGo` each name the kinds of operation that may not overlap the merge.
  `AccountsStand` and `CommissionsFollow` hold whatever overlaps, but for what a cascade
  deleted (`lost`).
* Broadcast: what is said of chats and counters excuses a second delivery of a task and a
  deletion that overlaps the sending.
* Nudges: `OncePerStep` allows one more message per fault. `ArmedIsDelivered` is said of users
  a message to whom does not raise every time, while fewer than `Limit` rows that do are
  pending in the table (`Starved`). `SilentAfterConnect` speaks of sweeps that start after the
  connection was recorded.
* Support: `HeardWhileOpen` excuses a closing inside a request; `SiteFollows` replies
  published out of the order of their ids, and those a catch-up longer than its page left out.

### Fairness

`Payments!FairSpec` asks weak fairness of each worker's own steps: a handler that
has been started is a coroutine of the event loop, which serves all of them; nothing
is asked of customers, of the PSP, of the panel (which may always fail) or of the
broker, and `CompletedIsResolved` is about behaviours without a crash.
`TrafficPools!FairSpec` asks weak fairness of the pass, which the scheduler starts every
fifteen minutes and whose steps end, and of an operation begun; faults and the user are
free. `Broadcast!FairSpec` asks it of Dispatch, of each worker's steps and of the
beginning of a task that is queued: the stream redelivers what was not acknowledged
after ten minutes (`taskiq/broker.py`). `Nudges!FairSpec` asks it of the clock, of the
cron job of each table (every ten minutes), of the steps of a sweep and of the insert
that follows an arming check. Nothing is asked of users or operators anywhere. The other
modules state safety only.

### Disagreements found

Met while modelling: the steps are in the models, and what they break is excused by a
condition above. Where the source says otherwise, its line is given. One, the window of a
renewal, is shown by a run of its own.

*Purchase dialog.* With one plan of one term and several gateways `on_subscription_plans`
goes to the screen of methods without clearing the payment of an earlier choice, so the
old button to pay is shown (`handlers.py:347`; `:100` says it is only "while payment_url
is set for the current selection"). A plan closed after its list was drawn can still be
bought (`:368` looks it up by id alone). A paid trial starts at the screen of methods,
which hides its list when one gateway is active because that one is "auto-selected"
(`dialog.py:185`): there is nothing to press then. The landing page's cache is dropped
before the plan's commit (`dao/plan.py:189`), so a request in between may store the old
list again; that page is not in the model. An operator's older draft overwrites a newer
edit or access rule (`plan/commands/commit.py:105`).

*Payments.* A free checkout reuses a pending priced transaction of the same plan, which
is completed and earns a commission on money nobody paid (`payment.py:180`,
`commission.py:22`). A worker killed between COMPLETED and the purchase leaves a paid
payment no report can resolve (`payment.py:381`). A COMPLETED that arrives after the
half-hourly cancellation is dropped (`:375`). Overlapping purchases lose a term (`:433`).

*Ledger.* Two requests of one user open two payouts (`payout.py:62` and `:71`; the model
says of the open payout "enforced upstream"). A second operator's rejection overwrites
a payout just paid (`dao/referral_ledger.py:300`). The torn balance (`summary.py:38`).

*Traffic pools.* The window of a renewal is snapped to the 1st of the month
(`core/utils/time.py:124`), so what the old term spent in that month counts for the new one,
although "the quota is meant to start over" (`:118`) and "a fresh term opens a fresh window"
(`traffic_pools.py:163`): run `pools_renewal` finds a renewal whose quota is spent when it is
bought, and the next pass cuts the user. An overlapping pass writes the window it read back
over a renewal's fresh one (`traffic_pools.py:532`, against `:163`). The squad is handed back
by an operation between the committed withdrawal and the saved verdict (`:604`). A pass killed
between the committed restore and the save leaves the window spent with the squad back, and it
is never cut again (`:579`). A restore refused on a monthly roll is not retried (`:546`), nor
is a refused drop (`:640`). A promo code that puts an unmetered row on the pool counts from
the month of the row.

*Panel.* A `modified` webhook, or a panel-wide synchronisation, about another panel user
with the same Telegram id takes over the current row with its id: the shop's own user is
orphaned, its name refuses the next purchase, and it survives an erasure.
SyncAllUsersFromPanel works through a list read at its beginning: it overwrites a later
renewal and re-creates an account erased meanwhile. A recreation that overlaps an erasure
leaves a panel user. Recreating a DISABLED subscription makes it ACTIVE. A `deleted`
webhook between a look and the recreation turns the row into an imported one without its
plan. DeleteSubscription unlinks whatever is current at its commit. SyncFromShop of an
account without a subscription deletes only the first of several panel users.

*Trials.* A crash after `create_user` leaves a panel user whose name refuses the next
trial (`purchase.py:51`). A restart after a bonus revived a lapsed trial grants the lapsed
days again (`trial_connection.py:80`). `get_by_remna_id` may return the retired trial row,
so that a restart or a bonus that overlaps a purchase can cut the paid expiry. A restart
measures its window from the row (`trial_connection.py:80-92`): when its answer is lost, the
panel's webhook moves the row, and a first connection told again measures the longer window.
The bonuses of two broadcasts pressed at once are computed from one expiry, and one is lost
(`bonus.py:98`).

*Promo codes.* `on_promo_confirm` drops `is_reusable` when it creates a code. Two invoices
issued at a one-time discount both get it. A second activation refused under the lock may
leave its reward on the panel. Overlapping redemptions of one user lose days.

*Merges.* A commission recorded, or a row inserted, between the repointing and the
deletion is cascaded (`account_merge.py:99`). Overlapping merges can both pass the
`two_active_subscriptions` check. A chain of merges can make two accounts each other's
inviters. Linking Telegram does not adopt the absorbed account's e-mail. A trial started on
the absorbed account while the merge runs leaves `is_trial_available` on the survivor, so
that a second trial may replace a paid subscription, where `_merge_scalars` says that a trial
spent on either account is spent (`account_merge.py:203`).

*Broadcasts.* Cancel and then delete does not stop the sending (`tasks/broadcast.py:116`
reads CANCELED only). Ids of messages sent during a deletion are lost (`:259`). A
redelivered task writes to everyone twice (`:112`).

*Nudges.* A message that raises is tried again in every sweep and its row stays at the head of
the queue (`notification.py:442`, `process.py:160`); a hundred of them fill `get_due`'s limit
and keep every later row from being sent, for good. A user who was connected before and opens
the funnel first now is nudged to connect. The win-back chain is not armed again after a
second loss of access. `sent_at` is the beginning of the sweep, so the gap is measured from
there.

*Support.* A site that reconnects gets the first 200 messages past its cursor, or the newest
200 without one (`dao/support.py:155`); the next live reply moves the cursor over what was
left out, though `endpoints/public/support.py:244` says that no gap drops a message. The idle
sweep can close a conversation just reopened. One without a stored message is never closed.
Operators' replies do not count as activity. A first message is not announced to other tabs. A
relay that failed is not repeated. Replies published out of the order of their ids can be
skipped by the cursor.

## 4. What is proved

TLAPS checks some 28 000 obligations in eight modules, for every component modelled. The
theorems hold for any number of users, payments, workers, requests, messages, accounts and
faults, any catalogue and amounts, and every bound on the counters.
Assumed are the named ASSUMEs of the modules
(`PaymentsAssumption`, `PoolsAssumption`, ...): ids do not clash with `None`, sets that are
counted are finite, quantities are naturals, what the UI and the tables allow. TLC
evaluates each in every run. No theorem assumes an order of steps, a number of requests at a time
or the absence of a fault. Where a property excuses what two overlapping writers
do, a history variable records the write that does it, the theorem is about every behaviour, and
the invariant says what is still known of everybody else. `Fair` alone has a hypothesis,
`Granting`, which the editor of plans ensures; and in the model of AccountMerge what is no merge
runs one at a time.

Each follows one plan: the invariant (`IInv`, `SyncInv` in PanelSync, or one for each group of
theorems in Payments, ReferralLedger and Nudges) is a conjunction of named parts, one lemma
for each action, or for each part that an action can disturb, shows that it is kept, and the
properties follow from it.
What makes it inductive:

**Payments.** `ProvisionedAtMostOnce` is not inductive: nothing in it says that a
worker about to commit is the only one on its payment. `IInv` adds

* `OwnerInv`: a busy worker's payment is COMPLETED or REFUNDED, has been granted
  exactly when the worker is past its commit, and belongs to that worker alone. It is
  inductive because the conditional UPDATE lets a worker in only from PENDING or
  FAILED, and the worker's own last step is the one way to FAILED;
* `BuyerInv`: a transaction has a buyer exactly when it exists;
* `GrantInv`: the two properties.

From it: `TypeCorrect`, `AtMostOnce`, `DeliveryIsFinal`. `CommissionFollowsDelivery`
adds that a worker past `ReadCurrent` has no gateway test, and that what a
transaction was created with never changes. `CurrentRowStaysLive`, which holds although
purchases overlap, adds `RowInv`: a row belongs to one user for ever, so whoever
retires the current row moves the pointer in the same commit. `Implements` is
`Spec => Fulfils`: under the mapping `Phase` each step is an Owe, Deliver or Fail of
one payment, or a stutter; `OwnerInv` again excludes a Deliver or a Fail of what is
not owed.

`PanelSettles` and `TermsStack` hold however purchases overlap. `SInv` is about users not in
`raced`: what a purchase read is still so when it commits (`SeenNow`), its target is the term
added to it (`TargetNow`), the panel has the target once it was called (`PanelNow`), and
`AgreeInv`: the panel agrees with the rows of a user unless something of the user is
unsettled, which is a purchase under way, one that failed and can be retried, or one that a
crash cut short. It is inductive because a panel call or commit that would falsify one of them
for another worker of the user puts the user into `raced` in the same step.

**ReferralLedger.** `BaseInv` (types, an operator's payout exists, a request past its
gates read enough) gives
`TypeCorrect`. `WalletIsTheOneShown` needs in addition that a payout seen in
processing is out of the user's reach for ever. `TermInv`, of users not in `raced` (the target
a request carries is one term past the
expiry still in force, and the panel has it once it was called), gives `PanelKeepsUp` and
`DebitBuysTerm`. `SerialInv`, of users neither in `raced` nor with a payout in `overruled`
(no payout is open behind a request past its gates, what it read is still on the balance), and
of payouts not in `overruled` (a loaded payout is still open),
gives `OnePayoutAtATime`, `BalanceCovers` and `PaidStaysPaid`.

**Promocodes.** `LimitsHold`, `DaysAreKept` and `DiscountPricesOnce` have no hypothesis.
`CodeInv`: a limit or flag that a request validated against is covered by the widest the
code ever had, so a stale one lets in no more than was once allowed. `EarnInv`: what a
request read, and what it will write, is earned. `PushInv`: what the panel was given beyond
the row belongs to a request in flight or to a fault. `CalmInv`: while the requests of a
user follow one another, the row is still what the request computes from and the panel is
ahead by exactly what was pushed; from it no day is lost. `SpendInv` counts, for a
user with one invoice, who still holds the discount: the row, the invoice or the purchase.

**Support.** `OperatorsSee`, `HeardOpen` and `SiteIsTold`, with no hypothesis. `IdInv`: ids
come from one sequence and are stored once. `TopicInv`: the topic of the row is never
replaced, so the topic any other request made is its own and will be dropped. `OpenInv`:
a user's request finds the conversation open, or noticed (`shut`) that it was closed
inside it. `ReplyInv`: an answer the tab does not show is past its cursor, buffered, about to
be published, was published late, or was left out of a full page (`tab.left`). `BannerInv`
does the same for the banner.

**TrafficPools.** `Invariant`, `CountedOnce`, `SquadFollows` and `PassesSettle` have no
hypothesis. `Fair` has `Granting`, that a quota is kept only on a plan that grants the squad,
which `_prune_pool_quotas` (`use_cases/plan/commands/commit.py:51`) ensures. `IInv` is the
types and, until "crossed", `Sound`: `Apart` (an operation past its panel call met no pass
that had written), `WindowInv` (windows count from a mark no later than now), `PassInv` and
`OpInv` (what each read is still so), `SquadInv` (the panel is one call ahead of the row, and
the mark of a spent window one commit behind), `SessionInv` (a metered user without the squad
has no session, if `Granting`) and `SettleInv` (a user metered by the term who lacks the
squad, with a window not yet spent, has the traffic that spends it).

**Checkout.** `PaysForIt` and `InvoicesSound` hold for any catalogue, any edits of it and
any overlap of taps. `Sound` says of a dialog, the one shown and those that taps loaded and
wait with, that on each screen what it holds belongs together: the term is of the plan
(`BasedOn`), the payment is of the choice shown (`PaidOn`), the plans are those offered
(`Offered`). `TapInv` ties a waiting tap to its dialog, `InvoiceInv` invoices to their
plan, `OnceInv` the cache to the invoices made. The one assumption about names is that no
button is called like a plan, a term or a method.

**Broadcast.** `RowsAlwaysAgree`, with no hypothesis, from `BroadcastInvariant`. `LocalsInv`
and `StageInv` say what a worker holds at each step and what was begun when. `GivenInv`
counts: what was sent to a user, and the deliveries that still owe it a message, are no more
than the deliveries. `SenderInv` and `KnownInv` (one delivery has one sender, which knows
every recipient) carry `SpotInv`: a message is in no chat, or in a chat and in the hands of
the sender between batch and record, or in a chat and in its row, and a row that is still
pending is in the sender's hands. `CarryInv` and `ClearedInv` say the same of a deletion: it
carries what the row says, and what it has been through is in no chat. `CountInv` is the
meaning of the counters, `StopInv` that a sender which noticed the cancellation takes no
further batch. Each part but the first three is conditional on what its property excuses.

**Nudges.** `NudgesTypes`, `NudgesSilent` and `NudgesAsPlanned`, with no hypothesis. The queue
is proved to be what it is for: `InOrder` lists a finite set by keys that differ, so `Enqueue`
leaves the pending rows, and only they, by `fire_at`. `SilenceInv` follows the one way a
connected user gets a pending row of chain A, which is a funnel opened later.
`OncePerStep` is not inductive, since it does not say what may still be sent. `OnceInv`
counts the chances of one more message of a step to a user: copies not yet sent, transactions
that will insert one, the insert still possible, and the sweeps that list a copy another
sweep has sent or may not know of its sending. Received and chances together are never more
than one, and one for each fault; a fault that lets sweeps overlap pays for the sweep that
starts (`paid`), so at most one sweep of a table is unpaid. `PaceInv`, without faults: a table has
one sweep (`Alone`), which began after all that was sent before (`Behind`); the user it writes
to next passes the gap and the cap (`Cleared`), and the ones it wrote to did when it began
(`Spaced`); hence what is committed is paced (`AllPaced`). `Spaced` is needed because the sweep's
own rows get the time of its beginning only with its commit.

**AccountMerge.** `Stands`, `Follows` and `Kept`, for any number of merges at once, and
purchases, trials, payouts, commissions, attachments and others that cross them, from any
start that satisfies `Legal`. What is no merge runs one at a time (`OverlapInv`); how
those cross each other is the subject of the modules above. `RefInv` are the foreign keys,
`HeirInv` says that following the survivors ends in an account that exists, `NameInv` that
a Telegram account has one account, and a panel user the name of an account its owner
stands for, `CurrentInv`, `UnspentInv` and `PanelInv` what
the tables and the panel say of each other. `Fits(q)` has a view for each kind of
operation, of what it knows between its read and its commit (`MergeView`,
`BuyView`, `PayoutView`, ...). The argument rests on two facts about PostgreSQL the
model has: a foreign key without a row is refused or set to null as the schema
declares, and a merge waits, before it deletes an account, for those that
wrote a child of it (`Awaited`).

**Trials.** `GrantedAndNoMore`, `Settles` and `RestartedOnce`, with no hypothesis but
that requests and broadcasts are finitely many. `OpInv`, `StartInv`, `ClaimInv` and
`RestartInv` say what an operation relies on at its commit, `CalmInv` that it is
still so if none clashed, `FollowInv` that the last change the database was not told
is what the panel has. The hard part is `NoMoreThanGranted`, since an expiry is copied
between the row, the panel, webhooks and operations in flight: `BoundInv` bounds every
copy by the same `Allowance`, measured from the day of the trial until the panel has been
told of a restart and from the restart after it.

**PanelSync.** `SyncTypes`, `InStepAlways`, `SyncAlwaysKeeps` and `ErasureIsWhole`, for any
number of operations in flight, of panel users, rows, changes by hand and faults, in any
order, with no hypothesis beyond the conditions the properties themselves state. The queue of
webhooks may have any length: the invariant says what each webhook in it carries, not what
handling them all would give. `SyncInv` is the types (`SyncTypeInv`: also which locals
each operation holds at each step) with

* `GoneInv`: a deletion is told after it happened, and a user that is gone stays gone; one
  living user has the shop's name. With it a late or repeated deletion finds nothing to
  take (`KeptWhileItLives`);
* `WholeInv`: an operation that none overlaps and no hand disturbs is the only one, and
  `KnowsInv`: the panel still is as such an operation left or read it (`Aware`), so a pull
  commits what the panel has (`PullSettles`);
* `HookInv`: unless one went astray, the last webhook about a user says how that user is,
  nothing follows a deletion and a creation follows nothing. It is inductive because the panel
  puts a webhook behind the others with every change, and delivery takes the first;
* `BoundInv`: the current row is the one the operation under way has read, of the same
  panel user; a handled webhook may have unlinked it and no more;
* `RowInv`: what the current row lacks is still to come: its panel user's deletion is being
  handled, or a webhook about the user that the handling does not pass over is on its way,
  or the two agree. A commit breaks no agreement, as its call left a webhook that says the
  same; a killed operation leaves the webhook. When all is delivered only the last case
  is left, which is `RowAgreesWhenQuiet`;
* `LinkInv`: a living user the shop made is the current row's, or an operation at its
  commit will link it (`LinkedWhenQuiet`);
* `EraseInv`: of an account being erased, each row's panel user is gone or still on the
  list, though the list was read before.

The last four are conditional on what their properties excuse (`marks`, a webhook astray, a
call unanswered or a process killed).

**Model-checked only.** Liveness (`CompletedIsResolved`, `QuotaDecides`, `TasksEnd`,
`ArmedIsDelivered`), which the prover does not reach. Every other property that a run checks
is a theorem.

Every property is shown to depend on the code: `PROJECT.json` names, for each, a
definition and a plausible wrong version of it (kept beside the right one under the
comment "Mutation of") under which TLC finds the property violated.

## 5. Plan

Modelled and checked: Payments with Fulfilment, Checkout, ReferralLedger, TrafficPools,
PanelSync, Trials, Promocodes, AccountMerge, Broadcast, Nudges, Support; and every safety
property of them proved. Left, in this order:

1. Abstract specifications with a proved refinement, as Fulfilment is for Payments, where
   an invariant is already there to carry it: a redemption as one atomic step
   (Promocodes), the balance as one number that commissions raise and spends and payouts
   lower (ReferralLedger), an account as whoever stands for it (AccountMerge).
2. To model: the checkout of the site and the Mini App, the draft of the plan editor,
   access mode, backups.

## 6. Not modelled, and why

Most of the repository's lines are presentation (Telegram dialogs with their getters,
handlers and keyboards, the web shell, texts, events that only word a notice), declarations
(database models, migrations, DTOs, settings) and one-row CRUD with its screens: there is
no order of steps in them to check. That is why the modules, which stand for the parts
with state and concurrency, map a small share of all lines.

Within the modelled components: money arithmetic (prices, discounts, proration to the
minute) is abstracted to free or not and to a set of bonuses; formats, signatures, texts and
look-ups do not occur. TrafficPools has one pool and calendar months, no daily or weekly
windows and no expired subscription in the pass. Stars refunds' own money flow is left out.
AccountMerge leaves out promo activations, broadcasts, support messages, the blocked
flag and OAuth identities, which are repointed like the rows it has. Support leaves out the
private chat of the bot's users, images and the limit on open streams. PanelSync leaves out
the webhooks about devices, nodes, torrents and coming expiry, and the channel-membership
switch of trials.

Two simplifications hold throughout. A transaction that makes no panel call is one action:
what its statements read apart from each other, at READ COMMITTED, is modelled only where a
property turns on it (the sums of ReferralLedger, the repointing of AccountMerge). And
an operation of Trials ends on the day it began.

Sign-in is not modelled: a login token, a bot code or an OAuth state is taken by one GETDEL,
a refresh token rotated by one Lua script, so two uses of one cannot interleave, and no
other component reads that state. Rate limiting, notices, settings, statistics, ad links,
access mode, backups and import are listed in `PROJECT.json` with their reason.

