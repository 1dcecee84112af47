# Verification of the minishop backend

TLA+ modules, TLC configurations and TLAPS proofs for the backend of the shop (`src/backend`): a Telegram
bot and Mini App that sell subscriptions, take payments through fourteen providers, and provision what was
bought on a remote service. The first part of the development is about money: from a provider's "paid" to the
one activation it must buy, and the promo codes that change what is bought. The second is about what was bought:
the container that runs for a term, the notices before and after its end, the monthly credit, and the accounts
all of it belongs to.

Paths below are relative to `src/backend/` unless they start with `docs/` or `tests/`.

## 1. Inventory

Two processes, **backend** (aiohttp web server, bot, Mini App API) and **worker** (`main_worker.py`), share
one PostgreSQL database and one Redis. Each is a single asyncio event loop: code between two awaits is
atomic for the tasks of the same process, nothing is for the other process. Each request or tick has a
SQLAlchemy session of its own (READ COMMITTED, `expire_on_commit=False`): a session that holds an instance
returns that instance from a later SELECT without refreshing it.

| Component | State it keeps | Operations | Talks to | What is hard | What makes it correct |
|---|---|---|---|---|---|
| **YooKassa settlement** (`payment_providers/yookassa`, `infra/webhook_queue.py`, `main_worker.py`, `webapp/billing_status.py`) | `payments.status`, the Redis list and its dedupe keys, a lock per process | webhook, enqueue, consume, poll the status page, settle, cancel | provider, Redis, activation, event bus, tax receipts | two processes, each with its own lock; stale instances; destructive pop; crashes; merged users | a paid payment is activated once, and its status says so |
| **Settlement of the other providers** (`payment_providers/*/service.py`, `shared/success.py`) | `payments.status` | paid, declined and in-progress webhooks; finalizer; Wata's refresh | providers, activation, event bus | no lock at all; two transactions; reordered, repeated and overlapping events; refusals | the 200 and `succeeded` stand on a commit of the finalizer |
| **Promo codes** (`db/dal/promo_code_dal.py`, `services/promo_code_service.py`, `services/payment_promo.py`, `infra/promo_policies.py`) | the code's row with its counter, `promo_code_activations`, the invoice's code | apply, check out, use at settlement, release, toggle, edit | settlement, `payment.canceled` | races for the last activation, terms frozen on an invoice, rollbacks | one use and one bonus per user, a counter equal to the uses |
| Creation of payments (`webapp/billing_payments.py`, `shared/webapp.py`) | pending rows | create, reuse a recent one, charge a saved card | providers | two requests, a timeout of the provider's API | at most one live invoice is reused |
| Subscriptions (`services/subscription_service_impl`) | end dates, limits, tariff, devices | activate, extend, switch, top up | panel | two extensions of one row, panel failure in the middle | no purchased day is lost or granted twice |
| **Tenant lifecycle** (`services/tenant_lifecycle_scheduler.py`, `services/hermes_provisioning_service.py`, `services/subscription_service_impl/lifecycle_*.py`, `handlers/user/tenant.py`) | `end_date`, `is_active`, the tenant's remote state | extend, suspend expired, start, pause, suspend, delete, recreate | provisioning-core | remote calls over rows read earlier, one commit for a batch, two workers | no promised day is lost, a paid term runs, an expired container stops |
| **CornLLM credits** (`services/cornllm_credit_scheduler.py`, `lifecycle_activation.py`, `lifecycle_switch.py`) | dates and amount of the next grant, the remote balance | grant at payment, switch and month | provisioning-core | a crash between the grants and their commit, a grant that is not rolled back | the balance is the tariff's, a credit every month, one for each date |
| **Expiry notifications and deletion warnings** (`services/subscription_notification_worker.py`, `tenant_lifecycle_scheduler.py`, `db/dal/subscription_dal.py`) | log of what was sent, two markers in the row | tick, forget at a renewal | Telegram, email | a crash between the sending and the log, a renewal under a tick | one message per stage and channel, and none missing in the next period |
| **Accounts** (`db/dal/user_dal.py`, `webapp/account.py`, `webapp/auth_email.py`, `services/email_auth_service.py`) | users, codes, everything keyed by user | register, request and use a code, link, merge | mail, Telegram, panel | a merge of many statements under running payments, links and codes | nothing a user owns is lost |
| Throttles of email login (`services/email_auth_service.py`, `db/dal/security_dal.py`) | attempts, pauses, expiry | count, refuse | none | concurrent attempts | attempts are counted |
| Referral programme (`services/referral_service.py`) | one-time bonus flag | bonus at payment | subscriptions | two first payments | one bonus |
| Panel webhooks and sync (`services/panel_webhook_service.py`, `handlers/admin/sync_admin_runner.py`) | the same queue, mirrored records | receive, reconcile | panel | duplicated events, overlapping syncs | convergence to the panel's data |
| Event bus (`infra/events.py`, `services/event_reactions.py`) | subscriptions | emit, react | messages | a failing subscriber | the others still run |
| Redis helpers (`infra/redis.py`, `utils/ttl_cache.py`, `middlewares/update_antiflood.py`) | leases, cache entries, counters | lock, load, invalidate, count | all workers | lease shorter than the work, invalidation during a load | mutual exclusion, no stale entry after invalidation |
| Outgoing messages (`utils/message_queue.py`, `services/outbound_messaging.py`) | queue, per-chat spacing | put, drain, broadcast | Telegram | retry-after, shutdown | order and rate per chat |
| Support (`db/dal/support_dal.py`, `services/support_service.py`) | ticket status, unread counters | open, message, close, read | messages | user and operator at once | counters equal unread messages |
| Backups (`services/backup_worker.py`) | schedule, archives | run, restore | subprocesses | overlapping runs | one run at a time |

Without protocol of their own, and not modelled: the tariff traffic worker (not registered among the
worker's tasks at this commit), the panel client and its dry run, settings, translations and themes, admin
routes, menus and serializers, migrations and imports, plugins, the frontend.

## 2. Modules

| Module | Role |
|---|---|
| `PaymentLedger` | abstract specification: a payment is unpaid, paid, granted, refused or void; it gets one verdict, a grant or a refusal, only after it was paid |
| `PromoOffer` | abstract specification: a user enjoys a code once, with its bonus, within the limit or with an invoice sold on its terms; an invoice for devices never uses it, a refused invoice may waste it, a use may be given back |
| `YooKassaSettlement` | the YooKassa path across both processes |
| `ProviderSettlement` | the thirteen other providers and the shared finalizer |
| `PromoCodes` | one promo code: its counter, its uses, the invoices that carry it |
| `TenantLifecycle` | the term of a subscription against the container it pays for |
| `SubscriptionNotices` | stage notices and deletion warnings, and the renewals that must forget them |
| `CornllmCredits` | the monthly credit: the balance at the core against the schedule in the row |
| `AccountLinking` | codes, links and the merge of two accounts beside invoices, payments and tickets |
| `MC...` | symmetry sets for TLC, one module per component |
| `..._proofs` | theorems and their proofs, one module per component |

Both settlement modules refine `PaymentLedger` (`Ledger == INSTANCE ... WITH state <- ..., entitlements <-
...`; the property is `ImplementsLedger`), and `PromoCodes` refines `PromoOffer` (`ImplementsOffer`). `PromoCodes` takes the settlement of an invoice as given (one
finalizer per invoice at a time) and looks into what `ProviderSettlement` keeps as one step, the use of the code
inside the finalizer's transaction, which commits, commits a refusal or raises. The other four look
into the activation that the settlement modules keep as one step, each at one of its effects: `TenantLifecycle` at
the end date and the container, `SubscriptionNotices` at the records an extension deletes, `CornllmCredits` at the
grant and the schedule, `AccountLinking` at the owner of the row. They share the shape of the activation (the running
row is read without a lock, the first UPDATE locks it, one commit) and are kept apart because their product is out of
TLC's reach and no code connects the four effects other than through the row they have in common.

Definitions called *Mutant* stand before the definition they are a broken form of; nothing in a
specification uses them. They are there to show that each property can fail.

### YooKassaSettlement

| Model | Code |
|---|---|
| `Post`, `Dedupe`, `Push` | `yookassa_webhook_route` and `enqueue_webhook_event`: SET NX of the key, then LPUSH, two calls; when either raises the request settles the payment itself |
| `Pop` | `pop_webhook_event`: BRPOP, gone from Redis before it is handled |
| `StartPoll`, `AskProvider` | `_refresh_yookassa_payment_status`: the session loads the row, then asks the provider |
| `lock`, `AcquireLock`, `Release` | `payment_processing_lock`, an `asyncio.Lock` in each process |
| `view`, `SessionRead` | the session's `Payment` instance: fresh for a consumer or webhook, the one loaded before the lock for a poller |
| `Load`, `CheckUser`, `FailOrphan`, `Activate`, `SendReceipt`, `Commit`, `Announce` | `process_successful_payment`, its caller's commit, and the events after it; between `Activate` and `Commit` the row is locked by the flushed UPDATE |
| `Cancel`, `WriteStatus` | `process_cancelled_payment`, `update_payment_status_by_db_id` with its guard against overwriting `succeeded`, which looks at the instance |
| `MergeUser` | `merge_users`: the id in the provider's metadata names a user that is gone |
| `Raise`, `Crash` | an exception before the commit; the death of either process |

An activation that answers `None` is an exception on this path (`success.py:478`), that is `Raise`.

### ProviderSettlement

A provider's route is a record: which events change the row, which are answered at once when the payment has
succeeded, which are answered 200 although handling them failed. `Routes` has the thirteen records, each from
its `service.py`. Everything after the route is shared code:

| Model | Code |
|---|---|
| `Report`, `Post`, `PostAgain` | the provider: any order, repeats, overlapping deliveries |
| `Lookup`, `Mark` | the look at the status at the start of a request (a part of `Post`), and the first transaction (`update_provider_payment_and_status`: `succeeded_pending_finalization` or `failed`) |
| `Activate`, `Commit`, `CommitNothing` | `finalize_successful_payment`; `CommitNothing` is the activation that answers `None` and is committed all the same, open to every activation of every run |
| `Announce`, `Notify` | `payment.succeeded`; `payment.canceled` and its reaction, which rereads the row |
| `Fail`, `Escape`, `ReadAgain`, `RecordFailure` | the rollback path: the log statement after the rollback touches an expired instance and usually raises, so `activation_failed` is recorded only when it does not |
| `StartPoll`, `AskWata` | `refresh_payment_status`: three queries in turn |
| `Crash` | the death of the backend |

### PromoCodes

| Model | Code |
|---|---|
| `Quote`, `Clear`, `Create`, `CreationFails` | `_resolve_checkout_promo`, `_core_state_policy`, `create_base_payment_record`, `mark_payment_failed_creation` |
| `Apply`, `GiveBack`, `Commit` (of an `Applier`) | `apply_promo_code` and `apply_promo_route`; `GiveBack` is the extension that is refused, its release in the same transaction |
| `Settle`, `Check`, `Finish`, `Commit` (of a `Settler`) | the finalizer with `consume_payment_promo` |
| `devices`, `Entry` | an invoice for devices may carry the code, for its price; `activate_subscription` hands it over to the device purchase before it looks at the code |
| `Refuse`, `Waste` | the activation answers `None` before or after it has used the code, and the finalizer commits the invoice as succeeded |
| `Take`, `OverLimit`, `Collide` | `consume_promo_activation`: the conditional UPDATE of the counter and the INSERT under the unique constraint |
| `Decline`, `React`, `Release` | the declined webhook, `on_payment_canceled`, `release_promo_activation` |
| `Toggle`, `EditEffects` | the administrator |
| `Raise`, `Crash` | a failing request, the death of the backend |

A transaction that has updated the code's row keeps it locked (`RowFree`); its writes are visible from
`Commit` on.

### TenantLifecycle

| Model | Code |
|---|---|
| `Begin`, `Select`, `Extend`, `Fail` | `activate_subscription` and `extend_active_subscription_days`: the base of the new end is read without a lock, then the row is loaded, then written and committed; a session writes only the columns that differ from what it loaded |
| `SuspendBegins`, `SuspendAccepted`, `SuspendRefused`, `SuspendCommits` | `AutoSuspendExpiredSubscriptionsWorker`: one SELECT, a call for each row, one commit at the end |
| `NoticeBegins`, `NoticeSuspends` | the suspensions of `SubscriptionNotificationWorker._suspend_hermes_tenant`, which looks at the date alone |
| `Start`, `Pause`, `Suspend`, `Delete`, `Recreate` | owner and administrator, bot and Mini App |
| `Sweep` | provisioning-core deletes what was suspended for the countdown; external |
| `WorkerCrash` | the death of the worker with the calls made and nothing committed |
| `overlap`, `started`, `promised` | no state of the code: rows committed over a change the transaction had not seen, tenants set running since their suspension, the latest end that was reported |

### SubscriptionNotices

| Model | Code |
|---|---|
| `TickBegins`, `Skip`, `Send`, `Write`, `TickCommits`, `TickFails` | a tick of `SubscriptionNotificationWorker`: the rows are loaded once, each send is followed by its record, the commit comes last; the first record of a row locks it |
| `WarnerBegins`, `Warn`, `WarnerCommits`, `WarnerFails` | `deletion_warning_notifications_worker` and its two markers |
| `Begin`, `Select`, `Renew`, `GiveDays` | the row is loaded at the beginning when its term runs, by the upsert when it has lapsed, and `is_active` is written only if it was loaded as false; an upsert deletes the records of the row; a payment also clears the markers, bonus days do not |
| `Suspend`, `Start` | what the countdown is counted from |
| `period`, `paid`, `told`, `overlap` | no state of the code: which period a record or a marker was made for, what was told, which renewals fell under a tick |

### CornllmCredits

| Model | Code |
|---|---|
| `BeginPayment`, `BeginSwitch`, `Select`, `Flush`, `Grant`, `GrantRefused`, `Commit`, `Fail` | `activate_subscription` and `switch_tariff_without_payment`: the row loaded without a lock, the UPDATE that takes the lock, the call to the core, the commit |
| `Flushed`, `TariffStays` | a flush writes the columns that differ from what the transaction has loaded (`was`); the schedule is written after a refresh, for the tariff the transaction has in hand |
| `BeginGift`, `GiveDays` | `extend_active_subscription_days`: an end, and for an administrator's days or a lapsed row a tariff, with neither grant nor schedule |
| `TickBegins`, `MonthlyGrant`, `MonthlyGrantRefused`, `TickCommits`, `TickFails` | `cornllm_monthly_grant_worker` |
| `Lapse` | the flag cleared by the auto-suspend worker |
| `granted`, `grantedAt` | the core's `sub_balance`, which a grant overrides; external |
| `fired`, `torn`, `crossed`, `broken`, `moved` | no state of the code: what the exceptions of the properties refer to |

`torn` is a row whose tariff and schedule are of two transactions: a flush left the tariff alone because it had loaded the
same one before another client's commit, or given days brought a tariff. `crossed` is a row whose schedule was written while
an open batch of the worker had it in hand. `broken` runs from a grant that was refused, rolled back or overridden before its
commit to the next grant. `moved` is a term that was extended while it ran.

### AccountLinking

| Model | Code |
|---|---|
| `Start`, `OpenTicket`, `Order`, `BeginPay`, `CommitPay`, `Lapse` | what goes on for an account meanwhile: registration, a ticket, an invoice, its payment |
| `Ask`, `CommitAsk`, `Enter`, `Verify` | `email_auth_service`: a new code supersedes the earlier ones of its purpose, a code is consumed once |
| `CommitLogin`, `CommitLink`, `CommitPassword` | the three purposes, each with the merge a link may end in |
| `LinkTelegram` | the other direction |
| `BeginMerge`, `FlushMerge`, `MoveRows`, `RefuseMerge`, `CommitMerge` | `merge_users` at its writes; `BeginMerge` is an operator of the actions that call it |
| `Fail` | an exception or the death of the process before the commit |

The lifetime of a code, the pause between two codes, attempts and throttles only refuse requests. A request may always
not be made, so the safety properties cover them.

## 3. Runs

| Run | Instance | What it shows |
|---|---|---|
| `yookassa_all` | one payment, two consumers, a webhook request, two pollers, merges, one Redis fault, one exception or crash | `succeeded` means paid and activated; `payment.succeeded` never exceeds the committed activations; the worker activates at most once whatever the backend does; receipts are accounted for |
| `yookassa_queue` | two payments, two consumers, one webhook request, no poller, one exception or crash | the queue path refines the exactly-once ledger, and a paid payment is granted unless a fault lost its event |
| `provider_concurrent` | one payment, two webhooks and a status-page request, Wata and SeverPay, refused activations, one exception or crash | `succeeded`, the 200 and the announcement stand on a commit of the finalizer, of an activation or of its refusal; a paid purchase gets such a verdict in the end |
| `provider_serial` | two payments, one webhook at a time, three kinds of route, refused activations, repeats and a fault | the routes and the finalizer refine the ledger, one verdict for a payment; a 200 for "paid" leaves a succeeded row; no failure notice after a grant |
| `provider_refused` (violation) | one payment, one webhook at a time | a row says `succeeded` over an activation that was refused, although the finalizer's docstring (`shared/success.py:283`) says it rolls back and returns `None` |
| `promo_redeem` | two users, two invoices (for devices or not), one activation left, two standalone requests, one checkout, two finalizers, one reaction to `payment.canceled`, an edit, a fault | the offer is implemented, a user has one use, the counter is the number of uses, the limit binds standalone uses, a paid invoice that is activated is honoured |
| `promo_pending` (violation) | one user, two invoices, two checkouts | two invoices with the code are pending for one user, although `docs/features/promocodes.md:70` says the second is blocked |
| `tenant_lifecycle` | one row, two extensions of one or two days, both workers, the owner, one fault or crash, clock up to 4 | promised days are kept and a running term is active, outside rows that two transactions wrote; behind an inactive row nothing runs that was not started by hand; what has expired stops |
| `subscription_notices` | one row, two channels, a payment and a gift of days, a countdown of 2 with both warnings, one fault, clock up to 4 | a stage reaches a channel once, and a new period starts without records of an earlier one, outside the rows a tick loaded before a renewal and wrote after it |
| `cornllm_credits` | one row, two clients, a tariff with a credit and one without, one or three months of `Month = 1`, three payments, switches or gifts, one fault, clock up to 3 | what is scheduled repeats what was granted; both are the row's tariff's outside torn, crossed and broken rows; a credit every month; one grant for a date |
| `account_linking` | an account by email and Telegram's, two emails, two invoices, two requests, two codes, clock up to 2 | no invoice is lost by links and merges, and outside accounts that two transactions changed at a time no paid day and no proved email |
| `account_refused` (violation) | the same | an account that has opened a ticket cannot be merged, although `docs/features/email-login.md:91` says the backend merges it |

Several properties except what the code really does wrong, by a history variable that names the cause (`overlap`,
`torn`, `crossed`, `broken`, `moved`, `started`). The exception is kept as narrow as the cause: a row is in `overlap` only when a
transaction has committed over a change made after it had loaded the row, so that all other interleavings,
which are the greater part, are still claimed. What happens inside the exceptions is in section 4.

### Bounds, and why they are enough

- *Payments*: one where the actors race (all races are between actors on one row; rows share only the lock
  and the queue), two where the lock and the queue order matter (`yookassa_queue`, `provider_serial`).
- *Actors*: two of each kind that can meet its own kind, one of the others. Every race named in the hazards
  is between two.
- *Faults* (`MaxFaults`, `MaxRedisFaults`): one, which can hit any step.
- *Repeats* (`MaxPosts`, `MaxDuplicates`): an event that is not yet answered may be posted by every request in
  flight; the bounds are on copies beyond those. `provider_concurrent` has none of the latter;
  `provider_serial` has one, and the theorems hold for any number.
- *Providers*: `wata`, `severpay` and `cryptopay` stand for the kinds of route (writes back what it read, writes
  its pending status, forgives). The theorems are about all thirteen.
- *Promo codes*: with `Limit = 1` the last activation is contested from the start. Two users and two invoices
  let one user hold an invoice and a standalone request beside the other's; with one checkout a user's second invoice comes
  after the first has been decided or declined. `promo_pending` has the two checkouts.
- *Edits* (`MaxEdits`): one, which switches the code off, or changes what it may be used for, at any moment.
- *Rows of subscriptions*: one. A batch is a set of independent calls, and what can go wrong with a row is that
  time passes between its load, its call and its commit, which the batch of one already lets happen. The theorems
  are about any number.
- *Clock* (`MaxTime`): the time of `subscription_notices` holds a whole term, its notices, the suspension and both
  warnings, then a renewal; that of `tenant_lifecycle` an expiry, the grace, a renewal and a second expiry; that of
  `cornllm_credits` the two grants that follow the first in a term of three months, and the end and the renewal of a term of one; a
  sold month is `Month`, as the worker's is. Windows are one unit, because only their order matters.
- *Accounts*: a merge is of two; the second email and the second invoice are what a third party of the race holds.
  Codes and requests are two because a code in use can be superseded by one more.

Symmetry is declared for interchangeable requests, channels and names (and in `PromoCodes` for users and invoices),
never in a run with a temporal property under fairness. `NoticeOnce` and `GrantedOncePerDate` are action
properties on steps and are invariant under the permutations. In the settlement modules payments are not declared
symmetric, since `Init` chooses one.

`CHECK_DEADLOCK FALSE` everywhere: when everything is decided and answered and the bounds are used up, the shop has
nothing left to do.

### Fairness

`YooKassaSettlement!Fairness`: tasks that may take a step of their own take it (an event loop does not starve a
task; the lock is a FIFO queue, so waiting for it ends), both halves of the enqueue and the pop are executed,
and YooKassa posts an event until a 200. No fairness is assumed of customers, merges, expiry or faults.
`PaidIsGranted` lets a payment stay ungranted after a fault: an exception in the consumer, or a crash between the
pop and the commit, does lose the event, and then only the status page can settle the payment.

`ProviderSettlement!Fairness`: as long as some webhook request can run, one does, likewise for status requests (an event loop
does more: it starves none), and the provider posts "paid" until its 200. It posts the other events as it likes. There a fault
is recovered by the next post, so `PaidIsFinalized` has no exception for it; a refusal counts as the last word, since the code
answers it with 200.

`TenantLifecycle!Fairness`: the auto-suspend worker begins its ticks, calls the core for each row of its batch (the call
is accepted or refused), and commits. Its loop survives every exception (`tenant_lifecycle_scheduler.py`: the tick is
inside a `try`), and a crashed worker is restarted. The calls the core refuses are bounded by `MaxFaults`, which is
the assumption that the core does not stay away. Nothing is assumed of the owner, of the extensions, or of the other
worker, and the clock may stop: `ExpiredStops` is about a term that is already over.

Weak fairness is enough in all three: a step that waits for a row or a lock becomes and stays enabled when the holder,
itself fair, goes on.

## 4. Deviations

What the code does against its documentation, its comments or what one would expect of it, as the models and the reading
show it. Three are the subject of a run (`provider_refused`, `promo_pending`, `account_refused`); the others are described here,
and the hazards of `PROJECT.json` name their lines.

*Settlement*
- Two requests of the status page activate one payment twice: the check under the lock (`webapp/billing_status.py:94`) gets
  the instance loaded before the wait. The two processes' locks let a poller and the worker do the same. A stale instance also
  lets a status-page request write over `succeeded`, in the Wata path and, after a merge, in YooKassa's.
- The dedupe key is set before the push (`infra/webhook_queue.py:29`). A failure between them makes the redelivery answer 200
  for an event that was neither queued nor handled; `tests/integration/test_webhook_queue.py:180` takes that answer as "the event was already accepted".
- Overlapping copies of one "paid" both finalize (`severpay/service.py:335` and its like);
  `tests/providers/test_payment_webhook_idempotency.py:114` says "duplicate webhook must not finalize", and tests them in turn.
- An activation that answers `None` is committed as `succeeded` (`shared/success.py:303-331`), and the provider gets its 200, although
  the docstring at 283 says the finalizer rolls back and returns `None`: run `provider_refused`. What the other properties say of
  `succeeded`, the 200 and the announcement is therefore said of a commit of the finalizer, which a refusal is too.

*Promo codes*
- `succeeded_pending_finalization` does not block a second checkout (`promo_code_dal.py:418`; `docs/features/promocodes.md:70`).
- Two checkouts of one user both pass the check for a pending invoice, which `docs/features/promocodes.md:70-72` says blocks the
  second: run `promo_pending`.
- An invoice for devices carries the code's discount and never records a use (`lifecycle_activation.py:109`), so one user may buy
  devices with one code any number of times, against `docs/features/promocodes.md:70`, "только один раз" (only once).
  `InvoiceHonoured` excepts these invoices, and `PromoOffer` has a step of its own for them.
- A traffic top-up uses the code before it looks for the subscription it tops up (`topups.py:84`); when there is none, the use is
  committed and nothing is bought (`Waste`).
- Two overlapping releases of one use lower the counter
  twice; a decline after the grant frees the use and leaves the bonus; a merge of two users of one code deletes a use and
  leaves the counter (`user_dal.py:587`).
- A changed maximum is compared with a counter read earlier in the transaction (`admin_api_impl/promos.py:190`).

*Tenants*
- A renewal never restarts a tenant the core knows as suspended: `create_panel_user`, which would, is called only when the core
  does not know it (`hermes_provisioning_service.py:175`; the comment at 172 says "Renewal reactivation"). The core's
  countdown then deletes the container of a paid term.
- The batch of the auto-suspend worker writes `is_active = False` over a row renewed during the batch
  (`tenant_lifecycle_scheduler.py:139`). The next extension then starts from the present, and the rest of the renewed
  term is lost, with a single extender as well: `NoDaysLost` excepts those rows (`overlap`).
- Two concurrent extensions start from one end date, and the later commit loses the other's days
  (`lifecycle_activation.py:228`).
- Start, the bot's create button and the recreation do not look at the term. A tenant started by hand between the suspend call
  and the batch's commit runs on behind an inactive row, and no worker looks at it again.
- Two comments contradict each other on what the core answers to a second suspension: 409 in
  `tenant_lifecycle_scheduler.py:137`, 202 in `subscription_notification_worker.py:198`. The model lets both workers succeed.
- `get_tenant_state` serves a cached state of any age when the core does not answer (`hermes_provisioning_service.py:724`).

*Notices*
- Bonus days added to a running term reset neither the records of sent notices nor the deletion markers.
- A tick of either worker that loaded the row before a renewal leaves its record or marker in the new period, and silences
  that notice there; a renewal that deletes a record under a tick lets the notice be sent again.
- A renewal that loaded the row as active leaves `is_active` unwritten, so a suspension committed in between stays.

*Credits*
- An early renewal loses the credits still scheduled (`lifecycle_activation.py:523`), against the comment at 490, "on each paid
  month". The schedule counts 30 days where terms count calendar months.
- Two clients change one row: a payment for the tariff it has loaded writes no tariff (`subscription_dal.py:268`), and the other
  client's, committed in between, stays beside this one's grant and schedule. A row of the basic tariff is so credited as plus
  every month, against the comment at `lifecycle_activation.py:490-495`, "prevents free credit leakage on downgrade"; in the other
  direction a payment of several months that waited for the lock leaves plus without a schedule. These rows are `torn`.
- Days given by the administrator bring a tariff without its grant or its schedule (`lifecycle_activation.py:754`); `torn` as well.
- A batch that is open across a payment or a switch overwrites the new schedule and the new balance; a crash before the batch's
  commit repeats its grants, and so refills what was spent. A refused first grant is not made up.
- A top-up adds to the balance, and is repeated by a retry of the settlement (`topups.py:383`).

*Accounts*
- A merge fails for every account with a ticket or a targeted code (foreign keys that are not moved, `user_dal.py:677`), and
  for an account with a panel user into one without (the unique `panel_user_uuid`, line 510).
- Days and emails of an account that another transaction changes during the merge may be lost (`user_dal.py:429` and 504).

Further hazards that were met while reading and that are not in the list: `promos.py:190`, `user_dal.py:510` and 587,
`promo_code_dal.py:418`, the cache at `hermes_provisioning_service.py:724` and the restart at 175,
`tenant_lifecycle_scheduler.py:128` and 257, `lifecycle_activation.py:709` and 513, `topups.py:383`, `email_auth_service.py:345`
(attempts counted by concurrent requests), `yookassa/success.py:48`, `cryptopay/service.py:386`, `event_reactions.py:526`,
`infra/redis.py:121` (a lease that is not renewed), `utils/ttl_cache.py:88`, `shared/success.py:337`.

## 5. Theorems

All are proved for every value of the constants that the modules' `ASSUME`s admit (disjoint kinds of tasks, natural
bounds, `NULL` outside the data); further hypotheses are in the statements. Each is of the shape `Init => I`,
`I /\ [Next]_vars => I'`, `I => property`.

**YooKassaSettlement_proofs**
- `Typing`, `Serial`: the lock's holder is the only task of its process inside the settlement. `Load` enters
  only with the lock, and a crash frees the lock together with its tasks.
- `SucceededIsActivated`: rests on `TasksKnowOutcome` (every location after the route carries what the provider
  decided, and so do the queue's elements) and `ActivatedWasPaid`.
- `AnnouncedIsCommitted`: `announced <= committed` is not inductive, because a commit and its announcement are two
  steps. `AnnouncementsOwed` counts the announcements still to come, at most one in each process by `Serial`.
- `WorkerOnce`: by `WorkerSettlesFresh`, a consumer past the duplicate check works on a payment the worker has not
  activated. A merge is the one case where the status may leave `succeeded`, and then the payment is orphaned, and
  the next consumer stops at `CheckUser`.
- `ReceiptsOnRecord`: a receipt has a commit, a fault or the settlement between receipt and commit to stand for it, and
  `Serial` leaves one such settlement in a process. No further strengthening is needed.
- `EventsKept`: while nothing fails and the user is not merged away, an event that was taken (its dedupe key is set, or it
  was answered 200) is in the queue, in the hands of a task, or its payment is succeeded. `RequestsQueue` carries the key a
  request set to the push it owes. It is the safety half of `PaidIsGranted`, and no run's property of its own: a redelivery
  that is dismissed as a duplicate gives nothing away.
- `WorkerImplementsLedger`, under `QueueDeployment` (no poller, no Redis fault, no merge): every step is a step of
  the ledger or a stutter. The backend then never settles, and what the worker commits it commits once.

**ProviderSettlement_proofs**: the activation may refuse in every theorem.
- `Typing` and `GrantedWasPaid` hold under any concurrency.
- `Finalizer`, `Succeeded`, `Acked`, under any concurrency: `Verdicts` counts what the finalizer has committed, activations and
  refusals. `StandsOnVerdict` adds to the database's state what the tasks believe, that an instance showing `succeeded` or a 200
  about to be sent for "paid" has a verdict behind it. Verdicts are never undone, so another task cannot falsify it. That a
  verdict need not be an activation is run `provider_refused`.
- `Announced`, under any concurrency: `AnnouncementsOwed` counts the requests that have committed and
  not yet announced, by cardinality, since here many may be between the two at once.
- `AckedSucceeded`, under `OneRequest` (one webhook at a time, no status page): `AnsweredInv` adds to
  `ViewIsCurrent` that a task about to confirm "paid" looks at a row that is `succeeded`. With two webhooks at once TLC refutes
  the property: one reads the row, the other cancels it.
- `SerialGrants`, `SerialNotices`, `SerialImplementsLedger`, under `OneRequest`: `ViewIsCurrent` (the instance shows the row) makes
  the guards of `WriteStatus` and `Lookup` effective, and so a payment has one verdict exactly when its row is `succeeded`. The
  ledger has a grant and a refusal, of which a payment gets one.

**PromoCodes_proofs**
- `Typing` from `Shape`: a request in mid-work has its user, its invoice and that invoice's owner.
- `OneUse`, under any concurrency, cancellations included. `UsedOnce` becomes inductive with `HolderIsAlone`: one
  transaction holds the row, and its user had no use when it took it and has none until it commits.
- `Counted`, with at most one cancellation handled at a time (`OneCanceler`): `ReleaseFindsUse` says that the use a reaction found
  is there when it deletes it. With two, it need not be, and the counter is lowered twice.
- `WithinTheLimit`, under `OneCanceler`: the uses bought without an invoice stay within the maximum because the
  counter never says less than they are (`CounterInv`) and the transaction that holds the row has seen room in it
  (`HolderHasRoom`). With two cancellations TLC refutes it: the counter is lowered twice for one use.
- `Honoured`, under any concurrency, releases included. `PromoInv` adds to the uses the set of users who ever had one, which a
  release does not shrink (`UsersHad`), and that an invoice has one finalizer (`InvoicesFit`), so a finalizer that finds a use has
  found another purchase's of the same user.
- `RedeemingImplementsOffer`, under `OneCanceler`: `Commit` is a `Redeem` or a `Buy`, `Finish` a `BuyPlain`, `Waste` and `Release` the
  steps `Waste` and `Return`, `Create` a `ForDevices` when the invoice is for devices; every other step, failures included, changes
  nothing of the offer (`Unnoticed`). It combines `PromoInv` with `LimitInv`: the holders are no more than the uses, and the
  holder of the row has seen fewer uses than the limit.

**TenantLifecycle_proofs**
- `Stopped`: `InactiveIsStopped` is about rows that are committed inactive; `StoppedInv` carries it back to the marks of
  the open batch, each of which was put there by an accepted call. An owner who starts the tenant before the batch commits
  makes it one that was started by hand.
- `RunningActive` and `DaysKept` from `TermInv`: what a batch has loaded or marked was past when it was loaded and the clock
  does not go back (`PastInv`), and the base of an extension's sum is not before the end it will compare with at its
  write (`BaseInv`). Both are needed: without the first a batch could mark a running row that nobody renewed, without
  the second a write could shorten a term.

**SubscriptionNotices_proofs**
- `CleanPeriods`: records of the open transaction, and the marks a warner will commit, are of the current period or
  their row is in `overlap` (`CleanInv`). The period of a row with an uncommitted record cannot change, since the
  record's lock keeps the renewal out.
- `NoticesOnce`: what was told in this period is in the log, in the open transaction or about to be recorded (`OnceInv`).
  The tick's own selection skips the first, and takes each notice out of `due` before it sends it. Excepted
  are the tick that is rolled back and the renewal that deletes a record under a tick that had loaded the row before.

**CornllmCredits_proofs**: for any number of clients that pay, switch and receive days at once; the exceptions are those of the
invariants (`torn`, `crossed`, `broken`, section 2), no more.
- `ScheduleKept` from `Scheduled`: the dates that open transactions carry are their tariffs', a flush leaves a tariff alone only
  when it is the transaction's or the row becomes `torn`, and a batch holds what the row says unless the row is
  `crossed` (`DatesOfCredits`, `BatchAgrees`).
- `OneGrantPerDate` from `Dated`: an idle worker holds nothing, a row is in the batch or among the bumps, not both, and a date
  granted for is past in the row or waits for its bump (`IdleHoldsNothing`, `HeldOnce`, `FiredIsOver`).
- `BalanceKept` from `Balanced`: the row's lock leaves one transaction between its flush and its commit (`OneHolder`), and the
  last grant stands unless the batch held the row or the grant was lost (`GrantStands`).
- `RepeatsKept` from `Repeating`: what is scheduled is what was granted last, in torn rows too, since both are of one
  transaction under the row's lock. This is what the stale flush leaves intact.
- `MonthKept` from `Monthly`: adds that a grant is never dated in the future and that a date of the schedule is a month from the
  one before (`GrantsPast`, `MonthAhead`).

**AccountLinking_proofs**
- `Typing` and `InvoicesKept` from `Shape`. The heart is what a merge believes between its steps: it is of an account by
  email into Telegram's (`MergesFit`), it is alone in writing its source (`OneWriter`, the row lock), and once the rows are
  moved nothing refers to the source any more (`MovedAll`), so the cascade finds nothing. `UsersFit` (emails are unique,
  an account by email has one) is what makes the direction of a merge unique.
- `EmailsFollow` from `MailShape`: a merge that has not noticed a change of the target holds the target's present email
  (`MergesHold`), or the account is in `overlap` (`OverlapKnown`).
- `DaysFollow` from `DaysShape`, for any number of concurrent payments and merges: a panel user belongs to one account and its
  subscription row is that account's (`PanelsFit`), a payment knows whose panel user it extends (`RequestsFit`), and what a
  payment or a merge has read still holds (`RequestsHold`). Outside `overlap` the account's own row ends when its days do and
  the row a merge brought no longer runs (`DaysRun`), so none of its days are counted twice and none are left behind.

**Only model-checked**
- Liveness: `PaidIsGranted` (YooKassa), `PaidIsFinalized` (the other providers) and `ExpiredStops`. Temporal reasoning under fairness, and
  `ENABLED`, are out of the prover's reach. `EventsKept` and `Stopped` are what the first and the last of them say of states.
- The properties of the violation runs, which the code does not have.
- Every invariant and every action property of the passing runs is stated by a theorem, under hypotheses the run satisfies.
- The inductive invariants are not listed in the configurations: the theorems prove them. `DaysShape` and `EventKept` were
  evaluated by TLC on the runs' instances before they were proved.

No specification has a recursive operator, so nothing had to be kept away from the prover on that account, and no theorem
needs an induction over data.

## 6. Not modelled

The models cover the code that decides, under concurrency and failure, what is paid, granted, stopped, told and owned. That is a
small part of the lines: most of the backend is handlers that turn an update or a request into one call of a service,
menus and serializers, clients of remote services, settings and themes, migrations and imports. Such code has no state
between two requests beyond the rows it writes, and a module about it would copy its statements. Components
that do have a protocol and are still missing are in the plan.

*Of the modelled components*
- Settlement: signature, amount and currency checks (a request that fails them changes nothing);
  `payment.waiting_for_capture` and auto-renewal charges; message texts.
- Promo codes: prices, discounts and multipliers; creation, deletion and changed maximum (`Limit` is a constant); the
  code-guessing throttle; merges of accounts that used the same code.
- Tenants: traffic limits, devices and extra subscriptions; the Remnawave mode, where the panel itself ends a term; the
  five-second cache of the tenant's state.
- Notices: texts, the log's other uses, the users' choice of channels (a channel may always refuse).
- Credits: the top-ups, which add to another balance; spending; the assignment of the tariff a row has already; a switch of a row
  without a tariff; a failure of the panel after the upsert (in Hermes mode the update there is a no-op that succeeds). `Lapse` is
  one step, not a batch: `TenantLifecycle` has the batch.
- Accounts: referral bonuses, profile attributes, saved cards, uses of promo codes, attribution and avatars in a merge;
  the synchronisation of the panel after it; the merges of the administrator's panel synchronisation
  (`handlers/admin/sync_admin_identity.py`); deletion by the administrator.

Inside a settlement `activate_subscription` is one step that commits, refuses or raises; its own interleavings are those
of the last four modules.

*Other components*: the table of section 1; the reasons are in `PROJECT.json`.

## 7. Plan

In the order of importance:

1. `PaymentCreation`: the reuse of a recent pending invoice, the provider's answer that comes after the timeout, saved
   cards. Property: at most one live invoice is reused, and a charge that was made is known.
2. `RedisGuards`: the single-flight cache with invalidation (`utils/ttl_cache.py:88`) and the lock whose lease is not renewed
   (`infra/redis.py:121`). Properties: no entry loaded before an invalidation outlives it; mutual exclusion while work is
   shorter than the lease. Abstract specification: a lock and a register.
3. Support tickets: counters against unread messages, user and operator at once.
4. Extensions: changed maximum of codes, the counter across merges, top-ups, the panel's side of a merge.

Proofs: an abstract specification for the accounts (a person's days and invoices, whatever number of rows hold them) that
`AccountLinking` implements, and one for the terms of tenants, then the invariants of the modules above as they come.
