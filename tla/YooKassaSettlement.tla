-------------------------- MODULE YooKassaSettlement --------------------------
(***************************************************************************)
(* Settlement of YooKassa payments.  The backend process receives the      *)
(* provider's webhook (yookassa/webhook.py) and either hands the event to  *)
(* the Redis queue (infra/webhook_queue.py) or, when Redis fails, settles  *)
(* it itself; it also settles a payment when the Mini App polls its status *)
(* (webapp/billing_status.py).  The worker process consumes the queue      *)
(* (main_worker.py).  All three call process_successful_payment or         *)
(* process_cancelled_payment (yookassa/success.py) under                   *)
(* payment_processing_lock, an asyncio.Lock: one lock per process.         *)
(*                                                                         *)
(* A step is the code between two awaits that another task can observe.    *)
(* A SQLAlchemy session does not refresh an instance it already holds      *)
(* (sessionmaker: expire_on_commit=False): `view' is that instance.  The    *)
(* flush of an UPDATE locks the row until its transaction ends.            *)
(***************************************************************************)
EXTENDS Naturals, Sequences, FiniteSets

CONSTANTS
    Payment,        \* payment rows, each with its row id in the provider's metadata
    Consumer,       \* _webhook_consumer tasks of the worker process
    Request,        \* webhook requests in flight in the backend process
    Poller,         \* status-page requests in flight in the backend process
    Merging,        \* TRUE: the account-linking routes may merge users
    MaxPosts,       \* bound on the provider's POSTs of one event
    MaxRedisFaults, \* bound on failing Redis calls
    MaxFaults,      \* bound on exceptions and process crashes
    Free            \* the value of a lock nobody holds

Task == Consumer \cup Request \cup Poller
Process == {"backend", "worker"}

ASSUME TasksAssumption ==
    /\ Consumer \cap Request = {} /\ Consumer \cap Poller = {} /\ Request \cap Poller = {}
    /\ Free \notin Task
    /\ Payment # {}

ASSUME BoundsAssumption ==
    /\ MaxPosts \in Nat /\ MaxRedisFaults \in Nat /\ MaxFaults \in Nat
    /\ Merging \in BOOLEAN

VARIABLES
    outcome,      \* what YooKassa decided about the payment
    posts,        \* POSTs of its event so far
    acked,        \* payments whose event was answered with 200
    accepted,     \* history: events pushed to the queue or handled by the request itself
    seen,         \* the dedupe keys webhook:seen:yookassa:<event id>
    queue,        \* the Redis list; head is the next to pop
    orphaned,     \* payments whose metadata names a user merged into another
    status,       \* payments.status, committed
    activations,  \* committed activations of the payment, by process
    receipts,     \* LKNPD income receipts sent for the payment
    announced,    \* payment.succeeded events emitted for the payment
    lock,         \* payment_processing_lock of each process
    pc, pay, view,\* each task's position, payment, and session instance's status
    redisFaults, faults

provider == <<outcome, posts, acked, accepted>>
redis == <<seen, queue, redisFaults>>
database == <<status, activations>>
effects == <<receipts, announced>>
vars == <<provider, redis, orphaned, database, effects, lock, pc, pay, view, faults>>

Outcome == {"open", "succeeded", "canceled"}
Status == {"pending", "succeeded", "canceled", "failed_user_not_found"}
Outside == {"idle", "dedupe", "push", "ask", "lock"}
Inside == {"load", "user", "orphan", "activate", "receipt", "commit", "announce", "cancel",
           "done", "failed"}

TypeOK ==
    /\ outcome \in [Payment -> Outcome]
    /\ posts \in [Payment -> Nat]
    /\ acked \subseteq Payment /\ accepted \subseteq Payment
    /\ seen \subseteq Payment /\ orphaned \subseteq Payment
    /\ queue \in Seq(Payment)
    /\ status \in [Payment -> Status]
    /\ activations \in [Payment -> [Process -> Nat]]
    /\ receipts \in [Payment -> Nat] /\ announced \in [Payment -> Nat]
    /\ lock \in [Process -> Task \cup {Free}]
    /\ pc \in [Task -> Outside \cup Inside]
    /\ pay \in [Task -> Payment]
    /\ view \in [Task -> Status]
    /\ redisFaults \in Nat /\ faults \in Nat

Init ==
    /\ outcome = [p \in Payment |-> "open"]
    /\ posts = [p \in Payment |-> 0]
    /\ acked = {} /\ accepted = {} /\ seen = {} /\ orphaned = {}
    /\ queue = <<>>
    /\ status = [p \in Payment |-> "pending"]
    /\ activations = [p \in Payment |-> [x \in Process |-> 0]]
    /\ receipts = [p \in Payment |-> 0]
    /\ announced = [p \in Payment |-> 0]
    /\ lock = [x \in Process |-> Free]
    /\ pc = [t \in Task |-> "idle"]
    /\ pay = [t \in Task |-> CHOOSE p \in Payment : TRUE]
    /\ view = [t \in Task |-> "pending"]
    /\ redisFaults = 0 /\ faults = 0

ProcessOf(t) == IF t \in Consumer THEN "worker" ELSE "backend"

Goto(t, from, to) == pc[t] = from /\ pc' = [pc EXCEPT ![t] = to]

Committed(p) == activations[p]["backend"] + activations[p]["worker"]

\* Flushed but not committed: the transaction of such a task locks the row.
Holds(t, p) == pc[t] \in {"receipt", "commit"} /\ pay[t] = p

RowFree(p) == \A t \in Task : ~Holds(t, p)

(***************************************************************************)
(* The provider and the users.                                             *)
(***************************************************************************)

\* The customer pays, or the payment expires at YooKassa: both are final.
Decide(p) ==
    /\ outcome[p] = "open"
    /\ \E o \in {"succeeded", "canceled"} : outcome' = [outcome EXCEPT ![p] = o]
    /\ UNCHANGED <<posts, acked, accepted, redis, orphaned, database, effects, lock, pc, pay,
                   view, faults>>

\* YooKassa posts the event, and again until a 200 reaches it.
Post(r, p) ==
    /\ outcome[p] # "open" /\ posts[p] < MaxPosts
    /\ posts' = [posts EXCEPT ![p] = @ + 1]
    /\ Goto(r, "idle", "dedupe")
    /\ pay' = [pay EXCEPT ![r] = p]
    /\ UNCHANGED <<outcome, acked, accepted, redis, orphaned, database, effects, lock, view,
                   faults>>

\* merge_users re-points the payment row and deletes the source user, whose id
\* stays in the metadata YooKassa will send back.
MergeUser(p) ==
    /\ Merging /\ p \notin orphaned /\ RowFree(p)
    /\ orphaned' = orphaned \cup {p}
    /\ UNCHANGED <<provider, redis, database, effects, lock, pc, pay, view, faults>>

\* The dedupe key's TTL of 24 hours.
DedupeExpires(p) ==
    /\ p \in seen
    /\ seen' = seen \ {p}
    /\ UNCHANGED <<provider, queue, redisFaults, orphaned, database, effects, lock, pc, pay,
                   view, faults>>

(***************************************************************************)
(* The webhook request: SET NX of the dedupe key, then LPUSH.              *)
(***************************************************************************)

Dedupe(r) ==
    LET p == pay[r] IN
    /\ pc[r] = "dedupe"
    /\ \/ /\ p \notin seen
          /\ seen' = seen \cup {p}
          /\ pc' = [pc EXCEPT ![r] = "push"]
          /\ UNCHANGED <<acked, redisFaults>>
       \/ /\ p \in seen                           \* "Skipping duplicate": answered 200 queued
          /\ acked' = acked \cup {p}
          /\ pc' = [pc EXCEPT ![r] = "idle"]
          /\ UNCHANGED <<seen, redisFaults>>
       \/ /\ redisFaults < MaxRedisFaults         \* no answer: settle in this request
          /\ redisFaults' = redisFaults + 1
          /\ seen' \in {seen, seen \cup {p}}
          /\ pc' = [pc EXCEPT ![r] = "lock"]
          /\ UNCHANGED acked
    /\ UNCHANGED <<outcome, posts, accepted, queue, orphaned, database, effects, lock, pay,
                   view, faults>>

Push(r) ==
    LET p == pay[r] IN
    /\ pc[r] = "push"
    /\ \/ /\ queue' = Append(queue, p)
          /\ accepted' = accepted \cup {p}
          /\ acked' = acked \cup {p}
          /\ pc' = [pc EXCEPT ![r] = "idle"]
          /\ UNCHANGED redisFaults
       \/ /\ redisFaults < MaxRedisFaults         \* the call raises; the list may hold the event
          /\ redisFaults' = redisFaults + 1
          /\ \/ queue' = Append(queue, p) /\ accepted' = accepted \cup {p}
             \/ UNCHANGED <<queue, accepted>>
          /\ pc' = [pc EXCEPT ![r] = "lock"]      \* the dedupe key stays
          /\ UNCHANGED acked
    /\ UNCHANGED <<outcome, posts, seen, orphaned, database, effects, lock, pay, view, faults>>

\* The consumer's BRPOP: the event leaves Redis before it is handled, and is
\* gone if the answer does not arrive (pop_webhook_event returns None).
Pop(c) ==
    /\ pc[c] = "idle" /\ queue # <<>>
    /\ queue' = Tail(queue)
    /\ \/ /\ pc' = [pc EXCEPT ![c] = "lock"]
          /\ pay' = [pay EXCEPT ![c] = Head(queue)]
          /\ UNCHANGED redisFaults
       \/ /\ redisFaults < MaxRedisFaults
          /\ redisFaults' = redisFaults + 1
          /\ UNCHANGED <<pc, pay>>
    /\ UNCHANGED <<provider, seen, orphaned, database, effects, lock, view, faults>>

(***************************************************************************)
(* The status page: it loads the row, asks YooKassa, and settles.          *)
(***************************************************************************)

\* _payment_status_can_be_refreshed: only a pending row is asked about.
StartPoll(t, p) ==
    /\ status[p] = "pending"
    /\ Goto(t, "idle", "ask")
    /\ pay' = [pay EXCEPT ![t] = p]
    /\ view' = [view EXCEPT ![t] = status[p]]
    /\ UNCHANGED <<provider, redis, orphaned, database, effects, lock, faults>>

\* get_payment_info answers, or fails and leaves the payment as it is.
AskProvider(t) ==
    /\ pc[t] = "ask"
    /\ \/ outcome[pay[t]] # "open" /\ pc' = [pc EXCEPT ![t] = "lock"]
       \/ pc' = [pc EXCEPT ![t] = "idle"]
    /\ UNCHANGED <<provider, redis, orphaned, database, effects, lock, pay, view, faults>>

(***************************************************************************)
(* Settlement, under the lock of the task's process.                       *)
(***************************************************************************)

AcquireLock(t) ==
    /\ lock[ProcessOf(t)] = Free
    /\ lock' = [lock EXCEPT ![ProcessOf(t)] = t]
    /\ Goto(t, "lock", "load")
    /\ UNCHANGED <<provider, redis, orphaned, database, effects, pay, view, faults>>

\* Mutant: the consumers share one session and read the instance it holds.
SessionReadCached(t) == view[t]

\* get_payment_by_db_id.  A consumer or a request has just opened its session;
\* the poller's session holds the row since StartPoll and is not refreshed.
SessionRead(t) == IF t \in Poller THEN view[t] ELSE status[pay[t]]

\* Mutant: no duplicate check.
LoadWithoutCheck(t) ==
    /\ view' = [view EXCEPT ![t] = SessionRead(t)]
    /\ Goto(t, "load", IF outcome[pay[t]] = "canceled" THEN "cancel" ELSE "user")
    /\ UNCHANGED <<provider, redis, orphaned, database, effects, lock, pay, faults>>

\* The duplicate check of process_successful_payment, or, for a canceled
\* payment, the row read of update_payment_status_by_db_id.
Load(t) ==
    /\ pc[t] = "load"
    /\ view' = [view EXCEPT ![t] = SessionRead(t)]
    /\ pc' = [pc EXCEPT ![t] =
                 IF outcome[pay[t]] = "canceled" THEN "cancel"
                 ELSE IF SessionRead(t) = "succeeded" THEN "done" ELSE "user"]
    /\ UNCHANGED <<provider, redis, orphaned, database, effects, lock, pay, faults>>

\* get_user_by_id on the metadata's user id.
CheckUser(t) ==
    /\ pc[t] = "user"
    /\ pc' = [pc EXCEPT ![t] = IF pay[t] \in orphaned THEN "orphan" ELSE "activate"]
    /\ UNCHANGED <<provider, redis, orphaned, database, effects, lock, pay, view, faults>>

\* update_payment_status_by_db_id: _would_overwrite_succeeded_payment compares
\* with the session's instance, not with the row, and an unchanged attribute is
\* left out of the UPDATE.
WriteStatus(t, new) ==
    /\ RowFree(pay[t])
    /\ IF view[t] \in {"succeeded", new}
       THEN UNCHANGED status
       ELSE status' = [status EXCEPT ![pay[t]] = new]

\* The user is missing: failed_user_not_found, committed by the caller.
FailOrphan(t) ==
    /\ Goto(t, "orphan", "done")
    /\ WriteStatus(t, "failed_user_not_found")
    /\ UNCHANGED <<provider, redis, orphaned, activations, effects, lock, pay, view, faults>>

\* Mutant: the new status is committed before the activation.
ActivateAfterStatus(t) ==
    /\ pc[t] = "activate" /\ RowFree(pay[t])
    /\ pc' = [pc EXCEPT ![t] = IF pay[t] \in orphaned THEN "failed" ELSE "receipt"]
    /\ status' = [status EXCEPT ![pay[t]] = "succeeded"]
    /\ UNCHANGED <<provider, redis, orphaned, activations, effects, lock, pay, view, faults>>

\* activate_subscription, the referral bonus and the new status are flushed: the
\* row is locked, and nobody else sees the rows yet.  A user merged away since
\* CheckUser fails the foreign key.
Activate(t) ==
    /\ pc[t] = "activate" /\ RowFree(pay[t])
    /\ pc' = [pc EXCEPT ![t] = IF pay[t] \in orphaned THEN "failed" ELSE "receipt"]
    /\ UNCHANGED <<provider, redis, orphaned, database, effects, lock, pay, view, faults>>

\* Mutant: the events leave before the commit.
SendReceiptAndEvents(t) ==
    /\ Goto(t, "receipt", "commit")
    /\ receipts' = [receipts EXCEPT ![pay[t]] = @ + 1]
    /\ announced' = [announced EXCEPT ![pay[t]] = @ + 1]
    /\ UNCHANGED <<provider, redis, orphaned, database, lock, pay, view, faults>>

\* Mutant: a receipt without an answer is sent again.
SendReceiptAgain(t) ==
    /\ pc[t] = "receipt"
    /\ pc' = [pc EXCEPT ![t] = IF receipts[pay[t]] > 0 THEN "commit" ELSE "receipt"]
    /\ receipts' = [receipts EXCEPT ![pay[t]] = @ + 1]
    /\ UNCHANGED <<provider, redis, orphaned, database, announced, lock, pay, view, faults>>

\* The LKNPD receipt leaves before the commit.
SendReceipt(t) ==
    /\ Goto(t, "receipt", "commit")
    /\ receipts' = [receipts EXCEPT ![pay[t]] = @ + 1]
    /\ UNCHANGED <<provider, redis, orphaned, database, announced, lock, pay, view, faults>>

\* session.commit(): the activation and the status become visible together.
Commit(t) ==
    /\ Goto(t, "commit", "announce")
    /\ status' = [status EXCEPT ![pay[t]] = "succeeded"]
    /\ activations' = [activations EXCEPT ![pay[t]][ProcessOf(t)] = @ + 1]
    /\ UNCHANGED <<provider, redis, orphaned, effects, lock, pay, view, faults>>

\* emit_yookassa_success_events, after the commit and still under the lock.
Announce(t) ==
    /\ Goto(t, "announce", "done")
    /\ announced' = [announced EXCEPT ![pay[t]] = @ + 1]
    /\ UNCHANGED <<provider, redis, orphaned, database, receipts, lock, pay, view, faults>>

\* Mutant: the provider's other spelling reaches the row.
CancelSpelled(t) ==
    /\ Goto(t, "cancel", "done")
    /\ WriteStatus(t, "cancelled")
    /\ UNCHANGED <<provider, redis, orphaned, activations, effects, lock, pay, view, faults>>

\* process_cancelled_payment and the caller's commit.
Cancel(t) ==
    /\ Goto(t, "cancel", "done")
    /\ WriteStatus(t, "canceled")
    /\ UNCHANGED <<provider, redis, orphaned, activations, effects, lock, pay, view, faults>>

\* An exception before the commit rolls the transaction back.
Raise(t) ==
    /\ faults < MaxFaults
    /\ faults' = faults + 1
    /\ pc[t] \in {"load", "user", "orphan", "activate", "receipt", "commit", "cancel"}
    /\ pc' = [pc EXCEPT ![t] = "failed"]
    /\ UNCHANGED <<provider, redis, orphaned, database, effects, lock, pay, view>>

\* Mutant: the lock is not left.
ReleaseNothing(t) ==
    /\ pc[t] \in {"done", "failed"}
    /\ pc' = [pc EXCEPT ![t] = "idle"]
    /\ UNCHANGED <<provider, redis, orphaned, database, effects, lock, pay, view, faults>>

\* The lock is left.  A request answers 200, or 500 after an exception; the
\* consumer logs the exception and drops the event; the poller logs it.
Release(t) ==
    /\ pc[t] \in {"done", "failed"}
    /\ lock' = [lock EXCEPT ![ProcessOf(t)] = Free]
    /\ pc' = [pc EXCEPT ![t] = "idle"]
    /\ IF t \in Request /\ pc[t] = "done"
       THEN acked' = acked \cup {pay[t]} /\ accepted' = accepted \cup {pay[t]}
       ELSE UNCHANGED <<acked, accepted>>
    /\ UNCHANGED <<outcome, posts, redis, orphaned, database, effects, pay, view, faults>>

\* A process stops and restarts: its tasks, its lock and its open transactions
\* are gone, the database and Redis stay.
Crash(x) ==
    /\ faults < MaxFaults
    /\ faults' = faults + 1
    /\ lock' = [lock EXCEPT ![x] = Free]
    /\ pc' = [t \in Task |-> IF ProcessOf(t) = x THEN "idle" ELSE pc[t]]
    /\ UNCHANGED <<provider, redis, orphaned, database, effects, pay, view>>

Settle(t) ==
    \/ AcquireLock(t) \/ Load(t) \/ CheckUser(t) \/ FailOrphan(t) \/ Activate(t)
    \/ SendReceipt(t) \/ Commit(t) \/ Announce(t) \/ Cancel(t) \/ Release(t)

Next ==
    \/ \E p \in Payment : Decide(p) \/ MergeUser(p) \/ DedupeExpires(p)
    \/ \E r \in Request : (\E p \in Payment : Post(r, p)) \/ Dedupe(r) \/ Push(r)
    \/ \E c \in Consumer : Pop(c)
    \/ \E t \in Poller : (\E p \in Payment : StartPoll(t, p)) \/ AskProvider(t)
    \/ \E t \in Task : Settle(t) \/ Raise(t)
    \/ \E x \in Process : Crash(x)

Spec == Init /\ [][Next]_vars

\* Both event loops keep running their tasks, and YooKassa keeps posting.
Fairness ==
    /\ \A t \in Task : WF_vars(Settle(t))
    /\ \A r \in Request : WF_vars(Dedupe(r)) /\ WF_vars(Push(r))
    /\ \A c \in Consumer : WF_vars(Pop(c))
    /\ \A p \in Payment : WF_vars(p \notin acked /\ \E r \in Request : Post(r, p))

LiveSpec == Spec /\ Fairness

(***************************************************************************)
(* Properties.                                                             *)
(***************************************************************************)

\* A payment the shop counts as succeeded was paid at YooKassa and its
\* activation is committed, whatever failed or crashed in between
\* (process_successful_payment writes both in one transaction).
SucceededMeansActivated ==
    \A p \in Payment : status[p] = "succeeded" => outcome[p] = "succeeded" /\ Committed(p) > 0

\* 1 if a task of process x stands at location l for payment p.
At(x, l, p) ==
    IF \E t \in Task : ProcessOf(t) = x /\ pc[t] = l /\ pay[t] = p THEN 1 ELSE 0

\* payment.succeeded is emitted at most once per committed activation, and never
\* for one that was rolled back.
AnnouncedWasCommitted ==
    \A p \in Payment : announced[p] <= Committed(p)

\* The worker never activates a payment twice: its consumers read the row afresh
\* under the worker's lock, so redeliveries, pollers and crashes cannot make it.
WorkerActivatesOnce ==
    \A p \in Payment : activations[p]["worker"] <= 1

\* The lock serialises settlement in a process: only its holder is between the
\* duplicate check and the end of the announcement.
SettlementIsSerial ==
    \A t \in Task : pc[t] \in Inside => lock[ProcessOf(t)] = t

\* Every receipt sent to the tax service belongs to a committed activation, to a
\* settlement about to commit, or to a fault that rolled one back.
ReceiptsAccounted ==
    \A p \in Payment :
        receipts[p] <= Committed(p) + faults + At("backend", "commit", p) + At("worker", "commit", p)

\* What makes the properties above inductive.  A task knows the provider's
\* verdict; nothing is activated that was not paid; an announcement in progress is
\* still owed; and a consumer past the duplicate check works on a payment the
\* worker has not activated, or, before CheckUser, on one whose user is gone.
TasksKnowOutcome ==
    /\ \A i \in 1 .. Len(queue) : outcome[queue[i]] # "open"
    /\ \A t \in Task :
        /\ pc[t] \in {"dedupe", "push", "lock", "load"} => outcome[pay[t]] # "open"
        /\ pc[t] \in {"user", "orphan", "activate", "receipt", "commit"}
              => outcome[pay[t]] = "succeeded"
        /\ pc[t] = "cancel" => outcome[pay[t]] = "canceled"

ActivatedWasPaid ==
    \A p \in Payment : Committed(p) > 0 => outcome[p] = "succeeded"

AnnouncementsOwed ==
    \A p \in Payment :
        announced[p] + At("backend", "announce", p) + At("worker", "announce", p) <= Committed(p)

WorkerSettlesFresh ==
    /\ \A p \in Payment :
        activations[p]["worker"] > 0 => status[p] = "succeeded" \/ p \in orphaned
    /\ \A t \in Task : pc[t] = "orphan" => pay[t] \in orphaned
    /\ \A c \in Consumer :
        /\ pc[c] \in {"activate", "receipt", "commit"} => activations[pay[c]]["worker"] = 0
        /\ pc[c] = "user" => activations[pay[c]]["worker"] = 0 \/ pay[c] \in orphaned

SettlementInv ==
    /\ TasksKnowOutcome /\ ActivatedWasPaid /\ AnnouncementsOwed /\ WorkerSettlesFresh

\* The payment as the ledger of the shop sees it.
LedgerState(p) ==
    IF outcome[p] = "open" THEN "unpaid"
    ELSE IF outcome[p] = "canceled" THEN "void"
    ELSE IF status[p] = "succeeded" THEN "granted" ELSE "paid"

Ledger == INSTANCE PaymentLedger WITH
    state <- [p \in Payment |-> LedgerState(p)],
    entitlements <- [p \in Payment |-> Committed(p)]

\* With the worker alone settling, every paid payment is granted exactly once and
\* no verdict is taken back, under duplicated events, expired dedupe keys, exceptions
\* and crashes (_handle_yookassa_event and process_successful_payment).
ImplementsLedger == Ledger!Spec

\* A paid payment is eventually granted, unless an exception or a crash loses the
\* event that BRPOP has taken: YooKassa posts, the queue keeps the event, and a
\* consumer settles it.
PaidIsGranted ==
    \A p \in Payment : LedgerState(p) = "paid" ~> LedgerState(p) = "granted" \/ faults > 0

================================================================================
