--------------------------- MODULE ProviderSettlement ---------------------------
(***************************************************************************)
(* Settlement of every payment provider but YooKassa.  Each webhook route  *)
(* (payment_providers/<name>/service.py) looks the payment up, marks it    *)
(* succeeded_pending_finalization, commits, and calls the shared           *)
(* finalize_successful_payment (shared/success.py); a declined attempt is  *)
(* marked failed.  The Mini App's status page settles a Wata payment too   *)
(* (webapp/billing_status.py).  All of it runs in the backend process, one *)
(* task per request, and no lock is taken.                                 *)
(*                                                                         *)
(* A step is the code between two awaits that another task can observe;    *)
(* `view' is the Payment instance the task's session holds, which a plain  *)
(* SELECT does not refresh.                                                *)
(***************************************************************************)
EXTENDS Naturals, FiniteSets

CONSTANTS
    Payment,       \* payment rows
    Hook,          \* webhook requests in flight
    Poller,        \* status-page requests in flight
    Provider,      \* the providers the payments may belong to
    MaxDuplicates, \* bound on POSTs of an event already answered
    MaxFaults      \* bound on exceptions and process crashes

(***************************************************************************)
(* What a provider's webhook route does with the three events of a         *)
(* payment.  handles: the events that change the row.  skips: the events   *)
(* answered at once when the payment has already succeeded.  forgives: the *)
(* events answered as handled although handling them failed.               *)
(***************************************************************************)

Route(handles, skips, forgives) ==
    [handles |-> handles, skips |-> skips, forgives |-> forgives]

FreeKassa == Route({"paid"}, {"paid"}, {})
Platega == Route({"paid", "declined"}, {"paid"}, {})
Heleket == Route({"paid", "declined"}, {"paid"}, {})
PayKilla == Route({"paid", "declined"}, {"paid"}, {})
CloudPayments == Route({"paid", "declined"}, {"paid"}, {})
Qa == Route({"paid", "declined"}, {"paid"}, {})
SeverPay == Route({"paid", "declined", "waiting"}, {"paid"}, {"waiting"})
Lava == Route({"paid", "declined", "waiting"}, {"paid"}, {"waiting"})
Pally == Route({"paid", "declined", "waiting"}, {"paid"}, {"waiting"})
Wata == Route({"paid", "declined", "waiting"}, {"paid", "declined", "waiting"}, {})
Stripe == Route({"paid", "declined"}, {"paid", "declined"}, {})
CryptoPay == Route({"paid"}, {"paid"}, {"paid"})
Stars == Route({"paid"}, {"paid"}, {"paid"})

Routes ==
    [freekassa |-> FreeKassa, platega |-> Platega, heleket |-> Heleket, paykilla |-> PayKilla,
     cloudpayments |-> CloudPayments, qa |-> Qa, severpay |-> SeverPay, lava |-> Lava,
     pally |-> Pally, wata |-> Wata, stripe |-> Stripe, cryptopay |-> CryptoPay,
     stars |-> Stars]

Task == Hook \cup Poller

ASSUME TasksAssumption == Hook \cap Poller = {} /\ Payment # {}

ASSUME ProvidersAssumption == Provider \subseteq DOMAIN Routes /\ Provider # {}

ASSUME BoundsAssumption == MaxDuplicates \in Nat /\ MaxFaults \in Nat

VARIABLES
    provider,    \* payments.provider
    reports,     \* the events the provider has decided to report, by payment
    acked,       \* the events answered with 200
    duplicates,  \* POSTs of events that were already answered
    status,      \* payments.status, committed
    activations, \* committed activations of the payment
    refusals,    \* commits of succeeded after activate_subscription answered None
    announced,   \* payment.succeeded events emitted
    notices,     \* "payment failed" messages sent to the user
    pc, pay, event, view,
    faults

world == <<provider, reports, acked, duplicates>>
settled == <<activations, refusals>>
database == <<status, settled>>
effects == <<announced, notices>>
vars == <<world, database, effects, pc, pay, event, view, faults>>

Event == {"paid", "declined", "waiting"}

\* pending_<provider>; succeeded_pending_finalization; failed also stands for
\* the "canceled" that Platega and an expired Wata link write.
Status == {"pending", "finalizing", "succeeded", "failed", "activation_failed"}

Position == {"idle", "ask", "mark", "activate", "commit", "announce", "notify", "answer",
             "rolledBack", "record"}

TypeOK ==
    /\ provider \in [Payment -> Provider]
    /\ reports \in [Payment -> SUBSET Event] /\ acked \in [Payment -> SUBSET Event]
    /\ duplicates \in Nat
    /\ status \in [Payment -> Status]
    /\ activations \in [Payment -> Nat] /\ refusals \in [Payment -> Nat]
    /\ announced \in [Payment -> Nat] /\ notices \in [Payment -> Nat]
    /\ pc \in [Task -> Position]
    /\ pay \in [Task -> Payment] /\ event \in [Task -> Event] /\ view \in [Task -> Status]
    /\ faults \in Nat

Init ==
    /\ provider \in [Payment -> Provider]
    /\ reports = [p \in Payment |-> {}] /\ acked = [p \in Payment |-> {}]
    /\ duplicates = 0
    /\ status = [p \in Payment |-> "pending"]
    /\ activations = [p \in Payment |-> 0] /\ refusals = [p \in Payment |-> 0]
    /\ announced = [p \in Payment |-> 0] /\ notices = [p \in Payment |-> 0]
    /\ pc = [t \in Task |-> "idle"]
    /\ pay = [t \in Task |-> CHOOSE p \in Payment : TRUE]
    /\ event = [t \in Task |-> "waiting"]
    /\ view = [t \in Task |-> "pending"]
    /\ faults = 0

Goto(t, from, to) == pc[t] = from /\ pc' = [pc EXCEPT ![t] = to]

\* The request ends, and its session and locals with it.
End(t) ==
    /\ pc' = [pc EXCEPT ![t] = "idle"]
    /\ event' = [event EXCEPT ![t] = "waiting"]
    /\ view' = [view EXCEPT ![t] = "pending"]

RouteOf(p) == Routes[provider[p]]

\* Flushed but not committed: the transaction of such a task locks the row.
Holds(t, p) == pc[t] = "commit" /\ pay[t] = p

RowFree(p) == \A t \in Task : ~Holds(t, p)

(***************************************************************************)
(* The provider.                                                           *)
(***************************************************************************)

\* An attempt is under way, is declined, or succeeds; a declined attempt may be
\* followed by a paid one, and a paid one by a chargeback.
Report(p, e) ==
    /\ e \in RouteOf(p).handles \ reports[p]
    /\ reports' = [reports EXCEPT ![p] = @ \cup {e}]
    /\ UNCHANGED <<provider, acked, duplicates, database, effects, pc, pay, event, view, faults>>

\* Mutant: a payment that is being finalized counts as succeeded.
LookupByPrefix(h, p, e) ==
    /\ Goto(h, "idle", IF status[p] \in {"succeeded", "finalizing"} /\ e \in RouteOf(p).skips
                       THEN "answer" ELSE "mark")
    /\ pay' = [pay EXCEPT ![h] = p]
    /\ event' = [event EXCEPT ![h] = e]
    /\ view' = [view EXCEPT ![h] = status[p]]

\* The route loads the payment into a session of its own.  A request that fails
\* before that has changed nothing, and is repeated.
Lookup(h, p, e) ==
    /\ Goto(h, "idle", IF status[p] = "succeeded" /\ e \in RouteOf(p).skips
                       THEN "answer" ELSE "mark")
    /\ pay' = [pay EXCEPT ![h] = p]
    /\ event' = [event EXCEPT ![h] = e]
    /\ view' = [view EXCEPT ![h] = status[p]]

\* The provider posts an event until it is answered with 200, in any order and
\* also while an earlier POST of it is still being handled.
Post(h, p, e) ==
    /\ e \in reports[p] \ acked[p]
    /\ Lookup(h, p, e)
    /\ UNCHANGED <<world, database, effects, faults>>

\* The 200 was lost, or a delayed copy arrives.
PostAgain(h, p, e) ==
    /\ e \in acked[p] /\ duplicates < MaxDuplicates
    /\ duplicates' = duplicates + 1
    /\ Lookup(h, p, e)
    /\ UNCHANGED <<provider, reports, acked, database, effects, faults>>

(***************************************************************************)
(* The status page.                                                        *)
(***************************************************************************)

\* _payment_status_can_be_refreshed: the status page asks about pending rows.
StartPoll(t, p) ==
    /\ provider[p] = "wata" /\ status[p] = "pending"
    /\ Goto(t, "idle", "ask")
    /\ pay' = [pay EXCEPT ![t] = p]
    /\ view' = [view EXCEPT ![t] = status[p]]
    /\ UNCHANGED <<world, database, effects, event, faults>>

\* refresh_payment_status: three queries in turn, for a paid transaction, for a
\* declined one, and for an expired link; a query that fails finds nothing, and
\* the payment may be paid between two of them.
AskWata(t) ==
    /\ pc[t] = "ask"
    /\ \/ /\ "paid" \in reports[pay[t]]
          /\ event' = [event EXCEPT ![t] = "paid"]
          /\ pc' = [pc EXCEPT ![t] = "mark"]
          /\ UNCHANGED view
       \/ /\ event' = [event EXCEPT ![t] = "declined"]
          /\ pc' = [pc EXCEPT ![t] = "mark"]
          /\ UNCHANGED view
       \/ End(t)
    /\ UNCHANGED <<world, database, effects, pay, faults>>

(***************************************************************************)
(* The first transaction: update_provider_payment_and_status.              *)
(***************************************************************************)

\* Mutant: nothing is preserved.
OverwriteStatus(t, new) ==
    /\ RowFree(pay[t])
    /\ status' = [status EXCEPT ![pay[t]] = new]

\* _would_overwrite_succeeded_payment compares with the session's instance, not
\* with the row, and an unchanged attribute is left out of the UPDATE.
WriteStatus(t, new) ==
    /\ RowFree(pay[t])
    /\ IF view[t] \in {"succeeded", new}
       THEN UNCHANGED status
       ELSE status' = [status EXCEPT ![pay[t]] = new]

\* Mutant: the money's arrival is recorded as the finished payment.
NewStatusSucceeded(t) ==
    IF event[t] = "paid" THEN "succeeded"
    ELSE IF event[t] = "declined" THEN "failed"
    ELSE IF provider[pay[t]] = "wata" THEN view[t] ELSE "pending"

\* Mutant: a status outside the shop's vocabulary.
NewStatusForeign(t) == IF event[t] = "waiting" THEN "in_progress" ELSE "finalizing"

\* Wata's route writes the status back that it has read.
NewStatus(t) ==
    IF event[t] = "paid" THEN "finalizing"
    ELSE IF event[t] = "declined" THEN "failed"
    ELSE IF provider[pay[t]] = "wata" THEN view[t] ELSE "pending"

\* Mutant: every event goes on to the finalizer.
AfterMarkAlways(t) == "activate"

\* Only a webhook tells the user about a declined attempt.
AfterMark(t) ==
    IF event[t] = "paid" THEN "activate"
    ELSE IF event[t] = "declined" /\ t \in Hook THEN "notify" ELSE "answer"

\* Write, commit, and session.refresh: the instance shows the row again.  The
\* finalizer does not look at it.
Mark(t) ==
    /\ Goto(t, "mark", AfterMark(t))
    /\ WriteStatus(t, NewStatus(t))
    /\ view' = [view EXCEPT ![t] = status'[pay[t]]]
    /\ UNCHANGED <<world, settled, effects, pay, event, faults>>

\* Mutant: the reaction does not look at the row.
NotifyAlways(t) ==
    /\ Goto(t, "notify", "answer")
    /\ notices' = [notices EXCEPT ![pay[t]] = @ + 1]
    /\ UNCHANGED <<world, database, announced, pay, event, view, faults>>

\* payment.canceled: its reaction (services/event_reactions.py) reads the row
\* afresh and tells the user unless the payment has succeeded meanwhile.
Notify(t) ==
    /\ Goto(t, "notify", "answer")
    /\ notices' = [notices EXCEPT ![pay[t]] = IF status[pay[t]] = "succeeded" THEN @ ELSE @ + 1]
    /\ UNCHANGED <<world, database, announced, pay, event, view, faults>>

(***************************************************************************)
(* The second transaction: finalize_successful_payment.                    *)
(***************************************************************************)

\* Mutant: the events leave before the commit.
ActivateAnnounced(t) ==
    /\ pc[t] = "activate" /\ RowFree(pay[t])
    /\ pc' = [pc EXCEPT ![t] = "commit"]
    /\ announced' = [announced EXCEPT ![pay[t]] = @ + 1]
    /\ UNCHANGED <<world, database, notices, pay, event, view, faults>>

\* activate_subscription and the referral bonus.
Activate(t) ==
    /\ pc[t] = "activate" /\ RowFree(pay[t])
    /\ pc' = [pc EXCEPT ![t] = "commit"]
    /\ UNCHANGED <<world, database, effects, pay, event, view, faults>>

\* update_payment_status_by_db_id in the transaction that holds the row.
Succeed(t) ==
    /\ status' = IF view[t] = "succeeded" THEN status ELSE [status EXCEPT ![pay[t]] = "succeeded"]
    /\ view' = [view EXCEPT ![t] = "succeeded"]

\* None is activate_subscription's answer to most failures, not an exception, and
\* nothing looks at it before the commit.
Commit(t) ==
    /\ Goto(t, "commit", "announce")
    /\ Succeed(t)
    /\ activations' = [activations EXCEPT ![pay[t]] = @ + 1]
    /\ UNCHANGED <<world, refusals, effects, pay, event, faults>>

CommitNothing(t) ==
    /\ Goto(t, "commit", "announce")
    /\ Succeed(t)
    /\ refusals' = [refusals EXCEPT ![pay[t]] = @ + 1]
    /\ UNCHANGED <<world, activations, effects, pay, event, faults>>

\* payment.succeeded and the message to the user.
Announce(t) ==
    /\ Goto(t, "announce", "answer")
    /\ announced' = [announced EXCEPT ![pay[t]] = @ + 1]
    /\ UNCHANGED <<world, database, notices, pay, event, view, faults>>

\* The 200; the status page has nobody to answer.
Answer(t) ==
    /\ pc[t] = "answer"
    /\ End(t)
    /\ acked' = IF t \in Hook THEN [acked EXCEPT ![pay[t]] = @ \cup {event[t]}] ELSE acked
    /\ UNCHANGED <<provider, reports, duplicates, database, effects, pay, faults>>

(***************************************************************************)
(* Failures.                                                               *)
(***************************************************************************)

\* Mutant: a failed settlement is answered as a handled one.
AnswerFailureOk(t) ==
    acked' = IF t \in Hook THEN [acked EXCEPT ![pay[t]] = @ \cup {event[t]}] ELSE acked

\* processing_error, 500; CryptoPay's handler and Telegram's update (Stars)
\* return normally, and so do the in-progress branches.
AnswerFailure(t) ==
    acked' = IF t \in Hook /\ event[t] \in RouteOf(pay[t]).forgives
             THEN [acked EXCEPT ![pay[t]] = @ \cup {event[t]}] ELSE acked

\* An exception before the commit of a transaction rolls it back.  One in the
\* first transaction, or while recording the failure, ends the request.
Fail(t) ==
    /\ faults < MaxFaults
    /\ faults' = faults + 1
    /\ \/ /\ pc[t] \in {"mark", "record"}
          /\ AnswerFailure(t)
          /\ End(t)
       \/ /\ pc[t] \in {"activate", "commit"}
          /\ pc' = [pc EXCEPT ![t] = "rolledBack"]
          /\ UNCHANGED <<acked, event, view>>
       \/ /\ pc[t] = "announce"                    \* not caught: aiohttp answers 500
          /\ End(t)
          /\ UNCHANGED acked
    /\ UNCHANGED <<provider, reports, duplicates, database, effects, pay>>

\* The rollback has expired the session's instances.  Logging req.payment's id
\* then loads it outside the greenlet, which raises, unless the failed call had
\* not begun a transaction: the exception leaves the finalizer.
Escape(t) ==
    /\ pc[t] = "rolledBack"
    /\ End(t)
    /\ \/ UNCHANGED acked
       \/ AnswerFailure(t)
    /\ UNCHANGED <<provider, reports, duplicates, database, effects, pay, faults>>

ReadAgain(t) ==
    /\ Goto(t, "rolledBack", "record")
    /\ view' = [view EXCEPT ![t] = status[pay[t]]]
    /\ UNCHANGED <<world, database, effects, pay, event, faults>>

\* activation_failed, and finalize_successful_payment returns None.
RecordFailure(t) ==
    /\ pc[t] = "record"
    /\ WriteStatus(t, "activation_failed")
    /\ AnswerFailure(t)
    /\ End(t)
    /\ UNCHANGED <<provider, reports, duplicates, settled, effects, pay, faults>>

\* The backend process dies; PostgreSQL rolls its open transactions back.
Crash ==
    /\ faults < MaxFaults
    /\ faults' = faults + 1
    /\ pc' = [t \in Task |-> "idle"]
    /\ event' = [t \in Task |-> "waiting"]
    /\ view' = [t \in Task |-> "pending"]
    /\ UNCHANGED <<world, database, effects, pay>>

Work(t) ==
    \/ Mark(t) \/ Notify(t) \/ Activate(t) \/ Commit(t) \/ CommitNothing(t) \/ Announce(t)
    \/ Answer(t) \/ Escape(t) \/ ReadAgain(t) \/ RecordFailure(t)

Next ==
    \/ \E p \in Payment, e \in Event : Report(p, e)
    \/ \E h \in Hook, p \in Payment, e \in Event : Post(h, p, e) \/ PostAgain(h, p, e)
    \/ \E t \in Poller, p \in Payment : StartPoll(t, p)
    \/ \E t \in Poller : AskWata(t)
    \/ \E t \in Task : Work(t) \/ Fail(t)
    \/ Crash

Spec == Init /\ [][Next]_vars

\* The event loop runs a webhook request as long as one can run, and a status
\* request likewise; the provider posts until it gets its 200.
Fairness ==
    /\ WF_vars(\E h \in Hook : Work(h))
    /\ WF_vars(\E t \in Poller : AskWata(t) \/ Work(t))
    /\ \A p \in Payment : WF_vars(\E h \in Hook : Post(h, p, "paid"))

LiveSpec == Spec /\ Fairness

(***************************************************************************)
(* Properties.                                                             *)
(***************************************************************************)

\* The finalizer's commits for a payment: of an activation, or of its refusal.
Verdicts(p) == activations[p] + refusals[p]

\* What finalize_successful_payment says of itself: it returns None, and rolls
\* back, when the activation failed.  It does not look at the None that
\* activate_subscription answers, so a row may say succeeded over nothing.
SucceededWasActivated ==
    \A p \in Payment : status[p] = "succeeded" => activations[p] > 0

\* A row that says succeeded stands for a finalizer that ran to its commit, with
\* an activation or with activate_subscription's refusal: the two-step status
\* exists so that a crash between the money and that commit cannot hide it
\* (PAYMENT_STATUS_PENDING_FINALIZATION).
SucceededWasFinalized ==
    \A p \in Payment : status[p] = "succeeded" => Verdicts(p) > 0

\* The provider stops repeating "paid" only when the finalizer has committed, an
\* activation or a refusal: a 200 to it is never given for work that a rollback
\* or a crash can undo.
AckedPaidWasFinalized ==
    \A p \in Payment :
        "paid" \in acked[p] /\ "paid" \notin RouteOf(p).forgives => Verdicts(p) > 0

\* While requests do not overlap, a provider that got its 200 for "paid" leaves a
\* succeeded row behind, so the purchase shows in the admin panel even when
\* nothing was activated.
AckedPaidIsSucceeded ==
    \A p \in Payment :
        "paid" \in acked[p] /\ "paid" \notin RouteOf(p).forgives => status[p] = "succeeded"

\* Nothing is granted for a payment the provider never reported paid, in
\* whatever order its declined, waiting and paid events arrive.
ActivatedWasPaid == \A p \in Payment : activations[p] > 0 => "paid" \in reports[p]

\* payment.succeeded is announced once at most for each commit of the finalizer,
\* and never for one that was rolled back; a refusal is announced like an
\* activation.
AnnouncedWasCommitted == \A p \in Payment : announced[p] <= Verdicts(p)

\* The user is not told that a payment failed whose purchase has been granted.
NoFailureNoticeAfterGrant ==
    [][\A p \in Payment : activations[p] > 0 => notices'[p] = notices[p]]_vars

LedgerState ==
    [p \in Payment |->
        IF status[p] = "succeeded" THEN IF refusals[p] > 0 THEN "refused" ELSE "granted"
        ELSE IF "paid" \in reports[p] THEN "paid" ELSE "unpaid"]

Ledger == INSTANCE PaymentLedger WITH state <- LedgerState, entitlements <- activations

\* Without concurrent requests the finalizer is the exactly-once ledger, over
\* declined attempts, chargebacks, repeated events, exceptions and crashes: one
\* verdict for a payment, a grant or a refusal.
ImplementsLedger == Ledger!Spec

\* What the customer paid for is granted or refused, however often settling it
\* fails: a rollback or a crash is not the last word on it.
PaidIsFinalized == \A p \in Payment : "paid" \in reports[p] ~> Verdicts(p) > 0

(***************************************************************************)
(* The inductive invariants behind the safety properties.                  *)
(***************************************************************************)

Finalizing == {"activate", "commit", "announce", "rolledBack", "record"}

\* A task that carries "paid" was told so by the provider, and only such a task
\* is in the finalizer.
CarriesReport ==
    \A t \in Task :
        /\ pc[t] \notin {"idle", "ask"} /\ event[t] = "paid" => "paid" \in reports[pay[t]]
        /\ pc[t] \in Finalizing => event[t] = "paid"
        /\ pc[t] = "notify" => event[t] = "declined"

\* A task whose instance says succeeded, or which is about to confirm "paid",
\* stands on a commit of the finalizer.
StandsOnVerdict ==
    \A t \in Task :
        /\ pc[t] # "idle" /\ view[t] = "succeeded" => Verdicts(pay[t]) > 0
        /\ pc[t] = "announce" => Verdicts(pay[t]) > 0
        /\ pc[t] = "answer" /\ event[t] = "paid" => Verdicts(pay[t]) > 0

\* Only a reported event is answered, and so only a reported one is repeated.
ConfirmsReport == \A p \in Payment : "paid" \in acked[p] => "paid" \in reports[p]

\* Nothing is refused, either, that the provider never reported paid.
RefusedWasPaid == \A p \in Payment : refusals[p] > 0 => "paid" \in reports[p]

FinalizerInv ==
    /\ TypeOK
    /\ ActivatedWasPaid /\ RefusedWasPaid /\ CarriesReport /\ ConfirmsReport
    /\ SucceededWasFinalized /\ AckedPaidWasFinalized /\ StandsOnVerdict

\* With one request at a time the instance is never behind the row, and a
\* payment has its one verdict exactly when its row says so.
ViewIsCurrent ==
    \A t \in Task : pc[t] \notin {"idle", "rolledBack"} => view[t] = status[pay[t]]

SettledExactly ==
    \A p \in Payment : Verdicts(p) = IF status[p] = "succeeded" THEN 1 ELSE 0

FinalizesUnsettled ==
    \A t \in Task :
        /\ pc[t] = "mark" /\ event[t] = "paid" => status[pay[t]] # "succeeded"
        /\ pc[t] \in {"activate", "commit", "rolledBack", "record"}
              => status[pay[t]] = "finalizing"

SerialInv == FinalizerInv /\ ViewIsCurrent /\ SettledExactly /\ FinalizesUnsettled
================================================================================
