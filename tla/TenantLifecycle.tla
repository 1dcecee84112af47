---------------------------- MODULE TenantLifecycle ----------------------------
(***************************************************************************)
(* The term of a subscription against the container it pays for, in the    *)
(* hermes mode: subscriptions.end_date and is_active on one side, the      *)
(* tenant's status on provisioning-core on the other.  A term is extended  *)
(* by a payment (activate_subscription) or by bonus days                   *)
(* (extend_active_subscription_days).  The worker process stops expired    *)
(* tenants twice over: AutoSuspendExpiredSubscriptionsWorker, which also   *)
(* clears is_active, and SubscriptionNotificationWorker, which looks only  *)
(* at the date.  Owners start, pause, suspend, delete and recreate their   *)
(* tenants from the bot and the Mini App.                                  *)
(*                                                                         *)
(* A step is the code between two awaits.  A transaction's first UPDATE of *)
(* a row and its commit are one step: in between the row is locked and     *)
(* nobody sees the new values.  The session flushes only the columns whose *)
(* value differs from the loaded one.  One row stands for one user, whose  *)
(* tenant it names.                                                        *)
(***************************************************************************)
EXTENDS Integers, FiniteSets

CONSTANTS
    Sub,            \* rows of subscriptions
    Extender,       \* transactions that extend a term
    Term,           \* lengths that are sold or given
    Grace,          \* AUTO_SUSPEND_GRACE_HOURS
    Notices,        \* EXPIRED_AFTER_NOTIFICATION_WINDOW
    Countdown,      \* core: from a suspension to the deletion
    MaxTime,        \* bound on the clock
    MaxExtensions,  \* bound on extensions
    MaxFaults       \* bound on refused calls, failed requests and worker crashes

ASSUME TermAssumption == Term # {} /\ Term \subseteq Nat \ {0}

ASSUME TimeAssumption ==
    /\ Grace \in Nat /\ Notices \in Nat /\ Countdown \in Nat
    /\ MaxTime \in Nat /\ MaxExtensions \in Nat /\ MaxFaults \in Nat

VARIABLES
    now,
    row,        \* subscriptions: [end |-> end_date, active |-> is_active], committed
    tenant,     \* provisioning-core: [status, since |-> last_state_change]
    suspender,  \* "idle", or "busy" with a batch
    batch,      \* rows the batch has still to suspend, with the end_date it loaded
    mark,       \* rows the batch will commit as inactive, likewise
    noticed,    \* tenants the notification tick has still to suspend
    req,        \* the extenders' transactions
    promised,   \* latest end_date an extension has reported, by row
    overlap,    \* rows committed by a transaction that had loaded an earlier version
    started,    \* tenants set running since their last suspension
    extensions, faults

worker == <<suspender, batch, mark, noticed>>
history == <<promised, overlap, started>>
counters == <<extensions, faults>>
vars == <<now, row, tenant, worker, req, history, counters>>

\* "active" also stands for created and provisioning.
Status == {"active", "suspended", "paused", "deleted"}

\* No row loaded.
Nothing == [at |-> -1]

Idle == [pc |-> "idle"]

Request ==
    {Idle}
      \cup [pc : {"select", "commit"}, sub : Sub, base : Nat, term : Term,
            end : Nat, active : BOOLEAN]

Loaded == {Nothing} \cup [at : Nat]

TypeOK ==
    /\ now \in Nat
    /\ row \in [Sub -> [end : Nat, active : BOOLEAN]]
    /\ tenant \in [Sub -> [status : Status, since : Nat]]
    /\ suspender \in {"idle", "busy"}
    /\ batch \in [Sub -> Loaded] /\ mark \in [Sub -> Loaded]
    /\ noticed \subseteq Sub
    /\ req \in [Extender -> Request]
    /\ promised \in [Sub -> Nat]
    /\ overlap \subseteq Sub /\ started \subseteq Sub
    /\ extensions \in Nat /\ faults \in Nat

\* A trial has been activated for every user and the tenant created.
Init ==
    /\ now = 0
    /\ \E t \in Term : row = [s \in Sub |-> [end |-> t, active |-> TRUE]]
    /\ tenant = [s \in Sub |-> [status |-> "active", since |-> 0]]
    /\ suspender = "idle"
    /\ batch = [s \in Sub |-> Nothing] /\ mark = [s \in Sub |-> Nothing]
    /\ noticed = {}
    /\ req = [e \in Extender |-> Idle]
    /\ promised = [s \in Sub |-> row[s].end]
    /\ overlap = {} /\ started = {}
    /\ extensions = 0 /\ faults = 0

Pass ==
    /\ now < MaxTime
    /\ now' = now + 1
    /\ UNCHANGED <<row, tenant, worker, req, history, counters>>

(***************************************************************************)
(* Provisioning-core, as the calls of HermesProvisioningService see it.    *)
(***************************************************************************)

Running(s) == tenant[s].status = "active"

\* POST /suspend is accepted, for a tenant that is suspended already too; whether
\* last_state_change then moves is not known here.
Stop(s) ==
    /\ tenant[s].status # "deleted"
    /\ \E at \in IF tenant[s].status = "suspended" THEN {tenant[s].since, now} ELSE {now} :
          tenant' = [tenant EXCEPT ![s] = [status |-> "suspended", since |-> at]]
    /\ started' = started \ {s}

\* POST /activate is accepted.
Run(s) ==
    /\ tenant[s].status # "deleted"
    /\ tenant' = [tenant EXCEPT ![s] = [status |-> "active", since |-> now]]
    /\ started' = started \cup {s}

\* POST /shop/tenants for a known owner: a deleted tenant is made anew, and
\* create_panel_user activates a suspended one.
Recreated(s) ==
    IF tenant[s].status \in {"suspended", "deleted"}
    THEN /\ tenant' = [tenant EXCEPT ![s] = [status |-> "active", since |-> now]]
         /\ started' = started \cup {s}
    ELSE UNCHANGED <<tenant, started>>

\* auto_delete_expired_suspensions
Sweep(s) ==
    /\ tenant[s].status = "suspended" /\ now - tenant[s].since >= Countdown
    /\ tenant' = [tenant EXCEPT ![s] = [status |-> "deleted", since |-> now]]
    /\ UNCHANGED <<now, row, worker, req, history, counters>>

(***************************************************************************)
(* The owner's buttons and the administrator's ban.  None of them looks at *)
(* the term: get_active_subscription_details answers for every tenant the  *)
(* core knows.                                                             *)
(***************************************************************************)

\* Start in the Mini App or the bot, "create bot", an unban.
Start(s) ==
    /\ Run(s)
    /\ UNCHANGED <<now, row, worker, req, promised, overlap, counters>>

Suspend(s) ==
    /\ Stop(s)
    /\ UNCHANGED <<now, row, worker, req, promised, overlap, counters>>

\* 409 unless the tenant runs.
Pause(s) ==
    /\ Running(s)
    /\ tenant' = [tenant EXCEPT ![s] = [status |-> "paused", since |-> now]]
    /\ UNCHANGED <<now, row, worker, req, history, counters>>

\* Delete, or a ban.
Delete(s) ==
    /\ tenant[s].status # "deleted"
    /\ tenant' = [tenant EXCEPT ![s] = [status |-> "deleted", since |-> now]]
    /\ UNCHANGED <<now, row, worker, req, history, counters>>

Recreate(s) ==
    /\ tenant[s].status \in {"suspended", "deleted"}
    /\ Recreated(s)
    /\ UNCHANGED <<now, row, worker, req, promised, overlap, counters>>

(***************************************************************************)
(* Extensions.                                                             *)
(***************************************************************************)

\* get_active_subscription_by_user_id
Live(s) == row[s].active /\ row[s].end > now

\* Mutant: an extension starts from today, whatever is left.
BaseNow(s) == now

\* Where the extension starts.
Base(s) == IF Live(s) THEN row[s].end ELSE now

\* _get_or_create_panel_user_link_details finds the tenant, and the running row is
\* loaded if there is one.  When the core answers 404, as it may for a deleted tenant,
\* or fails, the tenant is created.
Begin(e, s, term) ==
    /\ req[e] = Idle /\ extensions < MaxExtensions
    /\ extensions' = extensions + 1
    /\ req' = [req EXCEPT ![e] =
          [pc |-> IF Live(s) THEN "commit" ELSE "select", sub |-> s,
           base |-> Base(s), term |-> term, end |-> row[s].end, active |-> row[s].active]]
    /\ \/ UNCHANGED <<tenant, started, faults>>
       \/ tenant[s].status = "deleted" /\ Recreated(s) /\ UNCHANGED faults
       \/ faults < MaxFaults /\ faults' = faults + 1 /\ Recreated(s)
    /\ UNCHANGED <<now, row, worker, promised, overlap>>

\* upsert_subscription loads the row by panel_subscription_uuid; end stays what the
\* base was reckoned from.
Select(e) ==
    /\ req[e].pc = "select"
    /\ req' = [req EXCEPT ![e] =
          [req[e] EXCEPT !.pc = "commit", !.active = row[req[e].sub].active]]
    /\ UNCHANGED <<now, row, tenant, worker, history, counters>>

\* Mutant: the flag is left as it is.
ExtendedRowDateOnly(r) == [end |-> r.base + r.term, active |-> row[r.sub].active]

\* is_active is set; it is written if the loaded row was inactive.
ExtendedRow(r) ==
    [end |-> r.base + r.term, active |-> IF r.active THEN row[r.sub].active ELSE TRUE]

\* The row is flushed and committed, and the new end reported to the user.
Extend(e) ==
    /\ req[e].pc = "commit"
    /\ LET r == req[e]
       IN  /\ row' = [row EXCEPT ![r.sub] = ExtendedRow(r)]
           /\ promised' = [promised EXCEPT ![r.sub] =
                 IF r.base + r.term > @ THEN r.base + r.term ELSE @]
           /\ overlap' = IF row[r.sub] = [end |-> r.end, active |-> r.active]
                         THEN overlap ELSE overlap \cup {r.sub}
    /\ req' = [req EXCEPT ![e] = Idle]
    /\ UNCHANGED <<now, tenant, worker, started, counters>>

\* Mutant: the transaction is left open.
FailLeftOpen(e) ==
    /\ req[e] # Idle /\ faults < MaxFaults
    /\ faults' = faults + 1
    /\ req' = [req EXCEPT ![e] = [req[e] EXCEPT !.pc = "failed"]]
    /\ UNCHANGED <<now, row, tenant, worker, history, extensions>>

\* An exception, or the end of the process: the transaction is rolled back.
Fail(e) ==
    /\ req[e] # Idle /\ faults < MaxFaults
    /\ faults' = faults + 1
    /\ req' = [req EXCEPT ![e] = Idle]
    /\ UNCHANGED <<now, row, tenant, worker, history, extensions>>

(***************************************************************************)
(* AutoSuspendExpiredSubscriptionsWorker.                                  *)
(***************************************************************************)

\* Mutant: a window, as the notification tick has one.
DueInWindow(s) ==
    row[s].active /\ row[s].end < now - Grace /\ now - row[s].end <= Grace + Notices

\* The WHERE of _tick_once.
Due(s) == row[s].active /\ row[s].end < now - Grace

SuspendBegins ==
    /\ suspender = "idle"
    /\ \E s \in Sub : Due(s)
    /\ suspender' = "busy"
    /\ batch' = [s \in Sub |-> IF Due(s) THEN [at |-> row[s].end] ELSE Nothing]
    /\ UNCHANGED <<now, row, tenant, mark, noticed, req, history, counters>>

Handled(s) == batch' = [batch EXCEPT ![s] = Nothing]

SuspendAccepted(s) ==
    /\ batch[s] # Nothing
    /\ Stop(s)
    /\ mark' = [mark EXCEPT ![s] = batch[s]]
    /\ Handled(s)
    /\ UNCHANGED <<now, row, suspender, noticed, req, promised, overlap, counters>>

\* Mutant: the row is marked though the core has refused.
SuspendRefusedMarks(s) ==
    /\ batch[s] # Nothing
    /\ \/ tenant[s].status = "deleted" /\ UNCHANGED faults
       \/ faults < MaxFaults /\ faults' = faults + 1
    /\ mark' = [mark EXCEPT ![s] = batch[s]]
    /\ Handled(s)
    /\ UNCHANGED <<now, row, tenant, suspender, noticed, req, history, extensions>>

\* The core refuses, or the call raises: the row stays for the next tick.
SuspendRefused(s) ==
    /\ batch[s] # Nothing
    /\ \/ tenant[s].status = "deleted" /\ UNCHANGED faults
       \/ faults < MaxFaults /\ faults' = faults + 1
    /\ Handled(s)
    /\ UNCHANGED <<now, row, tenant, suspender, mark, noticed, req, history, extensions>>

\* One commit for the batch: is_active = FALSE where the core has accepted,
\* whatever has become of the row since it was loaded.
SuspendCommits ==
    /\ suspender = "busy" /\ batch = [s \in Sub |-> Nothing]
    /\ suspender' = "idle"
    /\ row' = [s \in Sub |->
          IF mark[s] = Nothing THEN row[s] ELSE [row[s] EXCEPT !.active = FALSE]]
    /\ overlap' = overlap \cup
          {s \in Sub : mark[s] # Nothing /\ row[s] # [end |-> mark[s].at, active |-> TRUE]}
    /\ mark' = [s \in Sub |-> Nothing]
    /\ UNCHANGED <<now, tenant, batch, noticed, req, promised, started, counters>>

(***************************************************************************)
(* SubscriptionNotificationWorker, the part that stops tenants.            *)
(***************************************************************************)

\* Stages "expired" and "expired_24h_after"; is_active is not looked at.
JustExpired(s) == row[s].end <= now /\ now - row[s].end <= Notices

NoticeBegins ==
    /\ noticed = {}
    /\ \E s \in Sub : JustExpired(s)
    /\ noticed' = {s \in Sub : JustExpired(s)}
    /\ UNCHANGED <<now, row, tenant, suspender, batch, mark, req, history, counters>>

\* _suspend_hermes_tenant; its failure is logged.
NoticeSuspends(s) ==
    /\ s \in noticed
    /\ noticed' = noticed \ {s}
    /\ \/ Stop(s) /\ UNCHANGED faults
       \/ tenant[s].status = "deleted" /\ UNCHANGED <<tenant, started, faults>>
       \/ faults < MaxFaults /\ faults' = faults + 1 /\ UNCHANGED <<tenant, started>>
    /\ UNCHANGED <<now, row, suspender, batch, mark, req, promised, overlap, extensions>>

\* The worker process dies; what a batch had not committed is lost.
WorkerCrash ==
    /\ faults < MaxFaults
    /\ faults' = faults + 1
    /\ suspender' = "idle" /\ noticed' = {}
    /\ batch' = [s \in Sub |-> Nothing] /\ mark' = [s \in Sub |-> Nothing]
    /\ UNCHANGED <<now, row, tenant, req, history, extensions>>

Next ==
    \/ Pass
    \/ \E s \in Sub :
          \/ Sweep(s) \/ Start(s) \/ Suspend(s) \/ Pause(s) \/ Delete(s) \/ Recreate(s)
          \/ SuspendAccepted(s) \/ SuspendRefused(s)
          \/ NoticeSuspends(s)
    \/ \E e \in Extender :
          \/ \E s \in Sub, t \in Term : Begin(e, s, t)
          \/ Select(e) \/ Extend(e) \/ Fail(e)
    \/ SuspendBegins \/ SuspendCommits
    \/ NoticeBegins
    \/ WorkerCrash

Spec == Init /\ [][Next]_vars

\* The worker's loops go on, and a call the core can accept is accepted when
\* MaxFaults calls have failed.
Fairness ==
    /\ WF_vars(SuspendBegins)
    /\ \A s \in Sub : WF_vars(SuspendAccepted(s) \/ SuspendRefused(s))
    /\ WF_vars(SuspendCommits)

LiveSpec == Spec /\ Fairness

(***************************************************************************)
(* Properties.                                                             *)
(***************************************************************************)

\* Days a user was told of are not taken back, whoever extends the term at the
\* same time, unless one transaction committed over a row it had not seen.
NoDaysLost == \A s \in Sub : s \in overlap \/ row[s].end >= promised[s]

\* A term that still runs is active: the worker's flag never reaches a renewed
\* row, except from a batch that was under way when the renewal was committed.
RunningTermIsActive == \A s \in Sub : s \in overlap \/ row[s].active \/ row[s].end <= now

\* Behind a row marked inactive no container runs, unless it was started by hand
\* after it had been stopped: the local mirror does not get ahead of the core.
InactiveIsStopped == \A s \in Sub : row[s].active \/ ~Running(s) \/ s \in started

\* An expired subscription does not keep its container: it is stopped, unless the
\* term is extended or the owner starts it again.
ExpiredStops ==
    \A s \in Sub :
       Due(s) /\ Running(s) ~> ~Running(s) \/ s \in started \/ row[s].end >= now - Grace
================================================================================
