---------------------------- MODULE CornllmCredits ----------------------------
(***************************************************************************)
(* The monthly CornLLM credit of a subscription.  provisioning-core keeps  *)
(* one sub_balance for a tenant, and every grant overrides it: a payment   *)
(* and a switch of tariff grant the credit of the tariff they bring and    *)
(* write the date of the next grant into the row, the worker makes the     *)
(* grants that are due and moves the dates.                                *)
(*                                                                         *)
(* A grant is a call to another service.  It is not undone when the        *)
(* transaction around it is rolled back, it may land between the grant     *)
(* and the commit of another transaction, and the worker makes a batch of  *)
(* them, from rows it loaded before the first, under one commit.  From its *)
(* first UPDATE to its commit a transaction holds the row's lock; it loads *)
(* the row before, without one, and writes the columns that differ from    *)
(* what it loaded.                                                         *)
(***************************************************************************)
EXTENDS Integers, FiniteSets

CONSTANTS
    Sub,            \* rows of subscriptions
    Client,         \* transactions of payments, of switches and of given days
    Tariff,         \* tariffs billed by the period
    NoTariff,       \* tariff_key IS NULL: a trial, bonus days
    Credit,         \* included_cornllm_balance_rub in dollars
    TrialCredit,    \* TRIAL_CORNLLM_CREDIT_USD
    Months,         \* numbers of months on sale
    Month,          \* MONTH_DAYS, and a sold month
    MaxTime,        \* bound on the clock
    MaxChanges,     \* bound on payments, switches and gifts
    MaxFaults       \* bound on refused calls, rollbacks and crashes

ASSUME CreditAssumption ==
    /\ NoTariff \notin Tariff
    /\ Credit \in [Tariff -> Nat] /\ TrialCredit \in Nat

ASSUME TimeAssumption ==
    /\ Months \subseteq Nat \ {0} /\ Month \in Nat \ {0}
    /\ MaxTime \in Nat /\ MaxChanges \in Nat /\ MaxFaults \in Nat

VARIABLES
    now,
    row,        \* subscriptions, committed
    granted,    \* sub_balance_usd as last granted, by tenant
    grantedAt,  \* when that was
    req,        \* the clients' transactions
    worker,     \* "idle", or "busy" with a batch
    batch,      \* rows the batch has still to grant, as it loaded them
    bumps,      \* rows whose next date it will commit, likewise
    fired,      \* dates the worker has granted for and not forgotten, by row
    torn,       \* rows whose tariff and schedule are of two transactions
    crossed,    \* rows whose schedule was written while an open batch had it in hand
    broken,     \* rows whose grant failed, was rolled back or overridden
    moved,      \* rows whose term was extended while it ran
    changes, faults

history == <<fired, torn, crossed, broken, moved>>
counters == <<changes, faults>>
vars == <<now, row, granted, grantedAt, req, worker, batch, bumps, history, counters>>

\* NULL
Never == -1

Date == Nat \cup {Never}

Row == [end : Nat, active : BOOLEAN, tariff : Tariff \cup {NoTariff}, at : Date, amount : Date]

Idle == [pc |-> "idle"]

\* What a transaction has loaded of the row (was) and what it will write: end is Never
\* where end_date is left alone.
Change(pcs, kinds, tariffs) ==
    [pc : pcs, kind : kinds, sub : Sub,
     was : [active : BOOLEAN, tariff : Tariff \cup {NoTariff}],
     tariff : tariffs, end : Date, at : Date, early : BOOLEAN]

Charge == Change({"select", "open", "flushed", "granted", "refused"}, {"payment", "switch"}, Tariff)

Gift == Change({"select", "open"}, {"gift"}, Tariff \cup {NoTariff})

Request == {Idle} \cup Charge \cup Gift

Bump == [sub : Sub, at : Nat, amount : Nat, end : Nat]

TypeOK ==
    /\ now \in Nat
    /\ row \in [Sub -> Row]
    /\ granted \in [Sub -> Nat] /\ grantedAt \in [Sub -> Nat]
    /\ req \in [Client -> Request]
    /\ worker \in {"idle", "busy"}
    /\ batch \subseteq Bump /\ bumps \subseteq Bump
    /\ fired \in [Sub -> SUBSET Nat]
    /\ torn \subseteq Sub /\ crossed \subseteq Sub
    /\ broken \subseteq Sub /\ moved \subseteq Sub
    /\ changes \in Nat /\ faults \in Nat

\* Trials: one grant, after the commit, and no schedule.
Init ==
    /\ now = 0
    /\ row = [s \in Sub |-> [end |-> 1, active |-> TRUE, tariff |-> NoTariff,
                             at |-> Never, amount |-> Never]]
    /\ granted = [s \in Sub |-> TrialCredit] /\ grantedAt = [s \in Sub |-> 0]
    /\ req = [c \in Client |-> Idle]
    /\ worker = "idle" /\ batch = {} /\ bumps = {}
    /\ fired = [s \in Sub |-> {}]
    /\ torn = {} /\ crossed = {} /\ broken = {} /\ moved = {}
    /\ changes = 0 /\ faults = 0

Fault == faults < MaxFaults /\ faults' = faults + 1

Live(s) == row[s].active /\ row[s].end > now

\* Mutant: the flush does not take the lock.
HoldsGranted(c, s) == req[c].pc \in {"granted", "refused"} /\ req[c].sub = s

\* Transactions that have updated the row.
Holds(c, s) == req[c].pc \in {"flushed", "granted", "refused"} /\ req[c].sub = s

Unlocked(s) == \A c \in Client : ~Holds(c, s)

\* Rows in the hands of an open batch.
Held == {b.sub : b \in batch \cup bumps}

Pass ==
    /\ now < MaxTime
    /\ now' = now + 1
    /\ UNCHANGED <<row, granted, grantedAt, req, worker, batch, bumps, history, counters>>

\* AutoSuspendExpiredSubscriptionsWorker clears is_active.
Lapse(s) ==
    /\ row[s].active /\ row[s].end < now /\ Unlocked(s)
    /\ row' = [row EXCEPT ![s].active = FALSE]
    /\ UNCHANGED <<now, granted, grantedAt, req, worker, batch, bumps, history, counters>>

(***************************************************************************)
(* Payments, switches and given days.                                      *)
(***************************************************************************)

Loaded(s) == [active |-> row[s].active, tariff |-> row[s].tariff]

\* tariff_key is not written: it does not differ from what was loaded, or, a running row
\* being refreshed when it has been given days, no tariff was chosen.
TariffStays(r) ==
    IF r.kind = "gift" /\ r.early THEN r.tariff = NoTariff ELSE r.tariff = r.was.tariff

\* The row after the flush.  The dates of a new term always differ from what was loaded.
Flushed(r) ==
    [row[r.sub] EXCEPT !.end = IF r.end = Never THEN @ ELSE r.end,
                       !.active = IF r.was.active THEN @ ELSE TRUE,
                       !.tariff = IF TariffStays(r) THEN @ ELSE r.tariff]

\* Mutant: months are scheduled for every tariff.
NextAtOfAny(start, months, tariff) == IF months > 1 THEN start + Month ELSE Never

\* A schedule of further months.
NextAt(start, months, tariff) ==
    IF months > 1 /\ Credit[tariff] > 0 THEN start + Month ELSE Never

\* A running row is loaded at the beginning, a lapsed one just before the flush.
Loading(s) == IF Live(s) THEN "open" ELSE "select"

\* activate_subscription: a term that still runs is extended from its end.
BeginPayment(c, s, tariff, months) ==
    /\ req[c] = Idle /\ changes < MaxChanges
    /\ changes' = changes + 1
    /\ LET start == IF Live(s) THEN row[s].end ELSE now
       IN  req' = [req EXCEPT ![c] =
              [pc |-> Loading(s), kind |-> "payment", sub |-> s, was |-> Loaded(s),
               tariff |-> tariff, end |-> start + months * Month,
               at |-> NextAt(start, months, tariff), early |-> Live(s)]]
    /\ UNCHANGED <<now, row, granted, grantedAt, worker, batch, bumps, history, faults>>

\* switch_tariff_without_payment: never to a tariff with less credit; the end stays,
\* or days are recalculated, to none or to more than there were.
BeginSwitch(c, s, tariff, end) ==
    /\ req[c] = Idle /\ changes < MaxChanges
    /\ Live(s) /\ row[s].tariff \in Tariff \ {tariff}
    /\ Credit[tariff] >= Credit[row[s].tariff]
    /\ changes' = changes + 1
    /\ req' = [req EXCEPT ![c] =
          [pc |-> "open", kind |-> "switch", sub |-> s, was |-> Loaded(s), tariff |-> tariff,
           end |-> end, at |-> Never, early |-> FALSE]]
    /\ UNCHANGED <<now, row, granted, grantedAt, worker, batch, bumps, history, faults>>

\* extend_active_subscription_days: an administrator's days bring a chosen tariff, and a
\* lapsed row comes back with that, the default one, or none.
BeginGift(c, s, tariff) ==
    /\ req[c] = Idle /\ changes < MaxChanges
    /\ changes' = changes + 1
    /\ req' = [req EXCEPT ![c] =
          [pc |-> Loading(s), kind |-> "gift", sub |-> s, was |-> Loaded(s),
           tariff |-> tariff, end |-> 1 + (IF Live(s) THEN row[s].end ELSE now),
           at |-> Never, early |-> Live(s)]]
    /\ UNCHANGED <<now, row, granted, grantedAt, worker, batch, bumps, history, faults>>

\* upsert_subscription loads the lapsed row.
Select(c) ==
    /\ req[c].pc = "select"
    /\ req' = [req EXCEPT ![c] = [req[c] EXCEPT !.pc = "open", !.was = Loaded(req[c].sub)]]
    /\ UNCHANGED <<now, row, granted, grantedAt, worker, batch, bumps, history, counters>>

\* Given days are written and committed; nothing is granted, and the schedule is left
\* as it is.
GiveDays(c) ==
    /\ req[c].pc = "open" /\ req[c].kind = "gift" /\ Unlocked(req[c].sub)
    /\ LET s == req[c].sub
           new == Flushed(req[c])
       IN  /\ row' = [row EXCEPT ![s] = new]
           /\ torn' = IF new.tariff \in {row[s].tariff, NoTariff} THEN torn ELSE torn \cup {s}
           /\ moved' = moved \cup {s}
    /\ req' = [req EXCEPT ![c] = Idle]
    /\ UNCHANGED <<now, granted, grantedAt, worker, batch, bumps, fired, crossed, broken, counters>>

\* upsert_subscription, update_subscription
Flush(c) ==
    /\ req[c].pc = "open" /\ req[c].kind # "gift" /\ Unlocked(req[c].sub)
    /\ req' = [req EXCEPT ![c].pc = "flushed"]
    /\ UNCHANGED <<now, row, granted, grantedAt, worker, batch, bumps, history, counters>>

\* The dates of a switch are reckoned after the call.
Called(c, pc) ==
    req' = [req EXCEPT ![c] =
        [req[c] EXCEPT !.pc = pc,
                       !.at = IF req[c].kind = "payment" THEN req[c].at
                              ELSE IF Credit[req[c].tariff] > 0 THEN now + Month ELSE Never]]

\* Somebody's grant is not committed yet.
Between(s) == \E c \in Client : req[c].pc = "granted" /\ req[c].sub = s

\* Mutant: only a tariff with a credit is granted.
GrantPositive(c) ==
    /\ req[c].pc = "flushed"
    /\ IF Credit[req[c].tariff] > 0
       THEN /\ granted' = [granted EXCEPT ![req[c].sub] = Credit[req[c].tariff]]
            /\ grantedAt' = [grantedAt EXCEPT ![req[c].sub] = now]
       ELSE UNCHANGED <<granted, grantedAt>>
    /\ broken' = broken \ {req[c].sub}
    /\ Called(c, "granted")
    /\ UNCHANGED <<now, row, worker, batch, bumps, fired, torn, crossed, moved, counters>>

\* grant_subscription_quota, also of nothing.
Grant(c) ==
    /\ req[c].pc = "flushed"
    /\ granted' = [granted EXCEPT ![req[c].sub] = Credit[req[c].tariff]]
    /\ grantedAt' = [grantedAt EXCEPT ![req[c].sub] = now]
    /\ broken' = broken \ {req[c].sub}
    /\ Called(c, "granted")
    /\ UNCHANGED <<now, row, worker, batch, bumps, fired, torn, crossed, moved, counters>>

\* The core answers an error, which is logged; the payment or the switch goes on.
GrantRefused(c) ==
    /\ req[c].pc = "flushed" /\ Fault
    /\ Called(c, "refused")
    /\ UNCHANGED <<now, row, granted, grantedAt, worker, batch, bumps, history, changes>>

\* The schedule is written into the refreshed row, for the tariff that was paid for.
Commit(c) ==
    /\ req[c].pc \in {"granted", "refused"}
    /\ LET r == req[c]
           s == r.sub
           new == Flushed(r)
       IN  /\ row' = [row EXCEPT ![s] =
                 [new EXCEPT !.at = r.at,
                             !.amount = IF r.at = Never THEN Never ELSE Credit[r.tariff]]]
           /\ torn' = IF new.tariff = r.tariff THEN torn \ {s} ELSE torn \cup {s}
           /\ crossed' = IF s \in Held THEN crossed \cup {s} ELSE crossed \ {s}
           /\ broken' = IF r.pc = "refused" THEN broken \cup {s} ELSE broken
           /\ moved' = IF r.early THEN moved \cup {s} ELSE moved \ {s}
           /\ fired' = [fired EXCEPT ![s] = {}]
    /\ req' = [req EXCEPT ![c] = Idle]
    /\ UNCHANGED <<now, granted, grantedAt, worker, batch, bumps, counters>>

\* Mutant: the transaction ends with its row in hand.
FailKeepsRow(c) ==
    /\ req[c] # Idle /\ Fault
    /\ req' = [req EXCEPT ![c].pc = "idle"]
    /\ UNCHANGED <<now, row, granted, grantedAt, worker, batch, bumps, history, changes>>

\* An exception, or the end of the process.
Fail(c) ==
    /\ req[c] # Idle /\ Fault
    /\ broken' = IF req[c].pc = "granted" THEN broken \cup {req[c].sub} ELSE broken
    /\ req' = [req EXCEPT ![c] = Idle]
    /\ UNCHANGED <<now, row, granted, grantedAt, worker, batch, bumps, fired, torn, crossed, moved, changes>>

(***************************************************************************)
(* cornllm_monthly_grant_worker                                            *)
(***************************************************************************)

\* The WHERE of _tick_once.
Due(s) ==
    /\ row[s].active
    /\ row[s].at # Never /\ row[s].at <= now
    /\ row[s].amount # Never

TickBegins ==
    /\ worker = "idle"
    /\ \E s \in Sub : Due(s)
    /\ worker' = "busy"
    /\ batch' = {[sub |-> s, at |-> row[s].at, amount |-> row[s].amount, end |-> row[s].end] :
                    s \in {x \in Sub : Due(x)}}
    /\ UNCHANGED <<now, row, granted, grantedAt, req, bumps, history, counters>>

MonthlyGrant(b) ==
    /\ b \in batch
    /\ batch' = batch \ {b}
    /\ granted' = [granted EXCEPT ![b.sub] = b.amount]
    /\ grantedAt' = [grantedAt EXCEPT ![b.sub] = now]
    /\ bumps' = bumps \cup {b}
    /\ fired' = [fired EXCEPT ![b.sub] = @ \cup {b.at}]
    /\ broken' = IF Between(b.sub) THEN broken \cup {b.sub} ELSE broken \ {b.sub}
    /\ UNCHANGED <<now, row, req, worker, torn, crossed, moved, counters>>

\* The core answers an error or the call raises: the date stays for the next tick.
MonthlyGrantRefused(b) ==
    /\ b \in batch /\ Fault
    /\ batch' = batch \ {b}
    /\ UNCHANGED <<now, row, granted, grantedAt, req, worker, bumps, history, changes>>

\* Mutant: the next month is counted from the grant.
BumpedFromNow(r, b) ==
    IF now + Month >= b.end THEN [r EXCEPT !.at = Never, !.amount = Never]
    ELSE [r EXCEPT !.at = now + Month + 1]

\* Mutant: the date is not moved.
BumpedNever(r, b) == r

\* The next date, or none past the end that was loaded.
Bumped(r, b) ==
    IF b.at + Month >= b.end THEN [r EXCEPT !.at = Never, !.amount = Never]
    ELSE [r EXCEPT !.at = b.at + Month]

TickCommits ==
    /\ worker = "busy" /\ batch = {}
    /\ \A b \in bumps : Unlocked(b.sub)
    /\ worker' = "idle"
    /\ row' = [s \in Sub |->
          IF \E b \in bumps : b.sub = s
          THEN Bumped(row[s], CHOOSE b \in bumps : b.sub = s) ELSE row[s]]
    /\ bumps' = {}
    /\ UNCHANGED <<now, granted, grantedAt, req, batch, history, counters>>

\* The process ends, or the commit fails: the grants stay, their dates are lost.
TickFails ==
    /\ worker = "busy" /\ Fault
    /\ worker' = "idle" /\ batch' = {} /\ bumps' = {}
    /\ fired' = [s \in Sub |-> fired[s] \ {b.at : b \in {x \in bumps : x.sub = s}}]
    /\ UNCHANGED <<now, row, granted, grantedAt, req, torn, crossed, broken, moved, changes>>

Next ==
    \/ Pass
    \/ \E s \in Sub : Lapse(s)
    \/ \E c \in Client, s \in Sub, t \in Tariff :
          \/ \E m \in Months : BeginPayment(c, s, t, m)
          \/ \E end \in {Never, now, row[s].end + 1} : BeginSwitch(c, s, t, end)
    \/ \E c \in Client, s \in Sub, t \in Tariff \cup {NoTariff} : BeginGift(c, s, t)
    \/ \E c \in Client :
          \/ Select(c) \/ GiveDays(c)
          \/ Flush(c) \/ Grant(c) \/ GrantRefused(c) \/ Commit(c) \/ Fail(c)
    \/ TickBegins
    \/ \E b \in batch : MonthlyGrant(b) \/ MonthlyGrantRefused(b)
    \/ TickCommits \/ TickFails

Spec == Init /\ [][Next]_vars

(***************************************************************************)
(* Properties.                                                             *)
(***************************************************************************)

\* The schedule is that of the tariff in the row: nothing is scheduled for a tariff
\* without a credit, and both columns are set or neither.  Two kinds of rows are not
\* covered.  A row is torn when the transaction that wrote the schedule had loaded the
\* tariff it brings, so that its flush left the one another client had committed since,
\* or when given days have brought a tariff.  It is crossed when a batch that had loaded
\* it was open while its schedule was written, and will write dates over it.  The next
\* payment or switch ends both.
ScheduleOfTariff ==
    \A s \in Sub :
       \/ s \in torn \cup crossed \/ row[s].tariff = NoTariff
       \/ row[s].at = Never /\ row[s].amount = Never
       \/ row[s].at # Never /\ row[s].amount = Credit[row[s].tariff] /\ row[s].amount > 0

\* The balance at the core is the credit of the tariff in the row, after downgrades
\* too, except in rows that are torn or crossed, and while they are broken: from a grant
\* that was refused, rolled back, or overridden by the worker's before its commit, to
\* the next one.
BalanceOfTariff ==
    \A s \in Sub :
       \/ s \in torn \cup crossed \cup broken \/ Between(s) \/ row[s].tariff = NoTariff
       \/ granted[s] = Credit[row[s].tariff]

\* The next grant repeats the last one, in torn rows too: whichever client's tariff the
\* row was left with, its schedule and its balance are of one transaction.
ScheduleRepeatsGrant ==
    \A s \in Sub :
       s \in crossed \cup broken \/ Between(s) \/ row[s].amount \in {Never, granted[s]}

\* A date the worker has granted for is not granted for again, unless the commit that
\* moved it was lost, or the row is crossed: a payment or a switch has written the
\* schedule of a row the batch had in hand.
GrantedOncePerDate ==
    [][\A b \in batch : MonthlyGrant(b) => b.at \notin fired[b.sub] \/ b.sub \in crossed]_vars

\* Between two grants of a paid term lies a month at most, to its end, for a term that
\* began when the one before it was over and was not given days, in rows that are not
\* torn, crossed or broken.
CreditEveryMonth ==
    \A s \in Sub :
       \/ s \in torn \cup crossed \cup broken \cup moved \/ Between(s)
       \/ row[s].tariff = NoTariff \/ Credit[row[s].tariff] = 0
       \/ (IF row[s].at = Never THEN row[s].end ELSE row[s].at) <= grantedAt[s] + Month
================================================================================
