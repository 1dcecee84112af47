-------------------------- MODULE SubscriptionNotices --------------------------
(***************************************************************************)
(* What a user is told about the end of a term: the stage notices of       *)
(* SubscriptionNotificationWorker, remembered in                           *)
(* subscription_notifications under (subscription, stage, channel), and    *)
(* the two warnings of deletion_warning_notifications_worker, remembered   *)
(* in two columns of the row.  A renewal reuses the row and must forget   *)
(* both, or the next period passes in silence.                             *)
(*                                                                         *)
(* Each worker's tick is one transaction around many sends.  The notifier  *)
(* touches the row with every record it makes and so holds its lock until  *)
(* the tick commits; whoever updates the row waits.  A message that is     *)
(* sent cannot be rolled back, its record can.                             *)
(*                                                                         *)
(* period counts the times the row was upserted, paid its payments.  They  *)
(* are no columns: they tell here what a record or a mark was made for.    *)
(***************************************************************************)
EXTENDS Integers, FiniteSets

CONSTANTS
    Sub,            \* rows of subscriptions
    Channel,        \* telegram, email
    Extender,       \* transactions that extend a term
    Payment,        \* those of them that carry out a payment
    Term,           \* lengths that are sold or given
    DaysBefore,     \* SUBSCRIPTION_NOTIFY_DAYS_BEFORE
    Window,         \* EXPIRED_NOTIFICATION_WINDOW; the second one is twice as long
    Countdown,      \* AUTO_DELETE_AFTER_SUSPENSION_DAYS
    FirstWarning,   \* DELETION_WARNING_HOURS_BEFORE
    LastWarning,    \* DELETION_CRITICAL_WARNING_HOURS_BEFORE
    MaxTime,        \* bound on the clock
    MaxExtensions,  \* bound on extensions
    MaxFaults       \* bound on refused messages, failed ticks and failed requests

ASSUME TermAssumption == Term # {} /\ Term \subseteq Nat \ {0}

ASSUME PaymentAssumption == Payment \subseteq Extender

ASSUME TimeAssumption ==
    /\ DaysBefore \in Nat /\ Window \in Nat /\ Countdown \in Nat
    /\ FirstWarning \in Nat /\ LastWarning \in Nat
    /\ MaxTime \in Nat /\ MaxExtensions \in Nat /\ MaxFaults \in Nat

VARIABLES
    now,
    row,        \* subscriptions: [end, active, period, paid], committed
    log,        \* subscription_notifications, committed
    marks,      \* deletion_warned_at and deletion_critical_warned_at, committed
    since,      \* when the tenant was suspended, or -1
    notifier,   \* "idle", or "busy" with a tick
    due,        \* notices the tick has still to look at
    sent,       \* notices that have been sent and not recorded
    fresh,      \* records of the open transaction
    warner,     \* "idle", or "busy" with a tick
    looked,     \* inactive rows the tick has still to look at, as it loaded them
    warned,     \* marks the tick will commit
    req,        \* the extenders' transactions
    told,       \* notices sent since the row was upserted, their record not rolled back
    overlap,    \* rows renewed between a tick's load and its record
    extensions, faults

notices == <<notifier, due, sent, fresh>>
warnings == <<warner, looked, warned>>
vars == <<now, row, log, marks, since, notices, warnings, req, told, overlap, extensions, faults>>

\* before_<n>d is n, "expired" 0, "expired_24h_after" -1.
Stage == -1..DaysBefore

Level == {"warning", "critical"}

Notice == [sub : Sub, end : Nat, stage : Stage, channel : Channel, period : Nat]

Record == [sub : Sub, stage : Stage, channel : Channel, period : Nat]

Mark == [sub : Sub, level : Level, paid : Nat]

Idle == [pc |-> "idle"]

\* active: the transaction has loaded the row as active.
Request == {Idle} \cup [pc : {"open"}, sub : Sub, end : Nat, live : BOOLEAN, active : BOOLEAN]

TypeOK ==
    /\ now \in Nat
    /\ row \in [Sub -> [end : Nat, active : BOOLEAN, period : Nat, paid : Nat]]
    /\ log \subseteq Record /\ marks \subseteq Mark
    /\ since \in [Sub -> Nat \cup {-1}]
    /\ notifier \in {"idle", "busy"} /\ warner \in {"idle", "busy"}
    /\ due \subseteq Notice /\ sent \subseteq Notice /\ fresh \subseteq Record
    /\ looked \subseteq [sub : Sub, done : SUBSET Level, paid : Nat]
    /\ warned \subseteq Mark
    /\ req \in [Extender -> Request]
    /\ told \subseteq Notice
    /\ overlap \subseteq Sub
    /\ extensions \in Nat /\ faults \in Nat

Init ==
    /\ now = 0
    /\ \E t \in Term : row = [s \in Sub |-> [end |-> t, active |-> TRUE, period |-> 0, paid |-> 0]]
    /\ log = {} /\ marks = {}
    /\ since = [s \in Sub |-> -1]
    /\ notifier = "idle" /\ due = {} /\ sent = {} /\ fresh = {}
    /\ warner = "idle" /\ looked = {} /\ warned = {}
    /\ req = [e \in Extender |-> Idle]
    /\ told = {} /\ overlap = {}
    /\ extensions = 0 /\ faults = 0

Fault == faults < MaxFaults /\ faults' = faults + 1

Pass ==
    /\ now < MaxTime
    /\ now' = now + 1
    /\ UNCHANGED <<row, log, marks, since, notices, warnings, req, told, overlap, extensions, faults>>

\* Mutant: a record leaves last_notification_sent alone.
LockedNever == {}

\* Rows that the notifier's transaction has updated.
Locked == {r.sub : r \in fresh}

(***************************************************************************)
(* The rest of the system: AutoSuspendExpiredSubscriptionsWorker, the      *)
(* owner's Start button, extensions.                                       *)
(***************************************************************************)

Suspend(s) ==
    /\ row[s].active /\ row[s].end < now /\ s \notin Locked
    /\ row' = [row EXCEPT ![s].active = FALSE]
    /\ since' = [since EXCEPT ![s] = now]
    /\ UNCHANGED <<now, log, marks, notices, warnings, req, told, overlap, extensions, faults>>

Start(s) ==
    /\ since[s] # -1
    /\ since' = [since EXCEPT ![s] = -1]
    /\ UNCHANGED <<now, row, log, marks, notices, warnings, req, told, overlap, extensions, faults>>

\* The running term is loaded, if there is one, and the new end reckoned from it; a lapsed
\* row is loaded later.
Begin(e, s, term) ==
    /\ req[e] = Idle /\ extensions < MaxExtensions
    /\ extensions' = extensions + 1
    /\ LET live == row[s].active /\ row[s].end > now
           base == IF live THEN row[s].end ELSE now
       IN  req' = [req EXCEPT ![e] =
              [pc |-> "open", sub |-> s, end |-> base + term, live |-> live, active |-> live]]
    /\ UNCHANGED <<now, row, log, marks, since, notices, warnings, told, overlap, faults>>

\* upsert_subscription loads a lapsed row that is not suspended yet; of any other the
\* load is one with the flush below.
Select(e) ==
    /\ req[e] # Idle /\ ~req[e].active
    /\ row[req[e].sub].active
    /\ req' = [req EXCEPT ![e].active = TRUE]
    /\ UNCHANGED <<now, row, log, marks, since, notices, warnings, told, overlap, extensions, faults>>

\* is_active is written when it was loaded as false.
Extended(e, period, paid) ==
    LET s == req[e].sub
    IN  /\ s \notin Locked
        /\ row' = [row EXCEPT ![s] =
              [end |-> req[e].end, active |-> req[e].active => row[s].active,
               period |-> period, paid |-> paid]]
        /\ req' = [req EXCEPT ![e] = Idle]

\* clear_subscription_notification_dedup
Cleared(s) == {r \in log : r.sub # s}

\* activate_subscription: the row is flushed, its records deleted, its markers reset,
\* and all of it committed.  upsert_subscription deletes when the end differs from
\* the one its session had loaded, and a sold term is never empty; two ends reckoned
\* from the clock are taken to differ.
Renew(e) ==
    /\ req[e] # Idle /\ e \in Payment
    /\ LET s == req[e].sub
       IN  /\ Extended(e, row[s].period + 1, row[s].paid + 1)
           /\ log' = Cleared(s)
           /\ marks' = {m \in marks : m.sub # s}
           /\ told' = {n \in told : n.sub # s}
    /\ UNCHANGED <<now, since, notices, warnings, overlap, extensions, faults>>

\* extend_active_subscription_days: a running term is only moved; a lapsed row is
\* upserted, and its markers stay.
GiveDays(e) ==
    /\ req[e] # Idle /\ e \notin Payment
    /\ LET s == req[e].sub
       IN  \/ /\ req[e].live
              /\ Extended(e, row[s].period, row[s].paid)
              /\ UNCHANGED <<log, told>>
           \/ /\ ~req[e].live
              /\ Extended(e, row[s].period + 1, row[s].paid)
              /\ log' = Cleared(s)
              /\ told' = {n \in told : n.sub # s}
    /\ UNCHANGED <<now, marks, since, notices, warnings, overlap, extensions, faults>>

Fail(e) ==
    /\ req[e] # Idle /\ Fault
    /\ req' = [req EXCEPT ![e] = Idle]
    /\ UNCHANGED <<now, row, log, marks, since, notices, warnings, told, overlap, extensions>>

(***************************************************************************)
(* SubscriptionNotificationWorker.  A Redis lock and an advisory lock keep *)
(* ticks apart.                                                            *)
(***************************************************************************)

\* stage_for_subscription, for a row whose end is left days away; empty when it is
\* no time for a notice.
StageAt(left) ==
    IF left > 0 THEN {d \in 1..DaysBefore : d = left}
    ELSE IF left >= -Window THEN {0}
    ELSE IF left >= -2 * Window THEN {-1} ELSE {}

TickBegins ==
    /\ notifier = "idle"
    /\ due' = {n \in [sub : Sub, end : {row[s].end : s \in Sub}, stage : Stage,
                      channel : Channel, period : {row[s].period : s \in Sub}] :
                  /\ n.end = row[n.sub].end /\ n.period = row[n.sub].period
                  /\ n.stage \in StageAt(n.end - now)}
    /\ due' # {}
    /\ notifier' = "busy"
    /\ UNCHANGED <<now, row, log, marks, since, sent, fresh, warnings, req, told, overlap,
                   extensions, faults>>

\* Mutant: the record keeps the date.
RecordOfNotice(n) == n

\* The row of a notice that was sent.
RecordOf(n) == [sub |-> n.sub, stage |-> n.stage, channel |-> n.channel, period |-> n.period]

\* Mutant: the keys of the channels are mixed up.
KnownOtherChannel(n) ==
    \E r \in log \cup fresh : r.sub = n.sub /\ r.stage = n.stage /\ r.channel # n.channel

\* _already_sent: the transaction sees what is committed and what it wrote itself.
Known(n) ==
    \E r \in log \cup fresh :
       r.sub = n.sub /\ r.stage = n.stage /\ r.channel = n.channel

\* The notice is known already, or the channel refuses it.
Skip(n) ==
    /\ n \in due /\ sent = {}
    /\ due' = due \ {n}
    /\ \/ Known(n) /\ UNCHANGED faults
       \/ ~Known(n) /\ Fault
    /\ UNCHANGED <<now, row, log, marks, since, notifier, sent, fresh, warnings, req, told,
                   overlap, extensions>>

Send(n) ==
    /\ n \in due /\ sent = {} /\ ~Known(n)
    /\ due' = due \ {n}
    /\ sent' = {n}
    /\ told' = told \cup {n}
    /\ UNCHANGED <<now, row, log, marks, since, notifier, fresh, warnings, req, overlap,
                   extensions, faults>>

\* record_subscription_notification inserts the record and updates
\* last_notification_sent: the row is locked from here on.
Write(n) ==
    /\ n \in sent
    /\ sent' = {}
    /\ fresh' = fresh \cup {RecordOf(n)}
    /\ overlap' = IF n.period = row[n.sub].period THEN overlap ELSE overlap \cup {n.sub}
    /\ UNCHANGED <<now, row, log, marks, since, notifier, due, warnings, req, told,
                   extensions, faults>>

TickCommits ==
    /\ notifier = "busy" /\ due = {} /\ sent = {}
    /\ notifier' = "idle"
    /\ log' = log \cup fresh
    /\ fresh' = {}
    /\ UNCHANGED <<now, row, marks, since, due, sent, warnings, req, told, overlap,
                   extensions, faults>>

\* An exception or the end of the process: what was sent in the tick is forgotten.
TickFails ==
    /\ notifier = "busy" /\ Fault
    /\ notifier' = "idle" /\ due' = {} /\ sent' = {} /\ fresh' = {}
    /\ told' = {n \in told : n \notin sent /\ RecordOf(n) \notin fresh}
    /\ UNCHANGED <<now, row, log, marks, since, warnings, req, overlap, extensions>>

(***************************************************************************)
(* deletion_warning_notifications_worker.                                  *)
(***************************************************************************)

WarnerBegins ==
    /\ warner = "idle"
    /\ \E s \in Sub : ~row[s].active
    /\ warner' = "busy"
    /\ looked' = {[sub |-> s, done |-> {m.level : m \in {x \in marks : x.sub = s}},
                   paid |-> row[s].paid] : s \in {x \in Sub : ~row[x].active}}
    /\ UNCHANGED <<now, row, log, marks, since, notices, warned, req, told, overlap,
                   extensions, faults>>

\* The warning that is due for a suspended tenant, if one is.
LevelAt(left) ==
    IF left <= 0 THEN {}
    ELSE IF left <= LastWarning THEN {"critical"}
    ELSE IF left <= FirstWarning THEN {"warning"} ELSE {}

\* The state is asked for and the message sent; a message that is refused, or a
\* state that is not answered, leaves the mark as it is.
Warn(l) ==
    /\ l \in looked
    /\ looked' = looked \ {l}
    /\ LET level == IF since[l.sub] = -1 THEN {}
                    ELSE LevelAt(since[l.sub] + Countdown - now) \ l.done
       IN  \/ /\ warned' = warned \cup [sub : {l.sub}, level : level, paid : {l.paid}]
              /\ UNCHANGED faults
           \/ level # {} /\ Fault /\ UNCHANGED warned
    /\ UNCHANGED <<now, row, log, marks, since, notices, warner, req, told, overlap, extensions>>

WarnerCommits ==
    /\ warner = "busy" /\ looked = {}
    /\ \A m \in warned : m.sub \notin Locked
    /\ warner' = "idle"
    /\ marks' = {m \in marks : ~\E w \in warned : w.sub = m.sub /\ w.level = m.level} \cup warned
    /\ overlap' = overlap \cup {m.sub : m \in {w \in warned : w.paid # row[w.sub].paid}}
    /\ warned' = {}
    /\ UNCHANGED <<now, row, log, since, notices, looked, req, told, extensions, faults>>

WarnerFails ==
    /\ warner = "busy" /\ Fault
    /\ warner' = "idle" /\ looked' = {} /\ warned' = {}
    /\ UNCHANGED <<now, row, log, marks, since, notices, req, told, overlap, extensions>>

Next ==
    \/ Pass
    \/ \E s \in Sub : Suspend(s) \/ Start(s)
    \/ \E e \in Extender :
          \/ \E s \in Sub, t \in Term : Begin(e, s, t)
          \/ Select(e) \/ Renew(e) \/ GiveDays(e) \/ Fail(e)
    \/ TickBegins
    \/ \E n \in due : Skip(n) \/ Send(n)
    \/ \E n \in sent : Write(n)
    \/ TickCommits \/ TickFails
    \/ WarnerBegins
    \/ \E l \in looked : Warn(l)
    \/ WarnerCommits \/ WarnerFails

Spec == Init /\ [][Next]_vars

(***************************************************************************)
(* Properties.                                                             *)
(***************************************************************************)

\* A new period begins without records of an earlier one, which would swallow its
\* notices, and a paid one also without marks, which would let its container be
\* deleted unannounced; only a tick that had loaded the row before the renewal and
\* wrote after it can leave one.
PeriodStartsClean ==
    /\ \A r \in log : r.sub \in overlap \/ r.period = row[r.sub].period
    /\ \A m \in marks : m.sub \in overlap \/ m.paid = row[m.sub].paid

\* A notice is repeated only when the tick that sent it was rolled back, or when the
\* renewal whose tick it no longer concerns has just deleted its record: otherwise
\* every stage of one end reaches a channel once.
NoticeOnce ==
    [][\A n \in due : Send(n) => n \notin told \/ n.period # row[n.sub].period]_vars

================================================================================
