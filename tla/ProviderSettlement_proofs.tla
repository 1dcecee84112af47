----------------------- MODULE ProviderSettlement_proofs -----------------------
(***************************************************************************)
(* Proofs about ProviderSettlement, for every set of payments, providers   *)
(* and requests and every value of the bounds.                             *)
(***************************************************************************)
EXTENDS ProviderSettlement, FiniteSetTheorems, TLAPS

USE DEF world, settled, database, effects

-----------------------------------------------------------------------------

\* The members of the enumerated sets the actions name.
LEMMA Names ==
    /\ \A l \in {"idle", "ask", "mark", "activate", "commit", "announce",
                 "notify", "answer", "rolledBack", "record"} : l \in Position
    /\ \A s \in {"pending", "finalizing", "succeeded", "failed", "activation_failed"} : s \in Status
    /\ \A e \in {"paid", "declined", "waiting"} : e \in Event
    /\ Hook \subseteq Task /\ Poller \subseteq Task
BY DEF Position, Status, Event, Task

LEMMA InitTypeOK == Init => TypeOK
<1> SUFFICES ASSUME Init PROVE TypeOK
  OBVIOUS
<1>1. (CHOOSE p \in Payment : TRUE) \in Payment
  BY TasksAssumption
<1> QED BY <1>1, Names DEF Init, TypeOK

\* What a session reads and writes is a status.
LEMMA NewStatusType == ASSUME TypeOK, NEW t \in Task PROVE NewStatus(t) \in Status
BY Names DEF NewStatus, TypeOK

LEMMA AfterMarkType == ASSUME NEW t \in Task PROVE AfterMark(t) \in Position
BY Names DEF AfterMark

LEMMA WriteStatusType ==
    ASSUME TypeOK, NEW t \in Task, NEW s \in Status, WriteStatus(t, s)
    PROVE  status' \in [Payment -> Status]
BY DEF WriteStatus, TypeOK

LEMMA AnswerFailureType ==
    ASSUME TypeOK, NEW t \in Task, AnswerFailure(t)
    PROVE  acked' \in [Payment -> SUBSET Event]
BY DEF AnswerFailure, TypeOK

LEMMA EndType ==
    ASSUME TypeOK, NEW t \in Task, End(t)
    PROVE  /\ pc' \in [Task -> Position] /\ event' \in [Task -> Event]
           /\ view' \in [Task -> Status]
BY Names DEF End, TypeOK

\* Every step keeps the type invariant.
LEMMA NextTypeOK == TypeOK /\ [Next]_vars => TypeOK'
<1> SUFFICES ASSUME TypeOK, [Next]_vars PROVE TypeOK'
  OBVIOUS
<1> USE Names
<1>1. ASSUME NEW p \in Payment, NEW e \in Event, Report(p, e) PROVE TypeOK'
  BY <1>1 DEF Report, TypeOK
<1>2. ASSUME NEW h \in Hook, NEW p \in Payment, NEW e \in Event, Post(h, p, e) \/ PostAgain(h, p, e)
      PROVE TypeOK'
  BY <1>2 DEF Post, PostAgain, Lookup, Goto, TypeOK
<1>4. ASSUME NEW t \in Poller, NEW p \in Payment, StartPoll(t, p) PROVE TypeOK'
  BY <1>4 DEF StartPoll, Goto, TypeOK
<1>5. ASSUME NEW t \in Poller, AskWata(t) PROVE TypeOK'
  BY <1>5, EndType DEF AskWata, TypeOK
<1>6. ASSUME NEW t \in Task, Mark(t) PROVE TypeOK'
  <2>1. status' \in [Payment -> Status]
    BY <1>6, NewStatusType, WriteStatusType DEF Mark
  <2>2. pc' \in [Task -> Position]
    BY <1>6, AfterMarkType DEF Mark, Goto, TypeOK
  <2>3. view' \in [Task -> Status]
    BY <1>6, <2>1 DEF Mark, TypeOK
  <2> QED BY <1>6, <2>1, <2>2, <2>3 DEF Mark, TypeOK
<1>7. ASSUME NEW t \in Task, Notify(t) \/ Announce(t) PROVE TypeOK'
  BY <1>7 DEF Notify, Announce, Goto, TypeOK
<1>8. ASSUME NEW t \in Task, Activate(t) PROVE TypeOK'
  BY <1>8 DEF Activate, TypeOK
<1>9. ASSUME NEW t \in Task, Commit(t) \/ CommitNothing(t) PROVE TypeOK'
  <2>1. status' \in [Payment -> Status] /\ view' \in [Task -> Status]
    BY <1>9 DEF Commit, CommitNothing, Succeed, TypeOK
  <2> QED BY <1>9, <2>1 DEF Commit, CommitNothing, Goto, TypeOK
<1>10. ASSUME NEW t \in Task, Answer(t) PROVE TypeOK'
  <2>1. acked' \in [Payment -> SUBSET Event]
    BY <1>10 DEF Answer, TypeOK
  <2> QED BY <1>10, <2>1, EndType DEF Answer, TypeOK
<1>11. ASSUME NEW t \in Task, Escape(t) PROVE TypeOK'
  <2>1. acked' \in [Payment -> SUBSET Event]
    BY <1>11, AnswerFailureType DEF Escape, TypeOK
  <2> QED BY <1>11, <2>1, EndType DEF Escape, TypeOK
<1>12. ASSUME NEW t \in Task, ReadAgain(t) PROVE TypeOK'
  BY <1>12 DEF ReadAgain, Goto, TypeOK
<1>13. ASSUME NEW t \in Task, RecordFailure(t) PROVE TypeOK'
  <2>1. acked' \in [Payment -> SUBSET Event] /\ status' \in [Payment -> Status]
    BY <1>13, AnswerFailureType, WriteStatusType DEF RecordFailure
  <2> QED BY <1>13, <2>1, EndType DEF RecordFailure, TypeOK
<1>14. ASSUME NEW t \in Task, Fail(t) PROVE TypeOK'
  <2>1. acked' \in [Payment -> SUBSET Event]
    BY <1>14, AnswerFailureType DEF Fail, TypeOK
  <2>2. /\ pc' \in [Task -> Position] /\ event' \in [Task -> Event]
        /\ view' \in [Task -> Status]
    BY <1>14, EndType DEF Fail, TypeOK
  <2> QED BY <1>14, <2>1, <2>2 DEF Fail, TypeOK
<1>15. CASE Crash
  BY <1>15 DEF Crash, TypeOK
<1>16. CASE UNCHANGED vars
  BY <1>16 DEF vars, TypeOK
<1> QED
  BY <1>1, <1>2, <1>4, <1>5, <1>6, <1>7, <1>8, <1>9, <1>10, <1>11, <1>12, <1>13, <1>14,
     <1>15, <1>16 DEF Next, Work

\* The variables keep their types (every webhook route and the finalizer).
THEOREM Typing == Spec => []TypeOK
BY InitTypeOK, NextTypeOK, PTL DEF Spec

-----------------------------------------------------------------------------

\* A step of one request leaves the locals of the others alone.
OthersKeep(t) ==
    \A u \in Task \ {t} :
        pc'[u] = pc[u] /\ pay'[u] = pay[u] /\ event'[u] = event[u] /\ view'[u] = view[u]

LEMMA WorkIsOwn == ASSUME TypeOK, NEW t \in Task, Work(t) \/ Fail(t) PROVE OthersKeep(t)
<1> USE DEF TypeOK, OthersKeep
<1>1. CASE Mark(t) \/ Notify(t) \/ Activate(t) \/ Announce(t) \/ ReadAgain(t)
  BY <1>1 DEF Mark, Notify, Activate, Announce, ReadAgain, Goto
<1>2. CASE Commit(t) \/ CommitNothing(t)
  BY <1>2 DEF Commit, CommitNothing, Succeed, Goto
<1>3. CASE Answer(t) \/ Escape(t) \/ RecordFailure(t)
  BY <1>3 DEF Answer, Escape, RecordFailure, End
<1>4. CASE Fail(t)
  BY <1>4 DEF Fail, End
<1> QED BY <1>1, <1>2, <1>3, <1>4 DEF Work

LEMMA HookIsOwn ==
    ASSUME TypeOK, NEW h \in Hook, NEW p \in Payment, NEW e \in Event,
           Post(h, p, e) \/ PostAgain(h, p, e)
    PROVE  OthersKeep(h)
BY Names DEF Post, PostAgain, Lookup, Goto, OthersKeep, TypeOK

LEMMA PollerIsOwn ==
    ASSUME TypeOK, NEW t \in Poller, NEW p \in Payment, StartPoll(t, p) \/ AskWata(t)
    PROVE  OthersKeep(t)
BY Names DEF StartPoll, AskWata, End, Goto, OthersKeep, TypeOK

\* Reports and verdicts are never taken back, and a provider never changes.
LEMMA NothingIsTakenBack ==
    ASSUME TypeOK, [Next]_vars
    PROVE  /\ provider' = provider
           /\ \A p \in Payment : "paid" \in reports[p] => "paid" \in reports'[p]
           /\ \A p \in Payment : Verdicts(p) > 0 => Verdicts(p)' > 0
<1> DEFINE Kept == /\ provider' = provider
                   /\ \A p \in Payment : "paid" \in reports[p] => "paid" \in reports'[p]
                   /\ \A p \in Payment : Verdicts(p) > 0 => Verdicts(p)' > 0
<1> USE DEF Verdicts
<1>0. ASSUME UNCHANGED <<provider, reports, activations, refusals>> PROVE Kept
  BY <1>0 DEF TypeOK
<1>1. ASSUME NEW p \in Payment, NEW e \in Event, Report(p, e) PROVE Kept
  BY <1>1 DEF Report, TypeOK
<1>2. ASSUME NEW t \in Task, Commit(t) \/ CommitNothing(t) PROVE Kept
  BY <1>2 DEF Commit, CommitNothing, TypeOK
<1>3. ASSUME NEW h \in Hook, NEW p \in Payment, NEW e \in Event, Post(h, p, e) \/ PostAgain(h, p, e)
      PROVE Kept
  BY <1>3, <1>0 DEF Post, PostAgain
<1>5. ASSUME NEW t \in Poller, AskWata(t) \/ \E p \in Payment : StartPoll(t, p) PROVE Kept
  BY <1>5, <1>0 DEF StartPoll, AskWata
<1>6. ASSUME NEW t \in Task,
             Mark(t) \/ Notify(t) \/ Activate(t) \/ Announce(t) \/ Answer(t)
               \/ Escape(t) \/ ReadAgain(t) \/ RecordFailure(t) \/ Fail(t)
      PROVE Kept
  BY <1>6, <1>0 DEF Mark, Notify, Activate, Announce, Answer, Escape, ReadAgain,
              RecordFailure, Fail
<1>7. ASSUME Crash \/ UNCHANGED vars PROVE Kept
  BY <1>7, <1>0 DEF Crash, vars
<1> HIDE DEF Kept
<1>8. ASSUME NEW t \in Task, Work(t) \/ Fail(t) PROVE Kept
  BY <1>8, <1>2, <1>6 DEF Work
<1>9. Kept
  BY <1>1, <1>3, <1>5, <1>7, <1>8 DEF Next
<1> QED BY <1>9 DEF Kept

-----------------------------------------------------------------------------

LEMMA InitPaid == Init => ActivatedWasPaid /\ RefusedWasPaid /\ CarriesReport /\ ConfirmsReport
BY DEF Init, ActivatedWasPaid, RefusedWasPaid, CarriesReport, ConfirmsReport, Finalizing

\* "paid" reaches the finalizer only from the provider's report.
LEMMA NextCarries == TypeOK /\ CarriesReport /\ ConfirmsReport /\ [Next]_vars => CarriesReport'
<1> SUFFICES ASSUME TypeOK, CarriesReport, ConfirmsReport, [Next]_vars, NEW u \in Task
             PROVE  /\ pc'[u] \notin {"idle", "ask"} /\ event'[u] = "paid" => "paid" \in reports'[pay'[u]]
                    /\ pc'[u] \in Finalizing => event'[u] = "paid"
                    /\ pc'[u] = "notify" => event'[u] = "declined"
  BY DEF CarriesReport
<1> DEFINE Carried == /\ pc'[u] \notin {"idle", "ask"} /\ event'[u] = "paid" => "paid" \in reports'[pay'[u]]
                      /\ pc'[u] \in Finalizing => event'[u] = "paid"
                      /\ pc'[u] = "notify" => event'[u] = "declined"
<1> USE Names DEF Finalizing
<1>0. ASSUME NEW t \in Task, OthersKeep(t), u # t PROVE Carried
  BY <1>0, NothingIsTakenBack DEF OthersKeep, CarriesReport, TypeOK
<1>1. ASSUME NEW p \in Payment, NEW e \in Event, Report(p, e) PROVE Carried
  BY <1>1 DEF Report, CarriesReport, TypeOK
<1>2. ASSUME NEW h \in Hook, NEW p \in Payment, NEW e \in Event, Post(h, p, e) \/ PostAgain(h, p, e)
      PROVE Carried
  <2>1. CASE u = h
    <3>1. e = "paid" => e \in reports[p]
      BY <1>2 DEF Post, PostAgain, ConfirmsReport
    <3> QED BY <2>1, <1>2, <3>1 DEF Post, PostAgain, Lookup, Goto, TypeOK
  <2> QED BY <2>1, <1>2, <1>0, HookIsOwn
<1>4. ASSUME NEW t \in Poller, NEW p \in Payment, StartPoll(t, p) \/ AskWata(t) PROVE Carried
  <2>1. CASE u = t
    BY <2>1, <1>4 DEF StartPoll, AskWata, End, Goto, CarriesReport, TypeOK
  <2> QED BY <2>1, <1>4, <1>0, PollerIsOwn
<1>5. ASSUME NEW t \in Task, Work(t) \/ Fail(t), u = t PROVE Carried
  <2>1. CASE Mark(t)
    BY <1>5, <2>1 DEF Mark, AfterMark, Goto, CarriesReport, TypeOK
  <2>2. CASE Notify(t) \/ Activate(t) \/ Announce(t) \/ ReadAgain(t)
    BY <1>5, <2>2 DEF Notify, Activate, Announce, ReadAgain, Goto, CarriesReport, TypeOK
  <2>3. CASE Commit(t) \/ CommitNothing(t)
    BY <1>5, <2>3 DEF Commit, CommitNothing, Goto, CarriesReport, TypeOK
  <2>4. CASE Answer(t) \/ Escape(t) \/ RecordFailure(t)
    BY <1>5, <2>4 DEF Answer, Escape, RecordFailure, End, TypeOK
  <2>5. CASE Fail(t)
    BY <1>5, <2>5 DEF Fail, End, CarriesReport, TypeOK
  <2> QED BY <1>5, <2>1, <2>2, <2>3, <2>4, <2>5 DEF Work
<1>6. CASE Crash
  BY <1>6 DEF Crash
<1>7. CASE UNCHANGED vars
  BY <1>7 DEF vars, CarriesReport
<1> QED BY <1>0, <1>1, <1>2, <1>4, <1>5, <1>6, <1>7, WorkIsOwn, TasksAssumption DEF Next

LEMMA NextConfirms == TypeOK /\ CarriesReport /\ ConfirmsReport /\ [Next]_vars => ConfirmsReport'
<1> SUFFICES ASSUME TypeOK, CarriesReport, ConfirmsReport, [Next]_vars,
                    NEW p \in Payment, "paid" \in acked'[p]
             PROVE  "paid" \in reports'[p]
  BY DEF ConfirmsReport
<1> USE DEF TypeOK
<1>1. ASSUME NEW t \in Task, Answer(t) PROVE "paid" \in acked[p] \/ "paid" \in reports[p]
  BY <1>1 DEF Answer, CarriesReport
<1>2. ASSUME NEW t \in Task, Escape(t) \/ RecordFailure(t) \/ Fail(t)
      PROVE "paid" \in acked[p] \/ "paid" \in reports[p]
  <2>1. CASE acked' = acked
    BY <2>1
  <2>2. CASE AnswerFailure(t) /\ pc[t] \notin {"idle", "ask"}
    BY <2>2 DEF AnswerFailure, CarriesReport
  <2> QED BY <1>2, <2>1, <2>2 DEF Escape, RecordFailure, Fail
<1>3. \/ acked' = acked
      \/ \E t \in Task : Answer(t) \/ Escape(t) \/ RecordFailure(t) \/ Fail(t)
  BY DEF Next, Work, vars, Report, Post, PostAgain, Lookup, StartPoll, AskWata, Mark, Notify, Activate,
         Commit, CommitNothing, Announce, ReadAgain, Crash
<1>4. "paid" \in acked[p] \/ "paid" \in reports[p]
  BY <1>1, <1>2, <1>3
<1> QED BY <1>4, NothingIsTakenBack DEF ConfirmsReport

LEMMA NextPaid == TypeOK /\ ActivatedWasPaid /\ CarriesReport /\ [Next]_vars => ActivatedWasPaid'
<1> SUFFICES ASSUME TypeOK, ActivatedWasPaid, CarriesReport, [Next]_vars,
                    NEW p \in Payment, activations'[p] > 0
             PROVE  "paid" \in reports'[p]
  BY DEF ActivatedWasPaid
<1>1. ASSUME NEW t \in Task, Commit(t) PROVE "paid" \in reports[p]
  <2>1. CASE p = pay[t]
    BY <1>1, <2>1 DEF Commit, Goto, CarriesReport, Finalizing
  <2>2. CASE p # pay[t]
    BY <1>1, <2>2 DEF Commit, ActivatedWasPaid, TypeOK
  <2> QED BY <2>1, <2>2
<1>2. CASE activations' = activations
  BY <1>2, NothingIsTakenBack DEF ActivatedWasPaid
<1>3. (\E t \in Task : Commit(t)) \/ activations' = activations
  BY DEF Next, Work, vars, Report, Post, PostAgain, Lookup, StartPoll, AskWata, Mark, Notify,
         Activate, CommitNothing, Announce, Answer, Escape, ReadAgain, RecordFailure, Fail, Crash
<1> QED BY <1>1, <1>2, <1>3, NothingIsTakenBack

LEMMA NextRefusedPaid == TypeOK /\ RefusedWasPaid /\ CarriesReport /\ [Next]_vars => RefusedWasPaid'
<1> SUFFICES ASSUME TypeOK, RefusedWasPaid, CarriesReport, [Next]_vars,
                    NEW p \in Payment, refusals'[p] > 0
             PROVE  "paid" \in reports'[p]
  BY DEF RefusedWasPaid
<1>1. ASSUME NEW t \in Task, CommitNothing(t) PROVE "paid" \in reports[p]
  <2>1. CASE p = pay[t]
    BY <1>1, <2>1 DEF CommitNothing, Goto, CarriesReport, Finalizing
  <2>2. CASE p # pay[t]
    BY <1>1, <2>2 DEF CommitNothing, RefusedWasPaid, TypeOK
  <2> QED BY <2>1, <2>2
<1>2. CASE refusals' = refusals
  BY <1>2, NothingIsTakenBack DEF RefusedWasPaid
<1>3. (\E t \in Task : CommitNothing(t)) \/ refusals' = refusals
  BY DEF Next, Work, vars, Report, Post, PostAgain, Lookup, StartPoll, AskWata, Mark, Notify,
         Activate, Commit, Announce, Answer, Escape, ReadAgain, RecordFailure, Fail, Crash
<1> QED BY <1>1, <1>2, <1>3, NothingIsTakenBack

\* Nothing is granted that the provider never reported paid, with any number of
\* concurrent requests.
THEOREM GrantedWasPaid == Spec => []ActivatedWasPaid
<1>1. Init => TypeOK /\ ActivatedWasPaid /\ CarriesReport /\ ConfirmsReport
  BY InitTypeOK, InitPaid
<1>2. TypeOK /\ ActivatedWasPaid /\ CarriesReport /\ ConfirmsReport /\ [Next]_vars
        => (TypeOK /\ ActivatedWasPaid /\ CarriesReport /\ ConfirmsReport)'
  BY NextTypeOK, NextCarries, NextConfirms, NextPaid
<1> QED BY <1>1, <1>2, PTL DEF Spec

-----------------------------------------------------------------------------

LEMMA InitFinalizer == Init => FinalizerInv
BY InitTypeOK, InitPaid
   DEF Init, FinalizerInv, SucceededWasFinalized, AckedPaidWasFinalized, StandsOnVerdict, RouteOf

\* Only a commit of the finalizer makes a row succeeded.
LEMMA NextSucceeded == FinalizerInv /\ [Next]_vars => SucceededWasFinalized'
<1> SUFFICES ASSUME FinalizerInv, [Next]_vars, NEW p \in Payment, status'[p] = "succeeded"
             PROVE  Verdicts(p)' > 0
  BY DEF SucceededWasFinalized
<1> USE DEF FinalizerInv, TypeOK
<1>1. ASSUME NEW t \in Task, Mark(t) PROVE status[p] = "succeeded"
  <2>1. NewStatus(t) = "succeeded" => view[t] = "succeeded"
    BY DEF NewStatus
  <2> QED BY <1>1, <2>1 DEF Mark, WriteStatus
<1>2. ASSUME NEW t \in Task, RecordFailure(t) PROVE status[p] = "succeeded"
  BY <1>2 DEF RecordFailure, WriteStatus
<1>3. ASSUME NEW t \in Task, Commit(t) \/ CommitNothing(t)
      PROVE status[p] = "succeeded" \/ Verdicts(p)' > 0
  <2>1. CASE p = pay[t]
    BY <1>3, <2>1 DEF Commit, CommitNothing, Verdicts
  <2>2. CASE p # pay[t]
    BY <1>3, <2>2 DEF Commit, CommitNothing, Succeed
  <2> QED BY <2>1, <2>2
<1>4. \/ status' = status
      \/ \E t \in Task : Mark(t) \/ RecordFailure(t) \/ Commit(t) \/ CommitNothing(t)
  BY DEF Next, Work, vars, Report, Post, PostAgain, Lookup, StartPoll, AskWata, Notify, Activate,
         Announce, Answer, Escape, ReadAgain, Fail, Crash
<1>5. status[p] = "succeeded" \/ Verdicts(p)' > 0
  BY <1>1, <1>2, <1>3, <1>4
<1> QED BY <1>5, NothingIsTakenBack DEF SucceededWasFinalized

\* "paid" is confirmed only by a request that stands on a commit of the finalizer.
LEMMA NextAcked == FinalizerInv /\ [Next]_vars => AckedPaidWasFinalized'
<1> SUFFICES ASSUME FinalizerInv, [Next]_vars, NEW p \in Payment,
                    "paid" \in acked'[p], "paid" \notin Routes[provider'[p]].forgives
             PROVE  Verdicts(p)' > 0
  BY DEF AckedPaidWasFinalized, RouteOf
<1> USE DEF FinalizerInv, TypeOK
<1>0. "paid" \notin RouteOf(p).forgives
  BY NothingIsTakenBack DEF RouteOf
<1>1. ASSUME NEW t \in Task, Answer(t) PROVE "paid" \in acked[p] \/ Verdicts(p) > 0
  BY <1>1 DEF Answer, StandsOnVerdict
<1>2. ASSUME NEW t \in Task, Escape(t) \/ RecordFailure(t) \/ Fail(t) PROVE "paid" \in acked[p]
  <2>1. acked' = acked \/ AnswerFailure(t)
    BY <1>2 DEF Escape, RecordFailure, Fail
  <2> QED BY <1>0, <2>1 DEF AnswerFailure
<1>3. \/ acked' = acked
      \/ \E t \in Task : Answer(t) \/ Escape(t) \/ RecordFailure(t) \/ Fail(t)
  BY DEF Next, Work, vars, Report, Post, PostAgain, Lookup, StartPoll, AskWata, Mark, Notify, Activate,
         Commit, CommitNothing, Announce, ReadAgain, Crash
<1>4. "paid" \in acked[p] \/ Verdicts(p) > 0
  BY <1>1, <1>2, <1>3
<1> QED BY <1>0, <1>4, NothingIsTakenBack DEF AckedPaidWasFinalized

LEMMA NextStands == FinalizerInv /\ [Next]_vars => StandsOnVerdict'
<1> SUFFICES ASSUME FinalizerInv, [Next]_vars, NEW u \in Task,
                    \/ pc'[u] # "idle" /\ view'[u] = "succeeded"
                    \/ pc'[u] = "announce"
                    \/ pc'[u] = "answer" /\ event'[u] = "paid"
             PROVE  Verdicts(pay[u])' > 0
  BY DEF StandsOnVerdict
<1> USE DEF FinalizerInv
<1>1. ASSUME pay'[u] = pay[u], Verdicts(pay[u]) > 0 PROVE Verdicts(pay[u])' > 0
  <2>1. PICK p \in Payment : p = pay[u]
    BY DEF TypeOK
  <2>2. Verdicts(p)' > 0
    BY <1>1, <2>1, NothingIsTakenBack
  <2> QED BY <1>1, <2>1, <2>2 DEF Verdicts
<1>2. ASSUME NEW t \in Task, OthersKeep(t), u # t PROVE Verdicts(pay[u])' > 0
  BY <1>2, <1>1 DEF OthersKeep, StandsOnVerdict
<1>3. ASSUME NEW h \in Hook, u = h,
             NEW p \in Payment, NEW e \in Event, Post(h, p, e) \/ PostAgain(h, p, e)
      PROVE Verdicts(pay[u])' > 0
  <2>1. /\ pc'[u] = IF status[p] = "succeeded" /\ e \in RouteOf(p).skips THEN "answer" ELSE "mark"
        /\ pay'[u] = p /\ view'[u] = status[p]
        /\ activations' = activations /\ refusals' = refusals
    BY <1>3, Names DEF Post, PostAgain, Lookup, Goto, TypeOK
  <2>2. status[p] = "succeeded"
    BY <2>1
  <2>3. Verdicts(p) > 0
    BY <2>2 DEF SucceededWasFinalized
  <2> QED BY <2>1, <2>3 DEF Verdicts
<1>4. ASSUME NEW t \in Poller, u = t, AskWata(t) \/ \E p \in Payment : StartPoll(t, p)
      PROVE Verdicts(pay[u])' > 0
  BY <1>4, <1>1, Names DEF AskWata, StartPoll, End, Goto, StandsOnVerdict, TypeOK
<1>5. ASSUME NEW t \in Task, u = t, Work(t) \/ Fail(t) PROVE Verdicts(pay[u])' > 0
  <2>1. CASE Mark(t)
    <3>1. pc'[t] # "announce" /\ ~(pc'[t] = "answer" /\ event'[t] = "paid")
      BY <1>5, <2>1 DEF Mark, AfterMark, Goto, TypeOK
    <3>2. status'[pay[t]] = "succeeded" /\ pay' = pay /\ pay[t] \in Payment
      BY <1>5, <2>1, <3>1 DEF Mark, TypeOK
    <3> QED BY <1>5, <3>2, NextSucceeded DEF SucceededWasFinalized
  <2>2. CASE Notify(t) \/ Activate(t) \/ Announce(t) \/ ReadAgain(t)
    BY <1>5, <2>2, <1>1 DEF Notify, Activate, Announce, ReadAgain, Goto, CarriesReport,
       StandsOnVerdict, SucceededWasFinalized, TypeOK
  <2>3. CASE Commit(t)
    BY <1>5, <2>3 DEF Commit, Verdicts, TypeOK
  <2>4. CASE CommitNothing(t)
    BY <1>5, <2>4 DEF CommitNothing, Verdicts, TypeOK
  <2>5. CASE Answer(t) \/ Escape(t) \/ RecordFailure(t)
    BY <1>5, <2>5 DEF Answer, Escape, RecordFailure, End, TypeOK
  <2>6. CASE Fail(t)
    BY <1>5, <2>6, <1>1 DEF Fail, End, StandsOnVerdict, TypeOK
  <2> QED BY <1>5, <2>1, <2>2, <2>3, <2>4, <2>5, <2>6 DEF Work
<1>6. CASE Crash
  BY <1>6 DEF Crash
<1>7. CASE UNCHANGED vars \/ \E p \in Payment, e \in Event : Report(p, e)
  BY <1>7, <1>1 DEF vars, Report, StandsOnVerdict
<1> QED BY <1>2, <1>3, <1>4, <1>5, <1>6, <1>7, WorkIsOwn, HookIsOwn, PollerIsOwn, Names, TasksAssumption
        DEF Next

\* Under any number of concurrent requests.
LEMMA NextFinalizer == FinalizerInv /\ [Next]_vars => FinalizerInv'
BY NextTypeOK, NextPaid, NextRefusedPaid, NextCarries, NextConfirms, NextSucceeded, NextAcked, NextStands
   DEF FinalizerInv

\* The strengthening behind the next two.
THEOREM Finalizer == Spec => []FinalizerInv
BY InitFinalizer, NextFinalizer, PTL DEF Spec

\* A row that says succeeded stands for a commit of the finalizer, of an activation
\* or of its refusal.
THEOREM Succeeded == Spec => []SucceededWasFinalized
<1>1. FinalizerInv => SucceededWasFinalized
  BY DEF FinalizerInv
<1> QED BY <1>1, Finalizer, PTL

\* A provider is told 200 for "paid" only after such a commit.
THEOREM Acked == Spec => []AckedPaidWasFinalized
<1>1. FinalizerInv => AckedPaidWasFinalized
  BY DEF FinalizerInv
<1> QED BY <1>1, Finalizer, PTL

-----------------------------------------------------------------------------

\* The requests that have committed a verdict and not announced it yet.
OwedBy(p) == {t \in Task : pc[t] = "announce" /\ pay[t] = p}

\* Every announcement, made or still owed, has a commit of its own.
AnnouncementsOwed ==
    \A p \in Payment :
        IsFiniteSet(OwedBy(p)) /\ announced[p] + Cardinality(OwedBy(p)) <= Verdicts(p)

\* A step that neither commits nor announces lets no request owe anything new.
Silent ==
    /\ UNCHANGED <<settled, announced>>
    /\ \A p \in Payment : OwedBy(p)' \subseteq OwedBy(p)

LEMMA SilentSteps ==
    TypeOK /\ [Next]_vars
        => Silent \/ \E t \in Task : Commit(t) \/ CommitNothing(t) \/ Announce(t)
<1> SUFFICES ASSUME TypeOK, [Next]_vars,
                    \A t \in Task : ~Commit(t) /\ ~CommitNothing(t) /\ ~Announce(t)
             PROVE  Silent
  OBVIOUS
<1> USE Names DEF Silent, OwedBy
<1>1. ASSUME NEW t \in Task, OthersKeep(t), pc'[t] # "announce", UNCHANGED <<settled, announced>>
      PROVE  Silent
  BY <1>1 DEF OthersKeep
<1>2. CASE UNCHANGED vars \/ \E p \in Payment, e \in Event : Report(p, e)
  BY <1>2 DEF vars, Report
<1>3. ASSUME NEW h \in Hook, NEW p \in Payment, NEW e \in Event,
             Post(h, p, e) \/ PostAgain(h, p, e)
      PROVE  Silent
  BY <1>1, <1>3, HookIsOwn DEF Post, PostAgain, Lookup, Goto, TypeOK
<1>4. ASSUME NEW t \in Poller, NEW p \in Payment, StartPoll(t, p) \/ AskWata(t) PROVE Silent
  BY <1>1, <1>4, PollerIsOwn DEF StartPoll, AskWata, End, Goto, TypeOK
<1>5. ASSUME NEW t \in Task, Work(t) \/ Fail(t) PROVE Silent
  <2>1. OthersKeep(t)
    BY <1>5, WorkIsOwn
  <2>2. CASE Mark(t) \/ Notify(t) \/ Activate(t) \/ ReadAgain(t)
    BY <1>1, <2>1, <2>2
       DEF Mark, AfterMark, Notify, Activate, ReadAgain, Goto, TypeOK
  <2>3. CASE Answer(t) \/ Escape(t) \/ RecordFailure(t)
    BY <1>1, <2>1, <2>3 DEF Answer, Escape, RecordFailure, End, TypeOK
  <2>4. CASE Fail(t)
    BY <1>1, <2>1, <2>4 DEF Fail, End, TypeOK
  <2> QED BY <1>5, <2>2, <2>3, <2>4 DEF Work
<1>6. CASE Crash
  BY <1>6 DEF Crash
<1> QED BY <1>2, <1>3, <1>4, <1>5, <1>6, TasksAssumption DEF Next

LEMMA NextOwed == TypeOK /\ AnnouncementsOwed /\ [Next]_vars => AnnouncementsOwed'
<1> SUFFICES ASSUME TypeOK, AnnouncementsOwed, [Next]_vars, NEW p \in Payment
             PROVE  /\ IsFiniteSet(OwedBy(p)')
                    /\ announced'[p] + Cardinality(OwedBy(p)') <= Verdicts(p)'
  BY DEF AnnouncementsOwed
<1> DEFINE Goal == /\ IsFiniteSet(OwedBy(p)')
                   /\ announced'[p] + Cardinality(OwedBy(p)') <= Verdicts(p)'
<1>1. IsFiniteSet(OwedBy(p)) /\ announced[p] + Cardinality(OwedBy(p)) <= Verdicts(p)
  BY DEF AnnouncementsOwed
<1>2. Cardinality(OwedBy(p)) \in Nat /\ announced[p] \in Nat /\ Verdicts(p) \in Nat
  BY <1>1, FS_CardinalityType DEF Verdicts, TypeOK
<1>3. ASSUME OwedBy(p)' \subseteq OwedBy(p), UNCHANGED <<settled, announced>> PROVE Goal
  <2>1. IsFiniteSet(OwedBy(p)') /\ Cardinality(OwedBy(p)') <= Cardinality(OwedBy(p))
    BY <1>1, <1>3, FS_Subset
  <2>2. Cardinality(OwedBy(p)') \in Nat
    BY <2>1, FS_CardinalityType
  <2>3. Verdicts(p)' = Verdicts(p)
    BY <1>3 DEF Verdicts
  <2> QED BY <1>1, <1>2, <1>3, <2>1, <2>2, <2>3
<1>4. ASSUME NEW t \in Task, Commit(t) \/ CommitNothing(t) PROVE Goal
  <2>1. /\ pc[t] # "announce" /\ pc' = [pc EXCEPT ![t] = "announce"] /\ pay' = pay
        /\ announced' = announced
    BY <1>4 DEF Commit, CommitNothing, Goto
  <2>4. Verdicts(p)' = IF p = pay[t] THEN Verdicts(p) + 1 ELSE Verdicts(p)
    BY <1>4 DEF Commit, CommitNothing, Verdicts, TypeOK
  <2>2. CASE p # pay[t]
    <3>1. OwedBy(p)' = OwedBy(p)
      BY <2>1, <2>2 DEF OwedBy, TypeOK
    <3> QED BY <1>1, <2>1, <2>2, <2>4, <3>1
  <2>3. CASE p = pay[t]
    <3>1. OwedBy(p)' = OwedBy(p) \cup {t} /\ t \notin OwedBy(p)
      BY <2>1, <2>3 DEF OwedBy, TypeOK
    <3>2. IsFiniteSet(OwedBy(p)') /\ Cardinality(OwedBy(p)') = Cardinality(OwedBy(p)) + 1
      BY <1>1, <3>1, FS_AddElement
    <3> QED BY <1>1, <1>2, <2>1, <2>3, <2>4, <3>2
  <2> QED BY <2>2, <2>3
<1>5. ASSUME NEW t \in Task, Announce(t) PROVE Goal
  <2>1. /\ pc[t] = "announce" /\ pc' = [pc EXCEPT ![t] = "answer"] /\ pay' = pay
        /\ Verdicts(p)' = Verdicts(p) /\ announced' = [announced EXCEPT ![pay[t]] = @ + 1]
    BY <1>5 DEF Announce, Goto, Verdicts
  <2>2. CASE p # pay[t]
    <3>1. OwedBy(p)' = OwedBy(p) /\ announced'[p] = announced[p]
      BY <2>1, <2>2 DEF OwedBy, TypeOK
    <3> QED BY <1>1, <2>1, <3>1
  <2>3. CASE p = pay[t]
    <3>1. OwedBy(p)' = OwedBy(p) \ {t} /\ t \in OwedBy(p)
      BY <2>1, <2>3 DEF OwedBy, TypeOK
    <3>2. IsFiniteSet(OwedBy(p)') /\ Cardinality(OwedBy(p)') = Cardinality(OwedBy(p)) - 1
      BY <1>1, <3>1, FS_RemoveElement
    <3>3. announced'[p] = announced[p] + 1
      BY <2>1, <2>3 DEF TypeOK
    <3> QED BY <1>1, <1>2, <2>1, <3>2, <3>3
  <2> QED BY <2>2, <2>3
<1> QED BY <1>3, <1>4, <1>5, SilentSteps DEF Silent

LEMMA InitOwed == Init => AnnouncementsOwed
<1> SUFFICES ASSUME Init, NEW p \in Payment
             PROVE  IsFiniteSet(OwedBy(p)) /\ announced[p] + Cardinality(OwedBy(p)) <= Verdicts(p)
  BY DEF AnnouncementsOwed
<1>1. OwedBy(p) = {} /\ announced[p] = 0 /\ Verdicts(p) = 0
  BY DEF Init, OwedBy, Verdicts
<1> QED BY <1>1, FS_EmptySet

\* payment.succeeded is announced at most once for each commit of the finalizer,
\* however many requests settle the payment at the same time.
THEOREM Announced == Spec => []AnnouncedWasCommitted
<1>1. TypeOK /\ AnnouncementsOwed => AnnouncedWasCommitted
  <2> SUFFICES ASSUME TypeOK, AnnouncementsOwed, NEW p \in Payment
               PROVE  announced[p] <= Verdicts(p)
    BY DEF AnnouncedWasCommitted
  <2>1. IsFiniteSet(OwedBy(p)) /\ announced[p] + Cardinality(OwedBy(p)) <= Verdicts(p)
    BY DEF AnnouncementsOwed
  <2>2. Cardinality(OwedBy(p)) \in Nat /\ announced[p] \in Nat /\ Verdicts(p) \in Nat
    BY <2>1, FS_CardinalityType DEF Verdicts, TypeOK
  <2> QED BY <2>1, <2>2
<1> QED BY <1>1, Typing, InitOwed, NextOwed, PTL DEF Spec

-----------------------------------------------------------------------------
(***************************************************************************)
(* One request at a time: no status page and one webhook in flight.        *)
(***************************************************************************)

OneRequest == Poller = {} /\ \A g, h \in Hook : g = h

LEMMA OneTask == ASSUME OneRequest PROVE \A t, u \in Task : t = u /\ t \in Hook
BY DEF OneRequest, Task

\* Every route answers a "paid" of a succeeded payment at once.
LEMMA PaidIsSkipped == ASSUME TypeOK, NEW p \in Payment PROVE "paid" \in RouteOf(p).skips
BY ProvidersAssumption
   DEF TypeOK, RouteOf, Routes, Route, FreeKassa, Platega, Heleket, PayKilla, CloudPayments, Qa,
       SeverPay, Lava, Pally, Wata, Stripe, CryptoPay, Stars

LEMMA InitSerial == Init => SerialInv
BY InitFinalizer DEF Init, SerialInv, ViewIsCurrent, SettledExactly, Verdicts, FinalizesUnsettled

LEMMA NextView == ASSUME OneRequest PROVE TypeOK /\ ViewIsCurrent /\ [Next]_vars => ViewIsCurrent'
<1> SUFFICES ASSUME TypeOK, ViewIsCurrent, [Next]_vars, NEW u \in Task,
                    pc'[u] \notin {"idle", "rolledBack"}
             PROVE  view'[u] = status'[pay'[u]]
  BY DEF ViewIsCurrent
<1> USE DEF TypeOK
<1>0. u \in Hook /\ \A t \in Task : t = u
  BY OneTask
<1>1. ASSUME NEW h \in Hook, NEW p \in Payment, NEW e \in Event, Post(h, p, e) \/ PostAgain(h, p, e)
      PROVE  view'[u] = status'[pay'[u]]
  BY <1>0, <1>1, Names DEF Post, PostAgain, Lookup, Goto
<1>3. CASE Mark(u) \/ ReadAgain(u)
  BY <1>3 DEF Mark, ReadAgain
<1>4. CASE Notify(u) \/ Activate(u) \/ Announce(u)
  BY <1>4 DEF Notify, Activate, Announce, Goto, ViewIsCurrent
<1>5. CASE Commit(u) \/ CommitNothing(u)
  BY <1>5 DEF Commit, CommitNothing, Succeed, Goto, ViewIsCurrent
<1>6. CASE Answer(u) \/ Escape(u) \/ RecordFailure(u)
  BY <1>6 DEF Answer, Escape, RecordFailure, End
<1>7. CASE Fail(u)
  BY <1>7 DEF Fail, End
<1>8. CASE Crash
  BY <1>8 DEF Crash
<1>9. CASE UNCHANGED vars \/ \E p \in Payment, e \in Event : Report(p, e)
  BY <1>9 DEF vars, Report, ViewIsCurrent
<1> QED BY <1>0, <1>1, <1>3, <1>4, <1>5, <1>6, <1>7, <1>8, <1>9 DEF Next, Work, OneRequest

\* The row of a payment that some request is finalizing is not settled.
LEMMA NextUnsettled == ASSUME OneRequest PROVE SerialInv /\ [Next]_vars => FinalizesUnsettled'
<1> SUFFICES ASSUME SerialInv, [Next]_vars, NEW u \in Task
             PROVE  /\ pc'[u] = "mark" /\ event'[u] = "paid" => status'[pay'[u]] # "succeeded"
                    /\ pc'[u] \in {"activate", "commit", "rolledBack", "record"}
                          => status'[pay'[u]] = "finalizing"
  BY DEF FinalizesUnsettled
<1> DEFINE Unsettled == /\ pc'[u] = "mark" /\ event'[u] = "paid" => status'[pay'[u]] # "succeeded"
                        /\ pc'[u] \in {"activate", "commit", "rolledBack", "record"}
                             => status'[pay'[u]] = "finalizing"
<1> USE DEF SerialInv, FinalizerInv, TypeOK
<1>0. u \in Hook /\ \A t \in Task : t = u
  BY OneTask
<1>1. ASSUME NEW h \in Hook, NEW p \in Payment, NEW e \in Event, Post(h, p, e) \/ PostAgain(h, p, e)
      PROVE  Unsettled
  BY <1>0, <1>1, Names, PaidIsSkipped DEF Post, PostAgain, Lookup, Goto
<1>3. ASSUME Mark(u) PROVE Unsettled
  <2>1. pc[u] = "mark" /\ event' = event /\ pay' = pay /\ pc'[u] = AfterMark(u)
    BY <1>3 DEF Mark, Goto
  <2>2. CASE event[u] = "paid"
    <3>1. view[u] # "succeeded"
      BY <2>1, <2>2 DEF FinalizesUnsettled, ViewIsCurrent
    <3>2. NewStatus(u) = "finalizing"
      BY <2>2 DEF NewStatus
    <3>3. status'[pay[u]] = "finalizing"
      BY <1>3, <2>1, <3>1, <3>2 DEF Mark, WriteStatus, ViewIsCurrent
    <3> QED BY <2>1, <2>2, <3>3
  <2>3. CASE event[u] # "paid"
    BY <2>1, <2>3 DEF AfterMark
  <2> QED BY <2>2, <2>3
<1>4. ASSUME Notify(u) \/ Activate(u) \/ Announce(u) \/ ReadAgain(u) PROVE Unsettled
  BY <1>4 DEF Notify, Activate, Announce, ReadAgain, Goto, FinalizesUnsettled
<1>5. ASSUME Commit(u) \/ CommitNothing(u) PROVE Unsettled
  BY <1>5 DEF Commit, CommitNothing, Goto
<1>6. ASSUME Answer(u) \/ Escape(u) \/ RecordFailure(u) PROVE Unsettled
  BY <1>6 DEF Answer, Escape, RecordFailure, End
<1>7. ASSUME Fail(u) PROVE Unsettled
  BY <1>7 DEF Fail, End, FinalizesUnsettled
<1>8. ASSUME Crash PROVE Unsettled
  BY <1>8 DEF Crash
<1>9. ASSUME UNCHANGED vars \/ \E p \in Payment, e \in Event : Report(p, e) PROVE Unsettled
  BY <1>9 DEF vars, Report, FinalizesUnsettled
<1> HIDE DEF Unsettled
<1>10. Unsettled
  BY <1>0, <1>1, <1>3, <1>4, <1>5, <1>6, <1>7, <1>8, <1>9
     DEF Next, Work, OneRequest
<1> QED BY <1>10 DEF Unsettled

-----------------------------------------------------------------------------

\* One payment, paid and being finalized, becomes succeeded.
Settles(p) ==
    /\ status[p] = "finalizing" /\ "paid" \in reports[p] /\ reports' = reports
    /\ status' = [status EXCEPT ![p] = "succeeded"]

\* What a step does to the rows, when requests do not overlap: nothing that the
\* ledger sees, or it grants or refuses one payment that is paid and not yet settled.
LEMMA SerialStep ==
    ASSUME OneRequest, SerialInv, [Next]_vars
    PROVE  \/ /\ settled' = settled
              /\ \A p \in Payment : status'[p] = "succeeded" <=> status[p] = "succeeded"
           \/ \E p \in Payment :
                 /\ Settles(p)
                 /\ activations' = [activations EXCEPT ![p] = @ + 1] /\ refusals' = refusals
           \/ \E p \in Payment :
                 /\ Settles(p)
                 /\ refusals' = [refusals EXCEPT ![p] = @ + 1] /\ activations' = activations
<1> USE DEF SerialInv, FinalizerInv, TypeOK
<1>1. ASSUME NEW t \in Task, Mark(t)
      PROVE  /\ settled' = settled
             /\ \A p \in Payment : status'[p] = "succeeded" <=> status[p] = "succeeded"
  <2>1. view[t] = status[pay[t]]
    BY <1>1 DEF Mark, Goto, ViewIsCurrent
  <2>2. NewStatus(t) = "succeeded" => view[t] = "succeeded"
    BY DEF NewStatus
  <2> QED BY <1>1, <2>1, <2>2 DEF Mark, WriteStatus
<1>2. ASSUME NEW t \in Task, RecordFailure(t)
      PROVE  /\ settled' = settled
             /\ \A p \in Payment : status'[p] = "succeeded" <=> status[p] = "succeeded"
  <2>1. view[t] = status[pay[t]]
    BY <1>2 DEF RecordFailure, ViewIsCurrent
  <2> QED BY <1>2, <2>1 DEF RecordFailure, WriteStatus
<1>3. ASSUME NEW t \in Task, Commit(t) \/ CommitNothing(t)
      PROVE  pay[t] \in Payment /\ Settles(pay[t])
  <2>1. pay[t] \in Payment /\ pc[t] \in {"commit"} /\ view[t] = status[pay[t]]
    BY <1>3 DEF Commit, CommitNothing, Goto, ViewIsCurrent
  <2>2. status[pay[t]] = "finalizing" /\ "paid" \in reports[pay[t]]
    BY <2>1 DEF FinalizesUnsettled, CarriesReport, Finalizing
  <2>3. status' = [status EXCEPT ![pay[t]] = "succeeded"] /\ reports' = reports
    BY <1>3, <2>1, <2>2 DEF Commit, CommitNothing, Succeed
  <2> QED BY <2>1, <2>2, <2>3 DEF Settles
<1>4. \/ settled' = settled /\ status' = status
      \/ \E t \in Task : Mark(t) \/ RecordFailure(t) \/ Commit(t) \/ CommitNothing(t)
  BY DEF Next, Work, vars, Report, Post, PostAgain, Lookup, StartPoll, AskWata, Notify, Activate,
         Announce, Answer, Escape, ReadAgain, Fail, Crash
<1>5. ASSUME NEW t \in Task, Commit(t)
      PROVE  \E p \in Payment :
                 /\ Settles(p)
                 /\ activations' = [activations EXCEPT ![p] = @ + 1] /\ refusals' = refusals
  BY <1>3, <1>5 DEF Commit
<1>6. ASSUME NEW t \in Task, CommitNothing(t)
      PROVE  \E p \in Payment :
                 /\ Settles(p)
                 /\ refusals' = [refusals EXCEPT ![p] = @ + 1] /\ activations' = activations
  BY <1>3, <1>6 DEF CommitNothing
<1> QED BY <1>1, <1>2, <1>4, <1>5, <1>6

LEMMA NextSettled == ASSUME OneRequest PROVE SerialInv /\ [Next]_vars => SettledExactly'
<1> SUFFICES ASSUME SerialInv, [Next]_vars, NEW q \in Payment
             PROVE  Verdicts(q)' = IF status'[q] = "succeeded" THEN 1 ELSE 0
  BY DEF SettledExactly
<1> USE DEF Verdicts
<1>0. Verdicts(q) = IF status[q] = "succeeded" THEN 1 ELSE 0
  BY DEF SerialInv, SettledExactly
<1>1. ASSUME NEW p \in Payment, Settles(p),
             \/ activations' = [activations EXCEPT ![p] = @ + 1] /\ refusals' = refusals
             \/ refusals' = [refusals EXCEPT ![p] = @ + 1] /\ activations' = activations
      PROVE  Verdicts(q)' = IF status'[q] = "succeeded" THEN 1 ELSE 0
  BY <1>0, <1>1 DEF Settles, SerialInv, FinalizerInv, TypeOK
<1>2. CASE /\ settled' = settled
           /\ \A p \in Payment : status'[p] = "succeeded" <=> status[p] = "succeeded"
  BY <1>0, <1>2
<1> QED BY <1>1, <1>2, SerialStep

LEMMA NextSerial == ASSUME OneRequest PROVE SerialInv /\ [Next]_vars => SerialInv'
BY NextFinalizer, NextView, NextUnsettled, NextSettled DEF SerialInv, FinalizerInv

\* One request at a time: a payment has one verdict, a grant or a refusal, exactly
\* when its row says succeeded.
THEOREM SerialGrants == ASSUME OneRequest PROVE Spec => []SerialInv
BY InitSerial, NextSerial, PTL DEF Spec

\* The user is never told that a granted payment failed.
THEOREM SerialNotices == ASSUME OneRequest PROVE Spec => NoFailureNoticeAfterGrant
<1> DEFINE Quiet == \A p \in Payment : activations[p] > 0 => notices'[p] = notices[p]
<1>1. SerialInv /\ [Next]_vars => Quiet
  <2> SUFFICES ASSUME SerialInv, [Next]_vars, NEW p \in Payment, activations[p] > 0
               PROVE  notices'[p] = notices[p]
    OBVIOUS
  <2>1. status[p] = "succeeded"
    BY DEF SerialInv, SettledExactly, Verdicts, FinalizerInv, TypeOK
  <2>2. ASSUME NEW t \in Task, Notify(t) PROVE notices'[p] = notices[p]
    BY <2>1, <2>2 DEF Notify, SerialInv, FinalizerInv, TypeOK
  <2>3. notices' = notices \/ \E t \in Task : Notify(t)
    BY DEF Next, Work, vars, Report, Post, PostAgain, Lookup, StartPoll, AskWata, Mark, Activate, Commit,
           CommitNothing, Announce, Answer, Escape, ReadAgain, RecordFailure, Fail, Crash
  <2> QED BY <2>2, <2>3
<1>2. SerialInv /\ [Next]_vars => [Quiet]_vars
  BY <1>1
<1> QED BY <1>2, SerialGrants, PTL DEF Spec, NoFailureNoticeAfterGrant

-----------------------------------------------------------------------------

\* A request about to confirm a payment stands on a row that says succeeded.
ConfirmsSucceeded ==
    \A t \in Task :
        pc[t] = "announce" \/ (pc[t] = "answer" /\ event[t] = "paid")
            => status[pay[t]] = "succeeded"

AnsweredInv ==
    TypeOK /\ CarriesReport /\ ConfirmsReport /\ ViewIsCurrent /\ ConfirmsSucceeded
      /\ AckedPaidIsSucceeded

\* A session that is up to date overwrites no succeeded row.
LEMMA SucceededStays ==
    ASSUME TypeOK, ViewIsCurrent, [Next]_vars, NEW p \in Payment, status[p] = "succeeded"
    PROVE  status'[p] = "succeeded"
<1> USE DEF TypeOK
<1>1. ASSUME NEW t \in Task, Mark(t) PROVE status'[p] = "succeeded"
  <2>1. view[t] = status[pay[t]]
    BY <1>1 DEF Mark, Goto, ViewIsCurrent
  <2> QED BY <1>1, <2>1 DEF Mark, WriteStatus
<1>2. ASSUME NEW t \in Task, RecordFailure(t) PROVE status'[p] = "succeeded"
  <2>1. view[t] = status[pay[t]]
    BY <1>2 DEF RecordFailure, ViewIsCurrent
  <2> QED BY <1>2, <2>1 DEF RecordFailure, WriteStatus
<1>3. ASSUME NEW t \in Task, Commit(t) \/ CommitNothing(t) PROVE status'[p] = "succeeded"
  BY <1>3 DEF Commit, CommitNothing, Succeed
<1>4. \/ status' = status
      \/ \E t \in Task : Mark(t) \/ RecordFailure(t) \/ Commit(t) \/ CommitNothing(t)
  BY DEF Next, Work, vars, Report, Post, PostAgain, Lookup, StartPoll, AskWata, Notify, Activate,
         Announce, Answer, Escape, ReadAgain, Fail, Crash
<1> QED BY <1>1, <1>2, <1>3, <1>4

LEMMA NextConfirmsSucceeded ==
    ASSUME OneRequest, AnsweredInv, [Next]_vars
    PROVE  ConfirmsSucceeded'
<1> SUFFICES ASSUME NEW u \in Task, pc'[u] = "announce" \/ (pc'[u] = "answer" /\ event'[u] = "paid")
             PROVE  status'[pay'[u]] = "succeeded"
  BY DEF ConfirmsSucceeded
<1> DEFINE Goal == status'[pay'[u]] = "succeeded"
<1> USE DEF AnsweredInv, TypeOK
<1>0. u \in Hook /\ \A t \in Task : t = u
  BY OneTask
<1>1. ASSUME NEW h \in Hook, NEW p \in Payment, NEW e \in Event, Post(h, p, e) \/ PostAgain(h, p, e)
      PROVE  Goal
  BY <1>0, <1>1, Names DEF Post, PostAgain, Lookup, Goto
<1>3. CASE Mark(u)
  BY <1>3 DEF Mark, AfterMark, Goto
<1>4. CASE Notify(u)
  BY <1>4 DEF Notify, Goto, CarriesReport
<1>5. CASE Announce(u)
  BY <1>5 DEF Announce, Goto, ConfirmsSucceeded
<1>6. CASE Commit(u) \/ CommitNothing(u)
  BY <1>6 DEF Commit, CommitNothing, Succeed, Goto, ViewIsCurrent
<1>7. CASE Activate(u) \/ ReadAgain(u)
  BY <1>7 DEF Activate, ReadAgain, Goto
<1>8. CASE Answer(u) \/ Escape(u) \/ RecordFailure(u)
  BY <1>8 DEF Answer, Escape, RecordFailure, End
<1>9. CASE Fail(u)
  BY <1>9 DEF Fail, End
<1>10. CASE Crash
  BY <1>10 DEF Crash
<1>11. CASE UNCHANGED vars \/ \E p \in Payment, e \in Event : Report(p, e)
  BY <1>11 DEF vars, Report, ConfirmsSucceeded
<1> QED
  BY <1>0, <1>1, <1>3, <1>4, <1>5, <1>6, <1>7, <1>8, <1>9, <1>10, <1>11
     DEF Next, Work, OneRequest

LEMMA NextAckedSucceeded ==
    ASSUME AnsweredInv, [Next]_vars
    PROVE  AckedPaidIsSucceeded'
<1> SUFFICES ASSUME NEW p \in Payment, "paid" \in acked'[p], "paid" \notin RouteOf(p)'.forgives
             PROVE  status'[p] = "succeeded"
  BY DEF AckedPaidIsSucceeded
<1> USE DEF AnsweredInv, TypeOK
<1>1. RouteOf(p)' = RouteOf(p)
  BY NothingIsTakenBack DEF RouteOf
<1>2. ASSUME NEW t \in Task, Answer(t) PROVE status[p] = "succeeded"
  BY <1>1, <1>2 DEF Answer, ConfirmsSucceeded, AckedPaidIsSucceeded
<1>3. ASSUME NEW t \in Task, AnswerFailure(t) PROVE status[p] = "succeeded"
  BY <1>1, <1>3 DEF AnswerFailure, AckedPaidIsSucceeded
<1>4. ASSUME acked' = acked PROVE status[p] = "succeeded"
  BY <1>1, <1>4 DEF AckedPaidIsSucceeded
<1>5. acked' = acked \/ \E t \in Task : Answer(t) \/ AnswerFailure(t)
  BY DEF Next, Work, vars, Report, Post, PostAgain, Lookup, StartPoll, AskWata, Mark, Notify, Activate,
         Commit, CommitNothing, Announce, Escape, ReadAgain, RecordFailure, Fail, Crash
<1> QED BY <1>2, <1>3, <1>4, <1>5, SucceededStays

\* A provider whose "paid" was answered 200 leaves a succeeded row, also when the
\* activation was refused, while requests do not overlap.
THEOREM AckedSucceeded == ASSUME OneRequest PROVE Spec => []AckedPaidIsSucceeded
<1>1. Init => AnsweredInv
  BY InitTypeOK, InitPaid DEF Init, AnsweredInv, ViewIsCurrent, ConfirmsSucceeded, AckedPaidIsSucceeded
<1>2. AnsweredInv /\ [Next]_vars => AnsweredInv'
  <2> SUFFICES ASSUME AnsweredInv, [Next]_vars PROVE AnsweredInv'
    OBVIOUS
  <2>1. TypeOK' /\ CarriesReport' /\ ConfirmsReport'
    BY NextTypeOK, NextCarries, NextConfirms DEF AnsweredInv
  <2>2. ViewIsCurrent'
    BY NextView DEF AnsweredInv
  <2> QED BY <2>1, <2>2, NextConfirmsSucceeded, NextAckedSucceeded DEF AnsweredInv
<1>3. AnsweredInv => AckedPaidIsSucceeded
  BY DEF AnsweredInv
<1> QED BY <1>1, <1>2, <1>3, PTL DEF Spec

-----------------------------------------------------------------------------

\* Every step is a step of the ledger, or none of its business.
LEMMA LedgerStep == ASSUME OneRequest, SerialInv, [Next]_vars PROVE [Ledger!Next]_(Ledger!vars)
<1> USE DEF SerialInv, FinalizerInv, TypeOK, LedgerState, Ledger!vars
<1>1. CASE /\ settled' = settled /\ reports' = reports
           /\ \A p \in Payment : status'[p] = "succeeded" <=> status[p] = "succeeded"
  <2>1. LedgerState' = LedgerState
    BY <1>1
  <2> QED BY <1>1, <2>1
<1>2. ASSUME NEW p \in Payment, Settles(p)
      PROVE  LedgerState[p] = "paid" /\ refusals[p] = 0 /\ activations[p] = 0
  BY <1>2 DEF Settles, SettledExactly, Verdicts
<1>5. ASSUME NEW p \in Payment, Settles(p), refusals' = refusals,
             activations' = [activations EXCEPT ![p] = @ + 1]
      PROVE  Ledger!Grant(p)
  <2>1. ASSUME NEW q \in Payment PROVE LedgerState'[q] = IF q = p THEN "granted" ELSE LedgerState[q]
    <3>1. /\ status'[q] = IF q = p THEN "succeeded" ELSE status[q]
          /\ refusals'[q] = IF q = p THEN 0 ELSE refusals[q]
          /\ reports' = reports
      BY <1>2, <1>5 DEF Settles
    <3> QED BY <3>1
  <2>2. LedgerState' = [LedgerState EXCEPT ![p] = "granted"]
    BY <2>1
  <2> HIDE DEF LedgerState
  <2> QED BY <1>2, <1>5, <2>2 DEF Ledger!Grant, Ledger!Move
<1>6. ASSUME NEW p \in Payment, Settles(p), activations' = activations,
             refusals' = [refusals EXCEPT ![p] = @ + 1]
      PROVE  Ledger!Refuse(p)
  <2>1. ASSUME NEW q \in Payment PROVE LedgerState'[q] = IF q = p THEN "refused" ELSE LedgerState[q]
    <3>1. /\ status'[q] = IF q = p THEN "succeeded" ELSE status[q]
          /\ refusals'[q] = IF q = p THEN refusals[q] + 1 ELSE refusals[q]
          /\ reports' = reports
      BY <1>2, <1>6 DEF Settles
    <3>2. CASE q = p
      <4>1. status'[q] = "succeeded" /\ refusals'[q] > 0
        BY <1>2, <3>1, <3>2
      <4> QED BY <3>2, <4>1
    <3>3. CASE q # p
      BY <3>1, <3>3
    <3> QED BY <3>2, <3>3
  <2>2. LedgerState' = [LedgerState EXCEPT ![p] = "refused"]
    BY <2>1
  <2> HIDE DEF LedgerState
  <2> QED BY <1>2, <1>6, <2>2 DEF Ledger!Refuse, Ledger!Move
<1>3. ASSUME NEW p \in Payment, NEW e \in Event, Report(p, e)
      PROVE  Ledger!Pay(p) \/ UNCHANGED Ledger!vars
  <2>1. status' = status /\ settled' = settled /\ e \notin reports[p]
        /\ reports' = [reports EXCEPT ![p] = @ \cup {e}]
    BY <1>3 DEF Report
  <2>2. CASE e = "paid"
    <3>1. status[p] # "succeeded"
      BY <2>1, <2>2 DEF SucceededWasFinalized, Verdicts, ActivatedWasPaid, RefusedWasPaid
    <3>2. LedgerState[p] = "unpaid"
      BY <2>1, <2>2, <3>1
    <3>3. LedgerState' = [LedgerState EXCEPT ![p] = "paid"]
      BY <2>1, <2>2, <3>1
    <3> QED BY <2>1, <3>2, <3>3 DEF Ledger!Pay, Ledger!Move
  <2>3. CASE e # "paid"
    <3>1. LedgerState' = LedgerState
      BY <2>1, <2>3
    <3> QED BY <2>1, <3>1
  <2> QED BY <2>2, <2>3
<1>4. reports' = reports \/ \E p \in Payment, e \in Event : Report(p, e)
  BY DEF Next, Work, vars, Post, PostAgain, Lookup, StartPoll, AskWata, Mark, Notify, Activate, Commit,
         CommitNothing, Announce, Answer, Escape, ReadAgain, RecordFailure, Fail, Crash
<1> QED BY <1>1, <1>5, <1>6, <1>3, <1>4, SerialStep DEF Settles, Ledger!Next

LEMMA LedgerInit == Init => Ledger!Init
BY DEF Init, Ledger!Init, LedgerState

\* Without overlapping requests the thirteen routes and the finalizer implement
\* the exactly-once ledger.
THEOREM SerialImplementsLedger == ASSUME OneRequest PROVE Spec => ImplementsLedger
<1>1. SerialInv /\ [Next]_vars => [Ledger!Next]_(Ledger!vars)
  BY LedgerStep
<1> QED BY <1>1, LedgerInit, SerialGrants, PTL DEF Spec, ImplementsLedger, Ledger!Spec
================================================================================
