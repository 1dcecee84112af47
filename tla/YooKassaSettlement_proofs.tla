----------------------- MODULE YooKassaSettlement_proofs -----------------------
(***************************************************************************)
(* Proofs about YooKassaSettlement, for every set of payments and tasks    *)
(* and every value of the bounds.                                          *)
(***************************************************************************)
EXTENDS YooKassaSettlement, TLAPS

USE DEF provider, redis, database, effects

-----------------------------------------------------------------------------

\* The members of the enumerated sets the actions name.
LEMMA Names ==
    /\ \A l \in {"idle", "dedupe", "push", "ask", "lock", "load", "user", "orphan", "activate",
                 "receipt", "commit", "announce", "cancel", "done", "failed"} :
          l \in Outside \cup Inside
    /\ {"succeeded", "canceled"} \subseteq Outcome
    /\ \A o \in {"succeeded", "canceled", "failed_user_not_found"} : o \in Status
    /\ \A t \in Task : ProcessOf(t) \in Process
BY DEF Outside, Inside, Outcome, Status, Process, ProcessOf

\* A task's kind is irrelevant to the type of its locals.
LEMMA KindsAreTasks == Consumer \subseteq Task /\ Request \subseteq Task /\ Poller \subseteq Task
BY DEF Task

LEMMA InitTypeOK == Init => TypeOK
BY TasksAssumption DEF Init, TypeOK, Outcome, Status, Outside, Inside, Process

\* Every step keeps the type invariant.
LEMMA NextTypeOK == TypeOK /\ [Next]_vars => TypeOK'
<1> SUFFICES ASSUME TypeOK, [Next]_vars PROVE TypeOK'
  OBVIOUS
<1> USE Names, KindsAreTasks DEF TypeOK, Goto
<1>1. ASSUME NEW p \in Payment, Decide(p) PROVE TypeOK'
  BY <1>1 DEF Decide
<1>2. ASSUME NEW p \in Payment, MergeUser(p) PROVE TypeOK'
  BY <1>2 DEF MergeUser
<1>3. ASSUME NEW p \in Payment, DedupeExpires(p) PROVE TypeOK'
  BY <1>3 DEF DedupeExpires
<1>4. ASSUME NEW r \in Request, NEW p \in Payment, Post(r, p) PROVE TypeOK'
  <2>1. r \in Task /\ p \in Payment
    OBVIOUS
  <2>2. posts' \in [Payment -> Nat]
    BY <1>4, <2>1 DEF Post
  <2>3. pc' \in [Task -> Outside \cup Inside] /\ pay' \in [Task -> Payment]
    BY <1>4, <2>1 DEF Post
  <2> QED BY <1>4, <2>2, <2>3 DEF Post
<1>5. ASSUME NEW r \in Request, Dedupe(r) PROVE TypeOK'
  <2>1. r \in Task /\ pay[r] \in Payment
    OBVIOUS
  <2>2. seen' \subseteq Payment /\ acked' \subseteq Payment /\ redisFaults' \in Nat
    BY <1>5, <2>1 DEF Dedupe
  <2>3. pc' \in [Task -> Outside \cup Inside]
    BY <1>5, <2>1 DEF Dedupe
  <2> QED BY <1>5, <2>2, <2>3 DEF Dedupe
<1>6. ASSUME NEW r \in Request, Push(r) PROVE TypeOK'
  <2>1. r \in Task /\ pay[r] \in Payment
    OBVIOUS
  <2>2. queue' \in Seq(Payment)
    <3>1. Append(queue, pay[r]) \in Seq(Payment)
      BY <2>1
    <3>2. queue' \in {queue, Append(queue, pay[r])}
      BY <1>6 DEF Push
    <3> QED BY <3>1, <3>2
  <2>3. accepted' \subseteq Payment /\ acked' \subseteq Payment /\ redisFaults' \in Nat
    BY <1>6, <2>1 DEF Push
  <2>4. pc' \in [Task -> Outside \cup Inside]
    BY <1>6, <2>1 DEF Push
  <2> QED BY <1>6, <2>2, <2>3, <2>4 DEF Push
<1>7. ASSUME NEW c \in Consumer, Pop(c) PROVE TypeOK'
  <2>1. c \in Task /\ Head(queue) \in Payment /\ Tail(queue) \in Seq(Payment)
    BY <1>7 DEF Pop
  <2>2. pc' \in [Task -> Outside \cup Inside]
    BY <1>7, <2>1 DEF Pop
  <2>3. pay' \in [Task -> Payment]
    <3>1. pay' \in {pay, [pay EXCEPT ![c] = Head(queue)]}
      BY <1>7 DEF Pop
    <3> QED BY <2>1, <3>1
  <2>4. redisFaults' \in Nat
    <3>1. redisFaults \in Nat
      OBVIOUS
    <3>2. redisFaults' = redisFaults \/ redisFaults' = redisFaults + 1
      BY <1>7 DEF Pop
    <3> QED BY <3>1, <3>2
  <2>5. queue' \in Seq(Payment)
    BY <1>7, <2>1 DEF Pop
  <2>6. /\ UNCHANGED <<outcome, posts, acked, accepted, seen, orphaned, status, activations>>
        /\ UNCHANGED <<receipts, announced, lock, view, faults>>
    BY <1>7 DEF Pop, provider, database, effects
  <2> QED BY <2>2, <2>3, <2>4, <2>5, <2>6
<1>8. ASSUME NEW t \in Poller, NEW p \in Payment, StartPoll(t, p) PROVE TypeOK'
  BY <1>8 DEF StartPoll
<1>9. ASSUME NEW t \in Poller, AskProvider(t) PROVE TypeOK'
  BY <1>9 DEF AskProvider
<1>10. ASSUME NEW t \in Task, Settle(t) PROVE TypeOK'
  <2>1. CASE AcquireLock(t)  BY <2>1 DEF AcquireLock
  <2>2. CASE Load(t)         BY <2>2 DEF Load, SessionRead
  <2>3. CASE CheckUser(t)    BY <2>3 DEF CheckUser
  <2>4. CASE FailOrphan(t)
    <3>1. status' \in [Payment -> Status]
      <4>1. status' = status \/ status' = [status EXCEPT ![pay[t]] = "failed_user_not_found"]
        BY <2>4 DEF FailOrphan, WriteStatus
      <4>2. status \in [Payment -> Status] /\ "failed_user_not_found" \in Status
        BY DEF Status
      <4> QED BY <4>1, <4>2
    <3>2. pc' \in [Task -> Outside \cup Inside]
      BY <2>4 DEF FailOrphan
    <3> QED BY <2>4, <3>1, <3>2 DEF FailOrphan
  <2>5. CASE Activate(t)     BY <2>5 DEF Activate
  <2>6. CASE SendReceipt(t)  BY <2>6 DEF SendReceipt
  <2>7. CASE Commit(t)       BY <2>7 DEF Commit
  <2>8. CASE Announce(t)     BY <2>8 DEF Announce
  <2>9. CASE Cancel(t)
    <3>1. status' \in [Payment -> Status]
      <4>1. status' = status \/ status' = [status EXCEPT ![pay[t]] = "canceled"]
        BY <2>9 DEF Cancel, WriteStatus
      <4>2. status \in [Payment -> Status] /\ "canceled" \in Status
        BY DEF Status
      <4> QED BY <4>1, <4>2
    <3>2. pc' \in [Task -> Outside \cup Inside]
      BY <2>9 DEF Cancel
    <3> QED BY <2>9, <3>1, <3>2 DEF Cancel
  <2>10. CASE Release(t)     BY <2>10 DEF Release
  <2> QED BY <1>10, <2>1, <2>2, <2>3, <2>4, <2>5, <2>6, <2>7, <2>8, <2>9, <2>10 DEF Settle
<1>11. ASSUME NEW t \in Task, Raise(t) PROVE TypeOK'
  BY <1>11 DEF Raise
<1>12. ASSUME NEW x \in Process, Crash(x) PROVE TypeOK'
  BY <1>12 DEF Crash
<1>13. CASE UNCHANGED vars
  BY <1>13 DEF vars
<1> QED
  BY <1>1, <1>2, <1>3, <1>4, <1>5, <1>6, <1>7, <1>8, <1>9, <1>10, <1>11, <1>12, <1>13 DEF Next

\* The variables keep their types (all of process_successful_payment and its callers).
THEOREM Typing == Spec => []TypeOK
BY InitTypeOK, NextTypeOK, PTL DEF Spec

\* A payment's counters are numbers.
LEMMA Counters ==
    ASSUME TypeOK, NEW p \in Payment
    PROVE  /\ activations[p]["backend"] \in Nat /\ activations[p]["worker"] \in Nat
           /\ Committed(p) \in Nat /\ announced[p] \in Nat
<1>1. activations[p] \in [Process -> Nat] /\ announced[p] \in Nat
  BY DEF TypeOK
<1>2. activations[p]["backend"] \in Nat /\ activations[p]["worker"] \in Nat
  BY <1>1 DEF Process
<1> QED BY <1>1, <1>2 DEF Committed

-----------------------------------------------------------------------------

\* At most one task of a process is past its lock.
LEMMA NextSerial == TypeOK /\ SettlementIsSerial /\ [Next]_vars => SettlementIsSerial'
<1> SUFFICES ASSUME TypeOK, SettlementIsSerial, [Next]_vars, NEW u \in Task, pc'[u] \in Inside
             PROVE  lock'[ProcessOf(u)] = u
  BY DEF SettlementIsSerial
<1> USE TasksAssumption DEF TypeOK, SettlementIsSerial, Goto, Outside, Inside, Process, ProcessOf
<1>1. ASSUME NEW p \in Payment, Decide(p) \/ MergeUser(p) \/ DedupeExpires(p)
      PROVE lock'[ProcessOf(u)] = u
  BY <1>1 DEF Decide, MergeUser, DedupeExpires
<1>2. ASSUME NEW r \in Request, (\E p \in Payment : Post(r, p)) \/ Dedupe(r) \/ Push(r)
      PROVE lock'[ProcessOf(u)] = u
  <2>1. lock' = lock /\ r \in Task
    BY <1>2 DEF Post, Dedupe, Push, Task
  <2>2. \E l \in Outside : pc' = [pc EXCEPT ![r] = l]
    BY <1>2 DEF Post, Dedupe, Push
  <2> QED BY <2>1, <2>2
<1>3. ASSUME NEW c \in Consumer, Pop(c) PROVE lock'[ProcessOf(u)] = u
  <2>1. lock' = lock /\ c \in Task
    BY <1>3 DEF Pop, Task
  <2>2. pc' = pc \/ \E l \in Outside : pc' = [pc EXCEPT ![c] = l]
    BY <1>3 DEF Pop
  <2> QED BY <2>1, <2>2
<1>4. ASSUME NEW t \in Poller, (\E p \in Payment : StartPoll(t, p)) \/ AskProvider(t)
      PROVE lock'[ProcessOf(u)] = u
  <2>1. lock' = lock /\ t \in Task
    BY <1>4 DEF StartPoll, AskProvider, Task
  <2>2. \E l \in Outside : pc' = [pc EXCEPT ![t] = l]
    BY <1>4 DEF StartPoll, AskProvider
  <2> QED BY <2>1, <2>2
<1>5. ASSUME NEW t \in Task, AcquireLock(t) PROVE lock'[ProcessOf(u)] = u
  <2>1. /\ lock[ProcessOf(t)] = Free /\ lock' = [lock EXCEPT ![ProcessOf(t)] = t]
        /\ pc' = [pc EXCEPT ![t] = "load"]
    BY <1>5 DEF AcquireLock
  <2>2. CASE u = t
    BY <2>1, <2>2
  <2>3. CASE u # t
    <3>1. lock[ProcessOf(u)] = u
      BY <2>1, <2>3
    <3> QED BY <2>1, <3>1
  <2> QED BY <2>2, <2>3
<1>6. ASSUME NEW t \in Task, Release(t) PROVE lock'[ProcessOf(u)] = u
  <2>1. pc' = [pc EXCEPT ![t] = "idle"] /\ lock' = [lock EXCEPT ![ProcessOf(t)] = Free]
    BY <1>6 DEF Release
  <2>2. lock[ProcessOf(t)] = t
    BY <1>6 DEF Release
  <2>3. u # t /\ lock[ProcessOf(u)] = u
    BY <2>1
  <2> QED BY <2>1, <2>2, <2>3
<1>7. ASSUME NEW t \in Task,
             Load(t) \/ CheckUser(t) \/ FailOrphan(t) \/ Activate(t) \/ SendReceipt(t)
               \/ Commit(t) \/ Announce(t) \/ Cancel(t) \/ Raise(t)
      PROVE lock'[ProcessOf(u)] = u
  <2>1. lock' = lock /\ pc[t] \in Inside /\ \E l \in Inside : pc' = [pc EXCEPT ![t] = l]
    <3>1. CASE Load(t) \/ CheckUser(t) \/ FailOrphan(t) \/ Cancel(t)
      BY <3>1 DEF Load, CheckUser, FailOrphan, Cancel
    <3>2. CASE Activate(t) \/ SendReceipt(t) \/ Commit(t)
      BY <3>2 DEF Activate, SendReceipt, Commit
    <3>3. CASE Announce(t) \/ Raise(t)
      BY <3>3 DEF Announce, Raise
    <3> QED BY <1>7, <3>1, <3>2, <3>3
  <2> QED BY <2>1
<1>8. ASSUME NEW x \in Process, Crash(x) PROVE lock'[ProcessOf(u)] = u
  BY <1>8 DEF Crash
<1>9. CASE UNCHANGED vars
  BY <1>9 DEF vars
<1> QED
  BY <1>1, <1>2, <1>3, <1>4, <1>5, <1>6, <1>7, <1>8, <1>9 DEF Next, Settle

LEMMA InitSerial == Init => SettlementIsSerial
BY DEF Init, SettlementIsSerial, Inside

\* payment_processing_lock is held from the duplicate check to the announcement.
THEOREM Serial == Spec => []SettlementIsSerial
BY InitSerial, NextSerial, Typing, PTL DEF Spec

-----------------------------------------------------------------------------

\* What a task knows of the provider's verdict stays true: a verdict is final, and
\* the events in the queue are of decided payments.
LEMMA NextKnowOutcome == TypeOK /\ TasksKnowOutcome /\ [Next]_vars => TasksKnowOutcome'
<1> SUFFICES ASSUME TypeOK, TasksKnowOutcome, [Next]_vars PROVE TasksKnowOutcome'
  OBVIOUS
<1> USE KindsAreTasks DEF TypeOK, TasksKnowOutcome, Goto
<1>1. ASSUME NEW p \in Payment, Decide(p) PROVE TasksKnowOutcome'
  <2>1. \A q \in Payment : outcome[q] # "open" => outcome'[q] = outcome[q]
    BY <1>1 DEF Decide
  <2>2. \A n \in 1 .. Len(queue) : queue[n] \in Payment
    OBVIOUS
  <2>3. \A t \in Task : pay[t] \in Payment
    OBVIOUS
  <2> QED BY <1>1, <2>1, <2>2, <2>3 DEF Decide
<1>2. ASSUME NEW p \in Payment, MergeUser(p) \/ DedupeExpires(p) PROVE TasksKnowOutcome'
  BY <1>2 DEF MergeUser, DedupeExpires
<1>3. ASSUME NEW r \in Request, NEW p \in Payment, Post(r, p) PROVE TasksKnowOutcome'
  BY <1>3 DEF Post
<1>4. ASSUME NEW r \in Request, Dedupe(r) PROVE TasksKnowOutcome'
  BY <1>4 DEF Dedupe
<1>5. ASSUME NEW r \in Request, Push(r) PROVE TasksKnowOutcome'
  <2>1. outcome[pay[r]] # "open"
    BY <1>5 DEF Push
  <2>2. queue' \in {queue, Append(queue, pay[r])}
    BY <1>5 DEF Push
  <2>3. \A n \in 1 .. Len(queue') : outcome'[queue'[n]] # "open"
    <3>1. outcome' = outcome
      BY <1>5 DEF Push
    <3>2. pay[r] \in Payment /\ Len(Append(queue, pay[r])) = Len(queue) + 1
      OBVIOUS
    <3>3. \A n \in 1 .. Len(queue) + 1 :
             Append(queue, pay[r])[n] = IF n = Len(queue) + 1 THEN pay[r] ELSE queue[n]
      BY <3>2
    <3>4. \A n \in 1 .. Len(queue) : outcome[queue[n]] # "open"
      OBVIOUS
    <3>5. CASE queue' = queue
      BY <3>1, <3>4, <3>5
    <3>6. CASE queue' = Append(queue, pay[r])
      BY <2>1, <3>1, <3>2, <3>3, <3>4, <3>6
    <3> QED BY <2>2, <3>5, <3>6
  <2>4. pc' \in {[pc EXCEPT ![r] = "idle"], [pc EXCEPT ![r] = "lock"]}
    BY <1>5 DEF Push
  <2> QED BY <1>5, <2>1, <2>3, <2>4 DEF Push
<1>6. ASSUME NEW c \in Consumer, Pop(c) PROVE TasksKnowOutcome'
  <2>1. queue' = Tail(queue) /\ queue # <<>> /\ outcome' = outcome
    BY <1>6 DEF Pop
  <2>2. \A n \in 1 .. Len(Tail(queue)) : n + 1 \in 1 .. Len(queue) /\ Tail(queue)[n] = queue[n + 1]
    BY <2>1
  <2>3. outcome[Head(queue)] # "open"
    BY <2>1
  <2>4. \/ pc' = pc /\ pay' = pay
        \/ pc' = [pc EXCEPT ![c] = "lock"] /\ pay' = [pay EXCEPT ![c] = Head(queue)]
    BY <1>6 DEF Pop
  <2>5. \A n \in 1 .. Len(queue') : outcome'[queue'[n]] # "open"
    BY <2>1, <2>2
  <2> QED BY <2>1, <2>3, <2>4, <2>5
<1>7. ASSUME NEW t \in Poller, (\E p \in Payment : StartPoll(t, p)) \/ AskProvider(t)
      PROVE TasksKnowOutcome'
  <2>1. CASE \E p \in Payment : StartPoll(t, p)
    BY <2>1 DEF StartPoll
  <2>2. CASE AskProvider(t)
    BY <2>2 DEF AskProvider
  <2> QED BY <1>7, <2>1, <2>2
<1>8. ASSUME NEW t \in Task, Settle(t) \/ Raise(t) PROVE TasksKnowOutcome'
  <2>1. CASE Load(t)
    <3>1. outcome[pay[t]] \in {"succeeded", "canceled"}
      BY <2>1 DEF Load, Outcome
    <3> QED BY <2>1, <3>1 DEF Load
  <2>2. CASE AcquireLock(t) \/ CheckUser(t) \/ FailOrphan(t) \/ Activate(t) \/ SendReceipt(t)
    <3>1. UNCHANGED <<outcome, queue, pay>>
      BY <2>2 DEF AcquireLock, CheckUser, FailOrphan, Activate, SendReceipt
    <3>2. \/ pc[t] = "lock" /\ pc' = [pc EXCEPT ![t] = "load"]
          \/ pc[t] = "user" /\ pc' = [pc EXCEPT ![t] = "orphan"]
          \/ pc[t] = "user" /\ pc' = [pc EXCEPT ![t] = "activate"]
          \/ pc[t] = "orphan" /\ pc' = [pc EXCEPT ![t] = "done"]
          \/ pc[t] = "activate" /\ pc' = [pc EXCEPT ![t] = "failed"]
          \/ pc[t] = "activate" /\ pc' = [pc EXCEPT ![t] = "receipt"]
          \/ pc[t] = "receipt" /\ pc' = [pc EXCEPT ![t] = "commit"]
      BY <2>2 DEF AcquireLock, CheckUser, FailOrphan, Activate, SendReceipt
    <3>3. \A u \in Task : u # t => pc'[u] = pc[u]
      BY <3>2
    <3>4. pc'[t] \in {"load", "orphan", "activate", "done", "failed", "receipt", "commit"}
      BY <3>2
    <3>5. pc'[t] = "load" => outcome[pay[t]] # "open"
      BY <3>2
    <3>6. pc'[t] \in {"orphan", "activate", "receipt", "commit"} => outcome[pay[t]] = "succeeded"
      BY <3>2
    <3> QED BY <3>1, <3>3, <3>4, <3>5, <3>6
  <2>3. CASE Commit(t) \/ Announce(t) \/ Cancel(t) \/ Release(t) \/ Raise(t)
    <3>1. UNCHANGED <<outcome, queue, pay>>
      BY <2>3 DEF Commit, Announce, Cancel, Release, Raise
    <3>2. \E l \in {"announce", "done", "idle", "failed"} : pc' = [pc EXCEPT ![t] = l]
      BY <2>3 DEF Commit, Announce, Cancel, Release, Raise
    <3> QED BY <3>1, <3>2
  <2> QED BY <1>8, <2>1, <2>2, <2>3 DEF Settle
<1>9. ASSUME NEW x \in Process, Crash(x) PROVE TasksKnowOutcome'
  BY <1>9 DEF Crash
<1>10. CASE UNCHANGED vars
  BY <1>10 DEF vars
<1> QED
  BY <1>1, <1>2, <1>3, <1>4, <1>5, <1>6, <1>7, <1>8, <1>9, <1>10 DEF Next

LEMMA InitKnowOutcome == Init => TasksKnowOutcome
BY DEF Init, TasksKnowOutcome

THEOREM KnowOutcome == Spec => []TasksKnowOutcome
BY InitKnowOutcome, NextKnowOutcome, Typing, PTL DEF Spec

-----------------------------------------------------------------------------

\* Only a commit changes the activations; only a commit, FailOrphan and Cancel
\* change a status.
LEMMA DatabaseStep ==
    ASSUME [Next]_vars
    PROVE  \/ UNCHANGED <<status, activations>>
           \/ \E t \in Task : Commit(t)
           \/ \E t \in Task : FailOrphan(t) \/ Cancel(t)
<1>1. ASSUME NEW p \in Payment, Decide(p) \/ MergeUser(p) \/ DedupeExpires(p)
      PROVE UNCHANGED <<status, activations>>
  BY <1>1 DEF Decide, MergeUser, DedupeExpires
<1>2. ASSUME NEW r \in Request, (\E p \in Payment : Post(r, p)) \/ Dedupe(r) \/ Push(r)
      PROVE UNCHANGED <<status, activations>>
  BY <1>2 DEF Post, Dedupe, Push
<1>3. ASSUME NEW c \in Consumer, Pop(c) PROVE UNCHANGED <<status, activations>>
  BY <1>3 DEF Pop
<1>4. ASSUME NEW t \in Poller, (\E p \in Payment : StartPoll(t, p)) \/ AskProvider(t)
      PROVE UNCHANGED <<status, activations>>
  BY <1>4 DEF StartPoll, AskProvider
<1>5. ASSUME NEW t \in Task,
             \/ AcquireLock(t) \/ Load(t) \/ CheckUser(t) \/ Activate(t) \/ SendReceipt(t)
             \/ Announce(t) \/ Release(t) \/ Raise(t)
      PROVE UNCHANGED <<status, activations>>
  BY <1>5 DEF AcquireLock, Load, CheckUser, Activate, SendReceipt, Announce, Release, Raise
<1>6. ASSUME NEW x \in Process, Crash(x) PROVE UNCHANGED <<status, activations>>
  BY <1>6 DEF Crash
<1>7. CASE UNCHANGED vars
  BY <1>7 DEF vars
<1> QED
  BY <1>1, <1>2, <1>3, <1>4, <1>5, <1>6, <1>7 DEF Next, Settle

\* Only the provider changes its verdict.
LEMMA OutcomeStep ==
    ASSUME [Next]_vars
    PROVE  UNCHANGED outcome \/ \E p \in Payment : Decide(p)
<1>1. ASSUME NEW q \in Payment, MergeUser(q) \/ DedupeExpires(q) PROVE outcome' = outcome
  BY <1>1 DEF MergeUser, DedupeExpires
<1>2. ASSUME NEW r \in Request, (\E q \in Payment : Post(r, q)) \/ Dedupe(r) \/ Push(r)
      PROVE outcome' = outcome
  BY <1>2 DEF Post, Dedupe, Push
<1>3. ASSUME NEW c \in Consumer, Pop(c) PROVE outcome' = outcome
  BY <1>3 DEF Pop
<1>4. ASSUME NEW t \in Poller, (\E q \in Payment : StartPoll(t, q)) \/ AskProvider(t)
      PROVE outcome' = outcome
  BY <1>4 DEF StartPoll, AskProvider
<1>5. ASSUME NEW t \in Task, Settle(t) \/ Raise(t) PROVE outcome' = outcome
  BY <1>5 DEF Settle, AcquireLock, Load, CheckUser, FailOrphan, Activate, SendReceipt, Commit,
              Announce, Cancel, Release, Raise
<1>6. ASSUME NEW x \in Process, Crash(x) PROVE outcome' = outcome
  BY <1>6 DEF Crash
<1>7. CASE UNCHANGED vars
  BY <1>7 DEF vars
<1> QED
  BY <1>1, <1>2, <1>3, <1>4, <1>5, <1>6, <1>7 DEF Next

\* The provider's verdict is final.
LEMMA OutcomeFinal ==
    ASSUME TypeOK, [Next]_vars, NEW p \in Payment, outcome[p] # "open"
    PROVE  outcome'[p] = outcome[p]
BY OutcomeStep DEF Decide, TypeOK

\* A commit is of a paid payment and adds one activation to it.
LEMMA CommitStep ==
    ASSUME TypeOK, TasksKnowOutcome, NEW t \in Task, Commit(t)
    PROVE  /\ pay[t] \in Payment /\ outcome[pay[t]] = "succeeded" /\ outcome' = outcome
           /\ status' = [status EXCEPT ![pay[t]] = "succeeded"]
           /\ Committed(pay[t])' = Committed(pay[t]) + 1 /\ pay' = pay
           /\ \A p \in Payment \ {pay[t]} : Committed(p)' = Committed(p)
           /\ \A p \in Payment : Committed(p) \in Nat
<1>1. /\ pc[t] = "commit" /\ outcome' = outcome /\ pay[t] \in Payment
      /\ status' = [status EXCEPT ![pay[t]] = "succeeded"]
      /\ activations' = [activations EXCEPT ![pay[t]][ProcessOf(t)] = @ + 1]
  BY DEF Commit, TypeOK, Goto
<1>2. outcome[pay[t]] = "succeeded"
  BY <1>1 DEF TasksKnowOutcome
<1>3. \A p \in Payment : activations[p]["backend"] \in Nat /\ activations[p]["worker"] \in Nat
  BY Counters
<1>4. ProcessOf(t) \in {"backend", "worker"}
  BY DEF ProcessOf
<1>5. \A p \in Payment \ {pay[t]} : activations'[p] = activations[p]
  BY <1>1 DEF TypeOK
<1>6. activations'[pay[t]] = [activations[pay[t]] EXCEPT ![ProcessOf(t)] = @ + 1]
  BY <1>1 DEF TypeOK
<1>7. activations[pay[t]] \in [{"backend", "worker"} -> Nat]
  BY <1>1 DEF TypeOK, Process
<1>8. Committed(pay[t])' = Committed(pay[t]) + 1
  <2> DEFINE a == activations[pay[t]]
  <2> DEFINE b == activations'[pay[t]]
  <2>0. pay'[t] = pay[t]
    BY DEF Commit
  <2>1. CASE ProcessOf(t) = "backend"
    <3>1. b["backend"] = a["backend"] + 1 /\ b["worker"] = a["worker"]
      BY <1>6, <1>7, <2>1
    <3> QED BY <1>1, <1>3, <2>0, <3>1 DEF Committed
  <2>2. CASE ProcessOf(t) = "worker"
    <3>1. b["backend"] = a["backend"] /\ b["worker"] = a["worker"] + 1
      BY <1>6, <1>7, <2>2
    <3> QED BY <1>1, <1>3, <2>0, <3>1 DEF Committed
  <2> QED BY <1>4, <2>1, <2>2
<1>9. \A p \in Payment \ {pay[t]} : Committed(p)' = Committed(p)
  BY <1>5 DEF Committed
<1>10. \A p \in Payment : Committed(p) \in Nat
  BY <1>3 DEF Committed
<1>11. pay' = pay
  BY DEF Commit
<1> QED
  BY <1>1, <1>2, <1>8, <1>9, <1>10, <1>11

\* FailOrphan and Cancel write a status other than succeeded.
LEMMA FailureStep ==
    ASSUME TypeOK, NEW t \in Task, FailOrphan(t) \/ Cancel(t)
    PROVE  /\ UNCHANGED <<activations, outcome, orphaned>>
           /\ \/ status' = status
              \/ /\ FailOrphan(t)
                 /\ status' = [status EXCEPT ![pay[t]] = "failed_user_not_found"]
              \/ Cancel(t) /\ status' = [status EXCEPT ![pay[t]] = "canceled"]
BY DEF FailOrphan, Cancel, WriteStatus

-----------------------------------------------------------------------------

LEMMA NextPaid == TypeOK /\ TasksKnowOutcome /\ ActivatedWasPaid /\ [Next]_vars => ActivatedWasPaid'
<1> SUFFICES ASSUME TypeOK, TasksKnowOutcome, ActivatedWasPaid, [Next]_vars,
                    NEW p \in Payment, Committed(p)' > 0
             PROVE  outcome'[p] = "succeeded"
  BY DEF ActivatedWasPaid
<1>1. CASE UNCHANGED <<status, activations>>
  BY <1>1, OutcomeFinal DEF ActivatedWasPaid, Committed
<1>2. ASSUME NEW t \in Task, Commit(t) PROVE outcome'[p] = "succeeded"
  BY <1>2, CommitStep DEF ActivatedWasPaid
<1>3. ASSUME NEW t \in Task, FailOrphan(t) \/ Cancel(t) PROVE outcome'[p] = "succeeded"
  BY <1>3, FailureStep DEF ActivatedWasPaid, Committed
<1> QED
  BY <1>1, <1>2, <1>3, DatabaseStep

LEMMA NextSucceeded ==
    TypeOK /\ TasksKnowOutcome /\ SucceededMeansActivated /\ [Next]_vars => SucceededMeansActivated'
<1> SUFFICES ASSUME TypeOK, TasksKnowOutcome, SucceededMeansActivated, [Next]_vars,
                    NEW p \in Payment, status'[p] = "succeeded"
             PROVE  outcome'[p] = "succeeded" /\ Committed(p)' > 0
  BY DEF SucceededMeansActivated
<1>1. CASE UNCHANGED <<status, activations>>
  BY <1>1, OutcomeFinal DEF SucceededMeansActivated, Committed
<1>2. ASSUME NEW t \in Task, Commit(t) PROVE outcome'[p] = "succeeded" /\ Committed(p)' > 0
  <2>1. /\ pay[t] \in Payment /\ outcome[pay[t]] = "succeeded" /\ outcome' = outcome
        /\ status' = [status EXCEPT ![pay[t]] = "succeeded"]
        /\ Committed(pay[t])' = Committed(pay[t]) + 1
        /\ \A q \in Payment \ {pay[t]} : Committed(q)' = Committed(q)
        /\ \A q \in Payment : Committed(q) \in Nat
    BY <1>2, CommitStep
  <2>2. status \in [Payment -> Status] /\ pay'[t] = pay[t]
    BY <1>2 DEF TypeOK, Commit
  <2>3. CASE p = pay[t]
    BY <2>1, <2>2, <2>3 DEF Committed
  <2>4. CASE p # pay[t]
    BY <2>1, <2>2, <2>4 DEF SucceededMeansActivated
  <2> QED BY <2>3, <2>4
<1>3. ASSUME NEW t \in Task, FailOrphan(t) \/ Cancel(t)
      PROVE  outcome'[p] = "succeeded" /\ Committed(p)' > 0
  BY <1>3, FailureStep DEF SucceededMeansActivated, Committed, TypeOK
<1> QED
  BY <1>1, <1>2, <1>3, DatabaseStep

LEMMA InitPaid == Init => ActivatedWasPaid /\ SucceededMeansActivated
<1> SUFFICES ASSUME Init, NEW p \in Payment PROVE status[p] = "pending" /\ Committed(p) = 0
  BY DEF ActivatedWasPaid, SucceededMeansActivated
<1>1. status[p] = "pending" /\ activations[p] = [x \in Process |-> 0]
  BY DEF Init
<1> QED BY <1>1 DEF Committed, Process

\* Nothing is activated that YooKassa did not report paid (process_successful_payment).
THEOREM Paid == Spec => []ActivatedWasPaid
BY InitPaid, NextPaid, Typing, KnowOutcome, PTL DEF Spec

\* A payment marked succeeded was paid and has its activation, across exceptions,
\* crashes and merges: the status and the activation share one transaction.
THEOREM SucceededIsActivated == Spec => []SucceededMeansActivated
BY InitPaid, NextSucceeded, Typing, KnowOutcome, PTL DEF Spec

-----------------------------------------------------------------------------

\* The steps that leave the committing and the announcing tasks where they are.
Quiet ==
    /\ UNCHANGED <<announced, receipts, activations, faults>>
    /\ \A u \in Task : pc[u] \in {"commit", "announce"} \/ pc'[u] \in {"commit", "announce"}
          => pc'[u] = pc[u] /\ pay'[u] = pay[u]

LEMMA QuietStep ==
    ASSUME TypeOK, [Next]_vars
    PROVE  \/ Quiet
           \/ \E t \in Task : SendReceipt(t) \/ Commit(t) \/ Announce(t) \/ Raise(t)
           \/ \E x \in Process : Crash(x)
<1> USE KindsAreTasks DEF Quiet
<1>0. pc \in [Task -> Outside \cup Inside] /\ pay \in [Task -> Payment]
  BY DEF TypeOK
<1>1. ASSUME NEW p \in Payment, Decide(p) \/ MergeUser(p) \/ DedupeExpires(p) PROVE Quiet
  BY <1>1 DEF Decide, MergeUser, DedupeExpires
<1>2. ASSUME NEW r \in Request, NEW p \in Payment, Post(r, p) PROVE Quiet
  BY <1>0, <1>2 DEF Post, Goto
<1>3. ASSUME NEW r \in Request, Dedupe(r) \/ Push(r) PROVE Quiet
  <2>1. UNCHANGED <<announced, receipts, activations, faults, pay>>
    BY <1>3 DEF Dedupe, Push
  <2>2. \E l \in {"push", "idle", "lock"} : pc' = [pc EXCEPT ![r] = l]
    BY <1>3 DEF Dedupe, Push
  <2>3. pc[r] \in {"dedupe", "push"}
    BY <1>3 DEF Dedupe, Push
  <2> QED BY <1>0, <2>1, <2>2, <2>3
<1>4. ASSUME NEW c \in Consumer, Pop(c) PROVE Quiet
  <2>1. UNCHANGED <<announced, receipts, activations, faults>> /\ pc[c] = "idle"
    BY <1>4 DEF Pop
  <2>2. \/ pc' = pc /\ pay' = pay
        \/ pc' = [pc EXCEPT ![c] = "lock"] /\ pay' = [pay EXCEPT ![c] = Head(queue)]
    BY <1>4 DEF Pop
  <2> QED BY <1>0, <2>1, <2>2
<1>5. ASSUME NEW t \in Poller, (\E p \in Payment : StartPoll(t, p)) \/ AskProvider(t) PROVE Quiet
  BY <1>0, <1>5 DEF StartPoll, AskProvider, Goto
<1>6. ASSUME NEW t \in Task,
             \/ AcquireLock(t) \/ Load(t) \/ CheckUser(t) \/ FailOrphan(t) \/ Activate(t)
             \/ Cancel(t) \/ Release(t)
      PROVE Quiet
  <2>1. UNCHANGED <<announced, receipts, activations, faults, pay>>
    BY <1>6 DEF AcquireLock, Load, CheckUser, FailOrphan, Activate, Cancel, Release
  <2>2. \E l \in {"load", "cancel", "done", "user", "orphan", "activate", "failed", "receipt",
                  "idle"} : pc' = [pc EXCEPT ![t] = l]
    <3>1. CASE AcquireLock(t) \/ CheckUser(t) \/ FailOrphan(t)
      BY <3>1 DEF AcquireLock, CheckUser, FailOrphan, Goto
    <3>2. CASE Load(t)
      BY <3>2 DEF Load
    <3>3. CASE Activate(t) \/ Cancel(t) \/ Release(t)
      BY <3>3 DEF Activate, Cancel, Release, Goto
    <3> QED BY <1>6, <3>1, <3>2, <3>3
  <2>3. pc[t] \notin {"commit", "announce"}
    BY <1>6 DEF AcquireLock, Load, CheckUser, FailOrphan, Activate, Cancel, Release, Goto
  <2> QED BY <1>0, <2>1, <2>2, <2>3
<1>7. CASE UNCHANGED vars
  BY <1>7 DEF vars
<1> QED
  BY <1>1, <1>2, <1>3, <1>4, <1>5, <1>6, <1>7 DEF Next, Settle

\* A task inside is alone in its process.
LEMMA Alone ==
    ASSUME SettlementIsSerial, NEW t \in Task, pc[t] \in Inside,
           NEW u \in Task, u # t, ProcessOf(u) = ProcessOf(t)
    PROVE  pc[u] \notin Inside
BY DEF SettlementIsSerial

LEMMA AtValue == \A x, l, p : At(x, l, p) \in {0, 1}
BY DEF At

-----------------------------------------------------------------------------

LEMMA NextOwed ==
    TypeOK /\ SettlementIsSerial /\ TasksKnowOutcome /\ AnnouncementsOwed /\ [Next]_vars
      => AnnouncementsOwed'
<1> SUFFICES ASSUME TypeOK, SettlementIsSerial, TasksKnowOutcome, AnnouncementsOwed, [Next]_vars,
                    NEW p \in Payment
             PROVE  announced'[p] + At("backend", "announce", p)' + At("worker", "announce", p)'
                      <= Committed(p)'
  BY DEF AnnouncementsOwed
<1> DEFINE b == At("backend", "announce", p)
<1> DEFINE w == At("worker", "announce", p)
<1> DEFINE Goal == announced'[p] + b' + w' <= Committed(p)'
<1>1. announced[p] + b + w <= Committed(p)
  BY DEF AnnouncementsOwed
<1>2. b \in {0, 1} /\ w \in {0, 1} /\ b' \in {0, 1} /\ w' \in {0, 1}
  BY DEF At
<1>3. announced[p] \in Nat /\ Committed(p) \in Nat
  BY Counters
<1>4. pc \in [Task -> Outside \cup Inside] /\ \A t \in Task : ProcessOf(t) \in Process
  BY Names DEF TypeOK
<1>5. CASE Quiet
  <2>1. b' = b /\ w' = w
    BY <1>5 DEF Quiet, At
  <2>2. announced' = announced /\ Committed(p)' = Committed(p)
    BY <1>5 DEF Quiet, Committed
  <2> QED BY <1>1, <2>1, <2>2
<1>6. ASSUME NEW t \in Task, SendReceipt(t) \/ Raise(t) PROVE Goal
  <2>1. UNCHANGED <<announced, activations, pay>>
    BY <1>6 DEF SendReceipt, Raise
  <2>2. \A u \in Task : (pc'[u] = "announce") <=> (pc[u] = "announce")
    BY <1>4, <1>6 DEF SendReceipt, Raise, Goto
  <2>3. b' = b /\ w' = w
    BY <2>1, <2>2 DEF At
  <2>4. Committed(p)' = Committed(p)
    BY <2>1 DEF Committed
  <2> QED BY <1>1, <2>1, <2>3, <2>4
<1>7. ASSUME NEW t \in Task, Commit(t) PROVE Goal
  <2>1. /\ pc[t] = "commit" /\ pc' = [pc EXCEPT ![t] = "announce"]
        /\ UNCHANGED <<announced, pay>>
    BY <1>7 DEF Commit, Goto
  <2>2. /\ \A q \in Payment \ {pay[t]} : Committed(q)' = Committed(q)
        /\ Committed(pay[t])' = Committed(pay[t]) + 1
    BY <1>7, CommitStep
  <2>3. CASE p # pay[t]
    <3>1. b' = b /\ w' = w
      BY <1>4, <2>1, <2>3 DEF At
    <3> QED BY <1>1, <2>1, <2>2, <2>3, <3>1
  <2>4. CASE p = pay[t]
    <3>1. \A u \in Task : ProcessOf(u) = ProcessOf(t) => pc[u] # "announce"
      BY <2>1, Alone DEF Inside
    <3>2. CASE ProcessOf(t) = "backend"
      <4>1. b = 0 /\ w' = w
        BY <1>4, <2>1, <3>1, <3>2 DEF At
      <4> QED BY <1>1, <1>2, <1>3, <2>1, <2>2, <2>4, <4>1 DEF Committed
    <3>3. CASE ProcessOf(t) = "worker"
      <4>1. w = 0 /\ b' = b
        BY <1>4, <2>1, <3>1, <3>3 DEF At
      <4> QED BY <1>1, <1>2, <1>3, <2>1, <2>2, <2>4, <4>1 DEF Committed
    <3> QED BY <1>4, <3>2, <3>3 DEF Process
  <2> QED BY <2>3, <2>4
<1>8. ASSUME NEW t \in Task, Announce(t) PROVE Goal
  <2>1. /\ pc[t] = "announce" /\ pc' = [pc EXCEPT ![t] = "done"]
        /\ announced' = [announced EXCEPT ![pay[t]] = @ + 1]
        /\ UNCHANGED <<activations, pay>>
    BY <1>8 DEF Announce, Goto
  <2>2. Committed(p)' = Committed(p) /\ announced \in [Payment -> Nat]
    BY <2>1 DEF Committed, TypeOK
  <2>3. CASE p # pay[t]
    <3>1. b' = b /\ w' = w
      BY <1>4, <2>1, <2>3 DEF At
    <3> QED BY <1>1, <2>1, <2>2, <2>3, <3>1
  <2>4. CASE p = pay[t]
    <3>1. \A u \in Task : ProcessOf(u) = ProcessOf(t) => pc'[u] # "announce"
      BY <1>4, <2>1, Alone DEF Inside
    <3>2. CASE ProcessOf(t) = "backend"
      <4>1. b = 1 /\ b' = 0 /\ w' = w
        BY <1>4, <2>1, <2>4, <3>1, <3>2 DEF At
      <4> QED BY <1>1, <1>2, <1>3, <2>1, <2>2, <2>4, <4>1
    <3>3. CASE ProcessOf(t) = "worker"
      <4>1. w = 1 /\ w' = 0 /\ b' = b
        BY <1>4, <2>1, <2>4, <3>1, <3>3 DEF At
      <4> QED BY <1>1, <1>2, <1>3, <2>1, <2>2, <2>4, <4>1
    <3> QED BY <1>4, <3>2, <3>3 DEF Process
  <2> QED BY <2>3, <2>4
<1>9. ASSUME NEW x \in Process, Crash(x) PROVE Goal
  <2>1. UNCHANGED <<announced, activations, pay>>
    BY <1>9 DEF Crash
  <2>2. \A u \in Task : pc'[u] = "announce" => pc[u] = "announce"
    BY <1>9 DEF Crash
  <2>3. b' <= b /\ w' <= w
    BY <2>1, <2>2 DEF At
  <2>4. Committed(p)' = Committed(p)
    BY <2>1 DEF Committed
  <2> QED BY <1>1, <1>2, <1>3, <2>1, <2>3, <2>4
<1> QED
  BY <1>5, <1>6, <1>7, <1>8, <1>9, QuietStep

LEMMA InitOwed == Init => AnnouncementsOwed
<1> SUFFICES ASSUME Init, NEW p \in Payment
             PROVE  announced[p] + At("backend", "announce", p) + At("worker", "announce", p)
                      <= Committed(p)
  BY DEF AnnouncementsOwed
<1>1. announced[p] = 0 /\ activations[p] = [x \in Process |-> 0] /\ \A t \in Task : pc[t] = "idle"
  BY DEF Init
<1>2. At("backend", "announce", p) = 0 /\ At("worker", "announce", p) = 0
  BY <1>1 DEF At
<1>3. Committed(p) = 0
  BY <1>1 DEF Committed, Process
<1> QED BY <1>1, <1>2, <1>3

THEOREM Owed == Spec => []AnnouncementsOwed
BY InitOwed, NextOwed, Typing, Serial, KnowOutcome, PTL DEF Spec

LEMMA OwedImpliesCommitted == TypeOK /\ AnnouncementsOwed => AnnouncedWasCommitted
<1> SUFFICES ASSUME TypeOK, AnnouncementsOwed, NEW p \in Payment
             PROVE  announced[p] <= Committed(p)
  BY DEF AnnouncedWasCommitted
<1>1. announced[p] + At("backend", "announce", p) + At("worker", "announce", p) <= Committed(p)
  BY DEF AnnouncementsOwed
<1>2. announced[p] \in Nat /\ Committed(p) \in Nat
  BY Counters
<1>3. At("backend", "announce", p) \in {0, 1} /\ At("worker", "announce", p) \in {0, 1}
  BY DEF At
<1> QED BY <1>1, <1>2, <1>3

\* payment.succeeded is never emitted more often than activations were committed:
\* emit_yookassa_success_events follows the commit, and one task at a time is there.
THEOREM AnnouncedIsCommitted == Spec => []AnnouncedWasCommitted
BY Owed, Typing, OwedImpliesCommitted, PTL

-----------------------------------------------------------------------------

\* A receipt is covered by a commit, by a fault, or by the one settlement of its
\* process that has sent it and not committed yet.
LEMMA NextReceipts ==
    TypeOK /\ SettlementIsSerial /\ TasksKnowOutcome /\ ReceiptsAccounted /\ [Next]_vars
        => ReceiptsAccounted'
<1> SUFFICES ASSUME TypeOK, SettlementIsSerial, TasksKnowOutcome, ReceiptsAccounted, [Next]_vars,
                    NEW p \in Payment
             PROVE  receipts'[p] <= Committed(p)' + faults' + At("backend", "commit", p)'
                                      + At("worker", "commit", p)'
  BY DEF ReceiptsAccounted
<1> DEFINE b == At("backend", "commit", p)
<1> DEFINE w == At("worker", "commit", p)
<1> DEFINE Goal == receipts'[p] <= Committed(p)' + faults' + b' + w'
<1>1. receipts[p] <= Committed(p) + faults + b + w
  BY DEF ReceiptsAccounted
<1>2. b \in {0, 1} /\ w \in {0, 1} /\ b' \in {0, 1} /\ w' \in {0, 1}
  BY DEF At
<1>3. receipts[p] \in Nat /\ Committed(p) \in Nat /\ faults \in Nat
  BY Counters DEF TypeOK
<1>4. /\ pc \in [Task -> Outside \cup Inside] /\ receipts \in [Payment -> Nat]
      /\ \A t \in Task : ProcessOf(t) \in {"backend", "worker"}
  BY Names DEF TypeOK, Process
<1>5. CASE Quiet
  <2>1. b' = b /\ w' = w
    BY <1>5 DEF Quiet, At
  <2>2. receipts' = receipts /\ faults' = faults /\ Committed(p)' = Committed(p)
    BY <1>5 DEF Quiet, Committed
  <2> QED BY <1>1, <2>1, <2>2
<1>6. ASSUME NEW t \in Task, SendReceipt(t) PROVE Goal
  <2>1. /\ pc[t] = "receipt" /\ pc' = [pc EXCEPT ![t] = "commit"]
        /\ receipts' = [receipts EXCEPT ![pay[t]] = @ + 1]
        /\ UNCHANGED <<activations, faults, pay>>
    BY <1>6 DEF SendReceipt, Goto
  <2>2. Committed(p)' = Committed(p)
    BY <2>1 DEF Committed
  <2>3. CASE p # pay[t]
    <3>1. b' = b /\ w' = w
      BY <1>4, <2>1, <2>3 DEF At
    <3>2. receipts'[p] = receipts[p]
      BY <1>4, <2>1, <2>3
    <3> QED BY <1>1, <2>1, <2>2, <3>1, <3>2
  <2>4. CASE p = pay[t]
    <3>1. \A u \in Task : ProcessOf(u) = ProcessOf(t) => pc[u] # "commit"
      BY <2>1, Alone DEF Inside
    <3>2. receipts'[p] = receipts[p] + 1
      BY <1>4, <2>1, <2>4
    <3>3. CASE ProcessOf(t) = "backend"
      <4>1. b = 0 /\ b' = 1 /\ w' = w
        BY <1>4, <2>1, <2>4, <3>1, <3>3 DEF At
      <4> QED BY <1>1, <1>2, <1>3, <2>1, <2>2, <3>2, <4>1
    <3>4. CASE ProcessOf(t) = "worker"
      <4>1. w = 0 /\ w' = 1 /\ b' = b
        BY <1>4, <2>1, <2>4, <3>1, <3>4 DEF At
      <4> QED BY <1>1, <1>2, <1>3, <2>1, <2>2, <3>2, <4>1
    <3> QED BY <1>4, <3>3, <3>4
  <2> QED BY <2>3, <2>4
\* One process loses its task at the commit, and the step makes up for it.
<1>7. ASSUME NEW x \in {"backend", "worker"},
             receipts' = receipts, pay' = pay,
             Committed(p)' + faults' = Committed(p) + faults + 1,
             Committed(p)' \in Nat, faults' \in Nat,
             \A u \in Task : ProcessOf(u) # x => pc'[u] = pc[u]
      PROVE  Goal
  <2>1. x = "backend" => w' = w
    BY <1>7 DEF At
  <2>2. x = "worker" => b' = b
    BY <1>7 DEF At
  <2> QED BY <1>1, <1>2, <1>3, <1>7, <2>1, <2>2
<1>8. ASSUME NEW t \in Task, Commit(t) PROVE Goal
  <2>1. /\ pc' = [pc EXCEPT ![t] = "announce"] /\ UNCHANGED <<receipts, faults, pay>>
        /\ pc[t] = "commit"
    BY <1>8 DEF Commit, Goto
  <2>2. /\ \A q \in Payment \ {pay[t]} : Committed(q)' = Committed(q)
        /\ Committed(pay[t])' = Committed(pay[t]) + 1
    BY <1>8, CommitStep
  <2>3. CASE p # pay[t]
    <3>1. b' = b /\ w' = w
      BY <1>4, <2>1, <2>3 DEF At
    <3> QED BY <1>1, <2>1, <2>2, <2>3, <3>1
  <2>4. CASE p = pay[t]
    <3>1. Committed(p)' + faults' = Committed(p) + faults + 1
      BY <1>3, <2>1, <2>2, <2>4
    <3>2. \A u \in Task : ProcessOf(u) # ProcessOf(t) => pc'[u] = pc[u]
      BY <1>4, <2>1
    <3> QED BY <1>3, <1>4, <1>7, <2>1, <2>2, <2>4, <3>1, <3>2
  <2> QED BY <2>3, <2>4
<1>9. ASSUME NEW t \in Task, Announce(t) PROVE Goal
  <2>1. /\ pc[t] = "announce" /\ pc' = [pc EXCEPT ![t] = "done"]
        /\ UNCHANGED <<receipts, activations, faults, pay>>
    BY <1>9 DEF Announce, Goto
  <2>2. b' = b /\ w' = w /\ Committed(p)' = Committed(p)
    BY <1>4, <2>1 DEF At, Committed
  <2> QED BY <1>1, <2>1, <2>2
<1>10. ASSUME NEW t \in Task, Raise(t) PROVE Goal
  <2>1. /\ UNCHANGED <<receipts, activations, pay>> /\ faults' = faults + 1
        /\ pc' = [pc EXCEPT ![t] = "failed"]
    BY <1>10 DEF Raise
  <2>2. Committed(p)' = Committed(p) /\ \A u \in Task : ProcessOf(u) # ProcessOf(t) => pc'[u] = pc[u]
    BY <1>4, <2>1 DEF Committed
  <2> QED BY <1>3, <1>4, <1>7, <2>1, <2>2
<1>11. ASSUME NEW x \in Process, Crash(x) PROVE Goal
  <2>1. /\ UNCHANGED <<receipts, activations, pay>> /\ faults' = faults + 1
        /\ \A u \in Task : ProcessOf(u) # x => pc'[u] = pc[u]
    BY <1>11 DEF Crash
  <2>2. Committed(p)' = Committed(p)
    BY <2>1 DEF Committed
  <2> QED BY <1>3, <1>7, <2>1, <2>2 DEF Process
<1> QED
  BY <1>5, <1>6, <1>8, <1>9, <1>10, <1>11, QuietStep

LEMMA InitReceipts == Init => ReceiptsAccounted
<1> SUFFICES ASSUME Init, NEW p \in Payment
             PROVE  receipts[p] <= Committed(p) + faults + At("backend", "commit", p)
                                     + At("worker", "commit", p)
  BY DEF ReceiptsAccounted
<1>1. receipts[p] = 0 /\ faults = 0 /\ activations[p] = [x \in Process |-> 0]
  BY DEF Init
<1>2. Committed(p) = 0
  BY <1>1 DEF Committed, Process
<1>3. At("backend", "commit", p) \in {0, 1} /\ At("worker", "commit", p) \in {0, 1}
  BY DEF At
<1> QED BY <1>1, <1>2, <1>3

\* Every receipt that left for the tax service has its activation, its settlement in
\* progress, or the fault that rolled it back: process_successful_payment sends it
\* before the commit, once in each attempt.
THEOREM ReceiptsOnRecord == Spec => []ReceiptsAccounted
BY InitReceipts, NextReceipts, Typing, Serial, KnowOutcome, PTL DEF Spec

-----------------------------------------------------------------------------

\* The merged users stay merged.
LEMMA OrphanedGrows ==
    ASSUME [Next]_vars
    PROVE  orphaned \subseteq orphaned'
<1>1. ASSUME NEW p \in Payment, Decide(p) \/ MergeUser(p) \/ DedupeExpires(p)
      PROVE orphaned \subseteq orphaned'
  BY <1>1 DEF Decide, MergeUser, DedupeExpires
<1>2. ASSUME NEW r \in Request, (\E p \in Payment : Post(r, p)) \/ Dedupe(r) \/ Push(r)
      PROVE orphaned' = orphaned
  BY <1>2 DEF Post, Dedupe, Push
<1>3. ASSUME NEW c \in Consumer, Pop(c) PROVE orphaned' = orphaned
  BY <1>3 DEF Pop
<1>4. ASSUME NEW t \in Poller, (\E p \in Payment : StartPoll(t, p)) \/ AskProvider(t)
      PROVE orphaned' = orphaned
  BY <1>4 DEF StartPoll, AskProvider
<1>5. ASSUME NEW t \in Task, Settle(t) \/ Raise(t) PROVE orphaned' = orphaned
  BY <1>5 DEF Settle, AcquireLock, Load, CheckUser, FailOrphan, Activate, SendReceipt, Commit,
              Announce, Cancel, Release, Raise
<1>6. ASSUME NEW x \in Process, Crash(x) PROVE orphaned' = orphaned
  BY <1>6 DEF Crash
<1>7. CASE UNCHANGED vars
  BY <1>7 DEF vars
<1> QED
  BY <1>1, <1>2, <1>3, <1>4, <1>5, <1>6, <1>7 DEF Next

\* Where a consumer, or any task about to fail an orphan, can have come from.
ConsumerMoves ==
    \A u \in Task :
        /\ pc'[u] = "orphan" => /\ pay'[u] = pay[u]
                                /\ pc[u] = "orphan" \/ (pc[u] = "user" /\ pay[u] \in orphaned)
        /\ u \in Consumer => \/ /\ pc'[u] = pc[u] /\ pay'[u] = pay[u]
                             \/ pc'[u] \notin {"user", "activate", "receipt", "commit"}
                             \/ pc'[u] = "user" /\ status[pay[u]] # "succeeded" /\ pay' = pay
                             \/ pc'[u] = "activate" /\ pc[u] = "user" /\ pay[u] \notin orphaned /\ pay' = pay
                             \/ pc'[u] = "receipt" /\ pc[u] = "activate" /\ pay' = pay
                             \/ pc'[u] = "commit" /\ pc[u] = "receipt" /\ pay' = pay

LEMMA ConsumerStep ==
    ASSUME TypeOK, [Next]_vars
    PROVE  ConsumerMoves
<1> USE KindsAreTasks, TasksAssumption DEF ConsumerMoves
<1>0. pc \in [Task -> Outside \cup Inside] /\ pay \in [Task -> Payment]
  BY DEF TypeOK
<1>1. ASSUME NEW p \in Payment, Decide(p) \/ MergeUser(p) \/ DedupeExpires(p) PROVE ConsumerMoves
  BY <1>1 DEF Decide, MergeUser, DedupeExpires
<1>2. ASSUME NEW r \in Request, NEW p \in Payment, Post(r, p) PROVE ConsumerMoves
  BY <1>0, <1>2 DEF Post, Goto
<1>3. ASSUME NEW r \in Request, Dedupe(r) \/ Push(r) PROVE ConsumerMoves
  <2>1. pay' = pay
    BY <1>3 DEF Dedupe, Push
  <2>2. \E l \in {"push", "idle", "lock"} : pc' = [pc EXCEPT ![r] = l]
    BY <1>3 DEF Dedupe, Push
  <2> QED BY <1>0, <2>1, <2>2
<1>4. ASSUME NEW c \in Consumer, Pop(c) PROVE ConsumerMoves
  <2>1. \/ pc' = pc /\ pay' = pay
        \/ pc' = [pc EXCEPT ![c] = "lock"] /\ pay' = [pay EXCEPT ![c] = Head(queue)]
    BY <1>4 DEF Pop
  <2> QED BY <1>0, <2>1
<1>5. ASSUME NEW t \in Poller, NEW p \in Payment, StartPoll(t, p) PROVE ConsumerMoves
  BY <1>0, <1>5 DEF StartPoll, Goto
<1>6. ASSUME NEW t \in Poller, AskProvider(t) PROVE ConsumerMoves
  BY <1>0, <1>6 DEF AskProvider
<1>7. ASSUME NEW t \in Task, AcquireLock(t) \/ Release(t) \/ Raise(t) PROVE ConsumerMoves
  <2>1. /\ pay' = pay
        /\ \E l \in {"load", "idle", "failed"} : pc' = [pc EXCEPT ![t] = l]
    BY <1>7 DEF AcquireLock, Release, Raise, Goto
  <2> QED BY <1>0, <2>1
<1>8. ASSUME NEW t \in Task, Load(t) PROVE ConsumerMoves
  <2>1. /\ pay' = pay
        /\ \E l \in {"cancel", "done", "user"} :
              /\ pc' = [pc EXCEPT ![t] = l]
              /\ l = "user" => SessionRead(t) # "succeeded"
    BY <1>8 DEF Load
  <2>2. t \in Consumer => SessionRead(t) = status[pay[t]]
    BY DEF SessionRead
  <2> QED BY <1>0, <2>1, <2>2
<1>9. ASSUME NEW t \in Task, CheckUser(t) PROVE ConsumerMoves
  BY <1>0, <1>9 DEF CheckUser
<1>10. ASSUME NEW t \in Task, FailOrphan(t) \/ Commit(t) \/ Announce(t) \/ Cancel(t)
       PROVE ConsumerMoves
  <2>1. /\ pay' = pay
        /\ \E l \in {"done", "announce"} : pc' = [pc EXCEPT ![t] = l]
    BY <1>10 DEF FailOrphan, Commit, Announce, Cancel, Goto
  <2> QED BY <1>0, <2>1
<1>11. ASSUME NEW t \in Task, Activate(t) \/ SendReceipt(t) PROVE ConsumerMoves
  <2>1. /\ pay' = pay
        /\ \/ pc[t] = "activate" /\ pc' = [pc EXCEPT ![t] = "failed"]
           \/ pc[t] = "activate" /\ pc' = [pc EXCEPT ![t] = "receipt"]
           \/ pc[t] = "receipt" /\ pc' = [pc EXCEPT ![t] = "commit"]
    BY <1>11 DEF Activate, SendReceipt, Goto
  <2> QED BY <1>0, <2>1
<1>12. ASSUME NEW x \in Process, Crash(x) PROVE ConsumerMoves
  BY <1>12 DEF Crash
<1>13. CASE UNCHANGED vars
  BY <1>13 DEF vars
<1> QED
  BY <1>1, <1>2, <1>3, <1>4, <1>5, <1>6, <1>7, <1>8, <1>9, <1>10, <1>11, <1>12, <1>13
     DEF Next, Settle

LEMMA NextFresh ==
    TypeOK /\ SettlementIsSerial /\ TasksKnowOutcome /\ ActivatedWasPaid /\ WorkerSettlesFresh
      /\ [Next]_vars => WorkerSettlesFresh'
<1> SUFFICES ASSUME TypeOK, SettlementIsSerial, TasksKnowOutcome, ActivatedWasPaid,
                    WorkerSettlesFresh, [Next]_vars
             PROVE  WorkerSettlesFresh'
  OBVIOUS
<1>0. /\ pc \in [Task -> Outside \cup Inside] /\ pay \in [Task -> Payment]
      /\ status \in [Payment -> Status]
      /\ \A p \in Payment : activations[p]["worker"] \in Nat /\ activations[p]["backend"] \in Nat
  BY Counters DEF TypeOK
<1>1. orphaned \subseteq orphaned' /\ ConsumerMoves
  BY OrphanedGrows, ConsumerStep
<1>2. /\ \A p \in Payment : activations[p]["worker"] > 0 => status[p] = "succeeded" \/ p \in orphaned
      /\ \A t \in Task : pc[t] = "orphan" => pay[t] \in orphaned
      /\ \A c \in Consumer :
            /\ pc[c] \in {"activate", "receipt", "commit"} => activations[pay[c]]["worker"] = 0
            /\ pc[c] = "user" => activations[pay[c]]["worker"] = 0 \/ pay[c] \in orphaned
  BY DEF WorkerSettlesFresh
<1>3. \A t \in Task : pc'[t] = "orphan" => pay'[t] \in orphaned'
  BY <1>1, <1>2 DEF ConsumerMoves
<1>4. ASSUME activations' = activations
      PROVE  \A c \in Consumer :
                /\ pc'[c] \in {"activate", "receipt", "commit"} => activations'[pay'[c]]["worker"] = 0
                /\ pc'[c] = "user" => activations'[pay'[c]]["worker"] = 0 \/ pay'[c] \in orphaned'
  <2> TAKE c \in Consumer
  <2>1. c \in Task /\ pay[c] \in Payment /\ activations[pay[c]]["worker"] \in Nat
    BY <1>0, KindsAreTasks
  <2>2. \/ /\ pc'[c] = pc[c] /\ pay'[c] = pay[c]
        \/ pc'[c] \notin {"user", "activate", "receipt", "commit"}
        \/ pc'[c] = "user" /\ status[pay[c]] # "succeeded" /\ pay' = pay
        \/ pc'[c] = "activate" /\ pc[c] = "user" /\ pay[c] \notin orphaned /\ pay' = pay
        \/ pc'[c] = "receipt" /\ pc[c] = "activate" /\ pay' = pay
        \/ pc'[c] = "commit" /\ pc[c] = "receipt" /\ pay' = pay
    BY <1>1, <2>1 DEF ConsumerMoves
  <2> QED BY <1>1, <1>2, <1>4, <2>1, <2>2
<1>5. CASE UNCHANGED <<status, activations>>
  BY <1>1, <1>2, <1>3, <1>4, <1>5 DEF WorkerSettlesFresh
<1>6. ASSUME NEW t \in Task, FailOrphan(t) \/ Cancel(t) PROVE WorkerSettlesFresh'
  <2>1. /\ activations' = activations
        /\ \/ status' = status
           \/ FailOrphan(t) /\ status' = [status EXCEPT ![pay[t]] = "failed_user_not_found"]
           \/ Cancel(t) /\ status' = [status EXCEPT ![pay[t]] = "canceled"]
    BY <1>6, FailureStep
  <2>2. FailOrphan(t) => pay[t] \in orphaned
    BY <1>2 DEF FailOrphan, Goto
  <2>3. Cancel(t) => ~(activations[pay[t]]["worker"] > 0)
    BY <1>0 DEF Cancel, Goto, TasksKnowOutcome, ActivatedWasPaid, Committed
  <2>4. \A p \in Payment :
           activations'[p]["worker"] > 0 => status'[p] = "succeeded" \/ p \in orphaned'
    BY <1>0, <1>1, <1>2, <2>1, <2>2, <2>3
  <2> QED BY <1>3, <1>4, <2>1, <2>4 DEF WorkerSettlesFresh
<1>7. ASSUME NEW t \in Task, Commit(t) PROVE WorkerSettlesFresh'
  <2>1. /\ pc[t] = "commit" /\ pc' = [pc EXCEPT ![t] = "announce"]
        /\ status' = [status EXCEPT ![pay[t]] = "succeeded"]
        /\ activations' = [activations EXCEPT ![pay[t]][ProcessOf(t)] = @ + 1]
        /\ UNCHANGED <<pay, orphaned>>
    BY <1>7 DEF Commit, Goto
  <2>2. \A p \in Payment \ {pay[t]} : activations'[p] = activations[p] /\ status'[p] = status[p]
    BY <1>0, <2>1 DEF TypeOK
  <2>3. status'[pay[t]] = "succeeded"
    BY <1>0, <2>1
  <2>4. \A p \in Payment :
           activations'[p]["worker"] > 0 => status'[p] = "succeeded" \/ p \in orphaned'
    BY <1>2, <2>1, <2>2, <2>3
  <2>5. t \notin Consumer => \A p \in Payment : activations'[p]["worker"] = activations[p]["worker"]
    BY <2>1 DEF ProcessOf, TypeOK, Process
  <2>6. ASSUME NEW c \in Consumer, pc'[c] \in {"user", "activate", "receipt", "commit"}
        PROVE  t \notin Consumer /\ pc'[c] = pc[c] /\ pay[c] \in Payment
    <3>1. c \in Task /\ c # t /\ pc[c] = pc'[c]
      BY <1>0, <2>1, <2>6, KindsAreTasks
    <3>2. pc[c] \in Inside /\ pc[t] \in Inside
      BY <2>1, <2>6, <3>1 DEF Inside
    <3>3. ProcessOf(c) # ProcessOf(t)
      BY <3>1, <3>2, Alone
    <3> QED BY <1>0, <3>1, <3>3 DEF ProcessOf
  <2>7. \A c \in Consumer :
          /\ pc'[c] \in {"activate", "receipt", "commit"} => activations'[pay'[c]]["worker"] = 0
          /\ pc'[c] = "user" => activations'[pay'[c]]["worker"] = 0 \/ pay'[c] \in orphaned'
    BY <1>2, <2>1, <2>5, <2>6
  <2> QED BY <1>3, <2>4, <2>7 DEF WorkerSettlesFresh
<1> QED
  BY <1>5, <1>6, <1>7, DatabaseStep

LEMMA InitFresh == Init => WorkerSettlesFresh /\ WorkerActivatesOnce
<1> SUFFICES ASSUME Init
             PROVE  /\ \A t \in Task : pc[t] = "idle"
                    /\ \A p \in Payment : activations[p]["worker"] = 0
  BY KindsAreTasks DEF WorkerSettlesFresh, WorkerActivatesOnce
<1> QED BY DEF Init, Process

THEOREM Fresh == Spec => []WorkerSettlesFresh
BY InitFresh, NextFresh, Typing, Serial, KnowOutcome, Paid, PTL DEF Spec

LEMMA NextOnce ==
    TypeOK /\ WorkerSettlesFresh /\ WorkerActivatesOnce /\ [Next]_vars => WorkerActivatesOnce'
<1> SUFFICES ASSUME TypeOK, WorkerSettlesFresh, WorkerActivatesOnce, [Next]_vars, NEW p \in Payment
             PROVE  activations'[p]["worker"] <= 1
  BY DEF WorkerActivatesOnce
<1>1. activations[p]["worker"] \in Nat /\ activations[p]["worker"] <= 1
  BY DEF TypeOK, Process, WorkerActivatesOnce
<1>2. CASE activations' = activations
  BY <1>1, <1>2
<1>3. ASSUME NEW t \in Task, Commit(t) PROVE activations'[p]["worker"] <= 1
  <2>1. /\ pc[t] = "commit" /\ pay[t] \in Payment
        /\ activations' = [activations EXCEPT ![pay[t]][ProcessOf(t)] = @ + 1]
    BY <1>3 DEF Commit, Goto, TypeOK
  <2>2. CASE p = pay[t] /\ t \in Consumer
    <3>1. activations[p]["worker"] = 0
      BY <2>1, <2>2 DEF WorkerSettlesFresh
    <3> QED BY <2>1, <2>2, <3>1 DEF ProcessOf, TypeOK, Process
  <2>3. CASE p # pay[t] \/ t \notin Consumer
    <3>1. activations'[p]["worker"] = activations[p]["worker"]
      BY <2>1, <2>3 DEF ProcessOf, TypeOK, Process
    <3> QED BY <1>1, <3>1
  <2> QED BY <2>2, <2>3
<1>4. ASSUME NEW t \in Task, FailOrphan(t) \/ Cancel(t) PROVE activations' = activations
  BY <1>4, FailureStep
<1> QED
  BY <1>2, <1>3, <1>4, DatabaseStep

\* However often an event is delivered, and whatever the other process, the pollers, the
\* merges and the crashes do, the worker activates a payment at most once.
THEOREM WorkerOnce == Spec => []WorkerActivatesOnce
BY InitFresh, NextOnce, Typing, Fresh, PTL DEF Spec

\* The inductive invariant behind these theorems.
THEOREM Inductive == Spec => []SettlementInv
<1>1. TasksKnowOutcome /\ ActivatedWasPaid /\ AnnouncementsOwed /\ WorkerSettlesFresh => SettlementInv
  BY DEF SettlementInv
<1> QED BY <1>1, KnowOutcome, Paid, Owed, Fresh, PTL

-----------------------------------------------------------------------------

\* The deployment in which only the worker settles: nobody polls, Redis answers and
\* no account is merged.
QueueDeployment == Poller = {} /\ MaxRedisFaults = 0 /\ Merging = FALSE

OnlyWorkerSettles ==
    /\ redisFaults = 0 /\ orphaned = {}
    /\ \A t \in Task : t \notin Consumer => pc[t] \in {"idle", "dedupe", "push"}
    /\ \A p \in Payment : activations[p]["backend"] = 0

LEMMA NextOnlyWorker ==
    ASSUME QueueDeployment
    PROVE  TypeOK /\ OnlyWorkerSettles /\ [Next]_vars => OnlyWorkerSettles'
<1> SUFFICES ASSUME TypeOK, OnlyWorkerSettles, [Next]_vars PROVE OnlyWorkerSettles'
  OBVIOUS
<1> USE KindsAreTasks, TasksAssumption DEF QueueDeployment, OnlyWorkerSettles
<1>0. pc \in [Task -> Outside \cup Inside] /\ Task = Consumer \cup Request
  BY DEF TypeOK, Task
<1>1. ASSUME NEW p \in Payment, Decide(p) \/ MergeUser(p) \/ DedupeExpires(p)
      PROVE OnlyWorkerSettles'
  BY <1>1 DEF Decide, MergeUser, DedupeExpires
<1>2. ASSUME NEW r \in Request, NEW p \in Payment, Post(r, p) PROVE OnlyWorkerSettles'
  BY <1>0, <1>2 DEF Post, Goto
<1>3. ASSUME NEW r \in Request, Dedupe(r) \/ Push(r) PROVE OnlyWorkerSettles'
  <2>1. UNCHANGED <<redisFaults, orphaned, activations>>
    BY <1>3 DEF Dedupe, Push
  <2>2. \E l \in {"push", "idle"} : pc' = [pc EXCEPT ![r] = l]
    BY <1>3 DEF Dedupe, Push
  <2> QED BY <1>0, <2>1, <2>2
<1>4. ASSUME NEW c \in Consumer, Pop(c) PROVE OnlyWorkerSettles'
  <2>1. UNCHANGED <<redisFaults, orphaned, activations>> /\ pc' = [pc EXCEPT ![c] = "lock"]
    BY <1>4 DEF Pop
  <2> QED BY <1>0, <2>1
<1>5. ASSUME NEW t \in Task, Settle(t) \/ Raise(t) PROVE OnlyWorkerSettles'
  <2>1. t \in Consumer
    BY <1>5 DEF Settle, AcquireLock, Load, CheckUser, FailOrphan, Activate, SendReceipt, Commit,
                Announce, Cancel, Release, Raise, Goto
  <2>2. UNCHANGED <<redisFaults, orphaned>> /\ \E l : pc' = [pc EXCEPT ![t] = l]
    BY <1>5 DEF Settle, AcquireLock, Load, CheckUser, FailOrphan, Activate, SendReceipt, Commit,
                Announce, Cancel, Release, Raise, Goto
  <2>3. \A p \in Payment : activations'[p]["backend"] = activations[p]["backend"]
    <3>1. CASE Commit(t)
      <4>1. /\ activations' = [activations EXCEPT ![pay[t]]["worker"] = @ + 1]
            /\ activations \in [Payment -> [Process -> Nat]]
        BY <2>1, <3>1 DEF Commit, ProcessOf, TypeOK
      <4> QED BY <4>1 DEF Process
    <3>2. CASE ~Commit(t)
      BY <1>5, <3>2 DEF Settle, AcquireLock, Load, CheckUser, FailOrphan, Activate, SendReceipt,
                        Announce, Cancel, Release, Raise
    <3> QED BY <3>1, <3>2
  <2> QED BY <1>0, <2>1, <2>2, <2>3
<1>6. ASSUME NEW x \in Process, Crash(x) PROVE OnlyWorkerSettles'
  BY <1>6 DEF Crash
<1>7. CASE UNCHANGED vars
  BY <1>7 DEF vars
<1> QED
  BY <1>1, <1>2, <1>3, <1>4, <1>5, <1>6, <1>7 DEF Next

LEMMA InitOnlyWorker == Init => OnlyWorkerSettles
BY DEF Init, OnlyWorkerSettles, Process

\* The ledger's variables move only with a verdict or a commit.
LEMMA LedgerStep ==
    ASSUME QueueDeployment, TypeOK, OnlyWorkerSettles, TasksKnowOutcome, ActivatedWasPaid,
           WorkerSettlesFresh, SucceededMeansActivated, [Next]_vars
    PROVE  [Ledger!Next]_Ledger!vars
<1> DEFINE state == [p \in Payment |-> LedgerState(p)]
<1> DEFINE entitlements == [p \in Payment |-> Committed(p)]
<1>0. outcome \in [Payment -> Outcome] /\ status \in [Payment -> Status]
  BY DEF TypeOK
<1>1. CASE UNCHANGED <<outcome, status, activations>>
  <2>1. state' = state /\ entitlements' = entitlements
    BY <1>1 DEF LedgerState, Committed
  <2> QED BY <2>1 DEF Ledger!vars
<1>2. ASSUME NEW p \in Payment, Decide(p) PROVE Ledger!Next
  <2>1. /\ outcome[p] = "open" /\ UNCHANGED <<status, activations>>
        /\ \/ outcome' = [outcome EXCEPT ![p] = "succeeded"]
           \/ outcome' = [outcome EXCEPT ![p] = "canceled"]
    BY <1>2 DEF Decide
  <2>2. status[p] # "succeeded"
    BY <2>1 DEF SucceededMeansActivated
  <2>3. entitlements' = entitlements
    BY <2>1 DEF Committed
  <2>4. state[p] = "unpaid"
    BY <2>1 DEF LedgerState
  <2>5. \/ state' = [state EXCEPT ![p] = "paid"]
        \/ state' = [state EXCEPT ![p] = "void"]
    BY <1>0, <2>1, <2>2 DEF LedgerState
  <2> QED BY <2>3, <2>4, <2>5 DEF Ledger!Next, Ledger!Pay, Ledger!Expire, Ledger!Move
<1>3. ASSUME NEW t \in Task, Commit(t) PROVE Ledger!Next
  <2> DEFINE q == pay[t]
  <2>1. /\ q \in Payment /\ outcome[q] = "succeeded" /\ outcome' = outcome /\ pay' = pay
        /\ status' = [status EXCEPT ![q] = "succeeded"]
        /\ Committed(q)' = Committed(q) + 1
        /\ \A p \in Payment \ {q} : Committed(p)' = Committed(p)
    BY <1>3, CommitStep
  <2>2. t \in Consumer /\ pc[t] = "commit"
    BY <1>3 DEF Commit, Goto, OnlyWorkerSettles
  <2>3. status[q] # "succeeded"
    BY <2>1, <2>2 DEF WorkerSettlesFresh, OnlyWorkerSettles, SucceededMeansActivated, Committed
  <2>4. state[q] = "paid" /\ state' = [state EXCEPT ![q] = "granted"]
    BY <1>0, <2>1, <2>3 DEF LedgerState
  <2>5. entitlements' = [entitlements EXCEPT ![q] = @ + 1]
    BY <2>1
  <2>6. Ledger!Grant(q)
    BY <2>4, <2>5 DEF Ledger!Grant, Ledger!Move
  <2> QED BY <2>1, <2>6 DEF Ledger!Next
<1>4. ASSUME NEW t \in Task, FailOrphan(t) \/ Cancel(t) PROVE UNCHANGED Ledger!vars
  <2>1. ~FailOrphan(t)
    BY DEF FailOrphan, Goto, WorkerSettlesFresh, OnlyWorkerSettles
  <2>2. /\ UNCHANGED <<activations, outcome>> /\ pay[t] \in Payment /\ outcome[pay[t]] = "canceled"
        /\ status' \in {status, [status EXCEPT ![pay[t]] = "canceled"]}
    BY <1>4, <2>1, FailureStep DEF Cancel, Goto, TasksKnowOutcome, TypeOK
  <2>3. state' = state /\ entitlements' = entitlements
    BY <1>0, <2>2 DEF LedgerState, Committed
  <2> QED BY <2>3 DEF Ledger!vars
<1>5. \/ UNCHANGED outcome
      \/ \E p \in Payment : Decide(p)
  BY OutcomeStep
<1> QED
  BY <1>1, <1>2, <1>3, <1>4, <1>5, DatabaseStep

\* With the worker alone settling, every execution is one of the ledger: each paid
\* payment is granted once, by the commit, and no verdict is taken back.
THEOREM WorkerImplementsLedger ==
    ASSUME QueueDeployment
    PROVE  Spec => ImplementsLedger
<1>1. Init => Ledger!Init
  <2> SUFFICES ASSUME Init
               PROVE  \A p \in Payment : LedgerState(p) = "unpaid" /\ Committed(p) = 0
    BY DEF Ledger!Init
  <2> QED BY DEF Init, LedgerState, Committed, Process
<1>2. TypeOK /\ OnlyWorkerSettles /\ TasksKnowOutcome /\ ActivatedWasPaid /\ WorkerSettlesFresh
        /\ SucceededMeansActivated /\ [Next]_vars => [Ledger!Next]_Ledger!vars
  BY LedgerStep
<1>3. TypeOK /\ OnlyWorkerSettles /\ [Next]_vars => OnlyWorkerSettles'
  BY NextOnlyWorker
<1> QED
  BY <1>1, <1>2, <1>3, InitOnlyWorker, Typing, KnowOutcome, Paid, Fresh, SucceededIsActivated, PTL
     DEF Spec, ImplementsLedger, Ledger!Spec

-----------------------------------------------------------------------------

\* A paid event that a request, the queue or a consumer still has.
Handles(t, p) ==
    pay[t] = p /\ pc[t] \in {"push", "lock", "load", "user", "activate", "receipt", "commit"}

Queued(p) == \E i \in 1 .. Len(queue) : queue[i] = p

Kept(p) ==
    status[p] = "succeeded" \/ Queued(p) \/ \E t \in Consumer \cup Request : Handles(t, p)

\* An event that was taken, by its dedupe key or by a 200, is not lost while nothing
\* fails, and its payment's user is not merged away.
EventKept ==
    \A p \in Payment :
        outcome[p] = "succeeded" /\ p \in acked \cup seen /\ p \notin orphaned /\ faults = 0 /\ redisFaults = 0
            => Kept(p)

\* While Redis answers, requests only queue what the provider has decided.
RequestsQueue ==
    redisFaults = 0 =>
        /\ \A r \in Request : pc[r] \in {"idle", "dedupe", "push"}
        /\ \A p \in acked \cup seen : outcome[p] # "open"

LEMMA NextRequestsQueue == TypeOK /\ TasksKnowOutcome /\ RequestsQueue /\ [Next]_vars => RequestsQueue'
<1> SUFFICES ASSUME TypeOK, TasksKnowOutcome, RequestsQueue, [Next]_vars, redisFaults' = 0
             PROVE  /\ \A r \in Request : pc'[r] \in {"idle", "dedupe", "push"}
                    /\ \A p \in acked' \cup seen' : outcome'[p] # "open"
  BY DEF RequestsQueue
<1> USE KindsAreTasks, TasksAssumption
<1> DEFINE Waiting == \A r \in Request : pc'[r] \in {"idle", "dedupe", "push"}
<1> DEFINE Decided == \A p \in acked' \cup seen' : outcome[p] # "open"
<1>0. /\ pc \in [Task -> Outside \cup Inside] /\ pay \in [Task -> Payment] /\ redisFaults \in Nat
      /\ acked \subseteq Payment /\ seen \subseteq Payment
  BY DEF TypeOK
<1>1. ASSUME redisFaults = 0, acked' = acked, seen' \subseteq seen, pc' = pc PROVE Waiting /\ Decided
  BY <1>1 DEF RequestsQueue
<1>2. ASSUME NEW p \in Payment, Decide(p) \/ MergeUser(p) \/ DedupeExpires(p) PROVE Waiting /\ Decided
  BY <1>1, <1>2 DEF Decide, MergeUser, DedupeExpires
<1>3. ASSUME NEW r \in Request, NEW p \in Payment, Post(r, p) PROVE Waiting /\ Decided
  BY <1>0, <1>3 DEF Post, Goto, RequestsQueue
<1>4. ASSUME NEW r \in Request, Dedupe(r) PROVE Waiting /\ Decided
  <2>1. redisFaults = 0 /\ outcome[pay[r]] # "open"
    BY <1>0, <1>4 DEF Dedupe, TasksKnowOutcome
  <2> QED BY <1>0, <1>4, <2>1 DEF Dedupe, RequestsQueue
<1>5. ASSUME NEW r \in Request, Push(r) PROVE Waiting /\ Decided
  <2>1. redisFaults = 0 /\ outcome[pay[r]] # "open"
    BY <1>0, <1>5 DEF Push, TasksKnowOutcome
  <2> QED BY <1>0, <1>5, <2>1 DEF Push, RequestsQueue
<1>6. ASSUME NEW c \in Consumer, Pop(c) PROVE Waiting /\ Decided
  <2>1. redisFaults = 0
    BY <1>0, <1>6 DEF Pop
  <2> QED BY <1>0, <1>6, <2>1 DEF Pop, RequestsQueue
<1>7. ASSUME NEW t \in Poller, (\E p \in Payment : StartPoll(t, p)) \/ AskProvider(t) PROVE Waiting /\ Decided
  BY <1>0, <1>7 DEF StartPoll, AskProvider, Goto, RequestsQueue
<1>8. ASSUME NEW t \in Task, Settle(t) \/ Raise(t) PROVE Waiting /\ Decided
  <2>1. redisFaults = 0 /\ seen' = seen
    BY <1>8 DEF Settle, AcquireLock, Load, CheckUser, FailOrphan, Activate, SendReceipt, Commit, Announce,
                Cancel, Release, Raise
  <2>2. pc[t] \notin {"idle", "dedupe", "push"} /\ \E l : pc' = [pc EXCEPT ![t] = l]
    BY <1>8 DEF Settle, AcquireLock, Load, CheckUser, FailOrphan, Activate, SendReceipt, Commit, Announce,
                Cancel, Release, Raise, Goto
  <2>3. t \notin Request
    BY <2>1, <2>2 DEF RequestsQueue
  <2>4. acked' = acked
    BY <1>8, <2>3 DEF Settle, AcquireLock, Load, CheckUser, FailOrphan, Activate, SendReceipt, Commit, Announce,
                      Cancel, Release, Raise
  <2> QED BY <1>0, <2>1, <2>2, <2>3, <2>4 DEF RequestsQueue
<1>9. ASSUME NEW x \in Process, Crash(x) PROVE Waiting /\ Decided
  BY <1>0, <1>9 DEF Crash, RequestsQueue
<1>10. ASSUME UNCHANGED vars PROVE Waiting /\ Decided
  BY <1>1, <1>10 DEF vars
<1>11. \A p \in Payment : outcome[p] # "open" => outcome'[p] # "open"
  BY OutcomeFinal
<1>12. acked' \subseteq Payment /\ seen' \subseteq Payment
  BY NextTypeOK DEF TypeOK
<1> HIDE DEF Waiting, Decided
<1>13. Waiting /\ Decided
  BY <1>2, <1>3, <1>4, <1>5, <1>6, <1>7, <1>8, <1>9, <1>10 DEF Next
<1> QED BY <1>11, <1>12, <1>13 DEF Waiting, Decided

\* What a step must leave for the payments it does not settle.
LEMMA Carried ==
    ASSUME NEW p, Kept(p), status'[p] = status[p], Queued(p) => Queued(p)',
           \A t \in Consumer \cup Request : Handles(t, p) => Handles(t, p)'
    PROVE  Kept(p)'
BY DEF Kept

LEMMA NextKept ==
    TypeOK /\ TasksKnowOutcome /\ WorkerSettlesFresh /\ RequestsQueue /\ EventKept /\ [Next]_vars => EventKept'
<1> SUFFICES ASSUME TypeOK, TasksKnowOutcome, WorkerSettlesFresh, RequestsQueue, EventKept, [Next]_vars,
                    NEW p \in Payment, outcome'[p] = "succeeded", p \in acked' \cup seen',
                    p \notin orphaned', faults' = 0, redisFaults' = 0
             PROVE  Kept(p)'
  BY DEF EventKept
<1> USE KindsAreTasks, TasksAssumption
<1>0. /\ pc \in [Task -> Outside \cup Inside] /\ pay \in [Task -> Payment] /\ redisFaults \in Nat /\ faults \in Nat
      /\ queue \in Seq(Payment) /\ status \in [Payment -> Status] /\ p \notin orphaned
  BY OrphanedGrows DEF TypeOK
<1>1. outcome[p] = "succeeded" /\ faults = 0 /\ redisFaults = 0 /\ p \in acked \cup seen => Kept(p)
  BY <1>0, Zenon DEF EventKept
<1> DEFINE Same == /\ outcome' = outcome /\ faults' = faults /\ redisFaults' = redisFaults
                   /\ acked' = acked /\ seen' = seen
<1>2. ASSUME NEW q \in Payment, Decide(q) \/ MergeUser(q) \/ DedupeExpires(q) PROVE Kept(p)'
  <2>1. UNCHANGED <<faults, redisFaults, status, queue, pc, pay, acked>> /\ seen' \subseteq seen
    BY <1>2 DEF Decide, MergeUser, DedupeExpires
  <2>2. outcome[p] = "succeeded"
    BY <2>1, OutcomeFinal DEF RequestsQueue
  <2>3. Kept(p)
    BY <1>1, <2>1, <2>2
  <2> QED BY <2>1, <2>3, Carried DEF Queued, Handles
<1>3. ASSUME NEW r \in Request, NEW q \in Payment, Post(r, q) PROVE Kept(p)'
  <2>1. /\ Same /\ UNCHANGED <<status, queue>> /\ pc[r] = "idle"
        /\ \A t \in Task \ {r} : pc'[t] = pc[t] /\ pay'[t] = pay[t]
    BY <1>0, <1>3 DEF Post, Goto
  <2> QED BY <1>1, <2>1, Carried DEF Queued, Handles
<1>4. ASSUME NEW r \in Request, Dedupe(r) PROVE Kept(p)'
  <2>1. /\ UNCHANGED <<outcome, faults, redisFaults, status, queue, pay>> /\ pc[r] = "dedupe"
        /\ \A t \in Task \ {r} : pc'[t] = pc[t]
        /\ \/ seen' = seen \cup {pay[r]} /\ acked' = acked /\ pc'[r] = "push"
           \/ pay[r] \in seen /\ seen' = seen /\ acked' = acked \cup {pay[r]}
    BY <1>0, <1>4 DEF Dedupe
  <2>2. CASE p \in acked \cup seen
    BY <1>1, <2>1, <2>2, Carried DEF Queued, Handles
  <2>3. CASE p \notin acked \cup seen
    <3>1. pay'[r] = p /\ pc'[r] = "push"
      BY <2>1, <2>3
    <3> QED BY <3>1 DEF Kept, Handles
  <2> QED BY <2>2, <2>3
<1>5. ASSUME NEW r \in Request, Push(r) PROVE Kept(p)'
  <2>1. /\ UNCHANGED <<outcome, faults, redisFaults, status, pay, seen>> /\ pc[r] = "push"
        /\ \A t \in Task \ {r} : pc'[t] = pc[t]
        /\ queue' = Append(queue, pay[r]) /\ acked' = acked \cup {pay[r]} /\ pay[r] \in Payment
    BY <1>0, <1>5 DEF Push
  <2>2. /\ Len(queue') = Len(queue) + 1 /\ queue'[Len(queue) + 1] = pay[r] /\ Len(queue) \in Nat
        /\ \A i \in 1 .. Len(queue) : queue'[i] = queue[i]
    BY <1>0, <2>1
  <2>3. Queued(p) => Queued(p)'
    BY <2>2 DEF Queued
  <2>4. CASE p = pay[r]
    BY <2>2, <2>4 DEF Kept, Queued
  <2>5. CASE p # pay[r]
    BY <1>1, <2>1, <2>3, <2>5, Carried DEF Handles
  <2> QED BY <2>4, <2>5
<1>6. ASSUME NEW c \in Consumer, Pop(c) PROVE Kept(p)'
  <2>1. /\ Same /\ status' = status /\ pc[c] = "idle" /\ queue # <<>> /\ queue' = Tail(queue)
        /\ \A t \in Task \ {c} : pc'[t] = pc[t] /\ pay'[t] = pay[t]
        /\ pc'[c] = "lock" /\ pay'[c] = Head(queue)
    BY <1>0, <1>6 DEF Pop
  <2>2. /\ Len(queue) \in Nat \ {0} /\ Len(queue') = Len(queue) - 1 /\ Head(queue) = queue[1]
        /\ \A i \in 1 .. Len(queue') : queue'[i] = queue[i + 1]
    BY <1>0, <2>1
  <2>3. Kept(p)
    BY <1>1, <2>1
  <2>4. CASE queue[1] = p
    BY <2>1, <2>2, <2>4 DEF Kept, Handles
  <2>5. CASE queue[1] # p
    <3>1. Queued(p) => Queued(p)'
      <4> SUFFICES ASSUME NEW i \in 1 .. Len(queue), queue[i] = p PROVE Queued(p)'
        BY DEF Queued
      <4>1. i - 1 \in 1 .. Len(queue') /\ queue'[i - 1] = p
        BY <2>2, <2>5
      <4> QED BY <4>1 DEF Queued
    <3> QED BY <2>1, <2>3, <3>1, Carried DEF Handles
  <2> QED BY <2>4, <2>5
<1>7. ASSUME NEW t \in Poller, (\E q \in Payment : StartPoll(t, q)) \/ AskProvider(t) PROVE Kept(p)'
  <2>1. /\ Same /\ UNCHANGED <<status, queue>>
        /\ \A u \in Task \ {t} : pc'[u] = pc[u] /\ pay'[u] = pay[u]
    BY <1>0, <1>7 DEF StartPoll, AskProvider, Goto
  <2> QED BY <1>1, <2>1, Carried DEF Queued, Handles
<1>8. ASSUME NEW t \in Task, Settle(t) PROVE Kept(p)'
  <2>1. /\ UNCHANGED <<outcome, seen, queue, redisFaults, pay, faults>>
        /\ \A u \in Task \ {t} : pc'[u] = pc[u]
    BY <1>0, <1>8 DEF Settle, AcquireLock, Load, CheckUser, FailOrphan, Activate, SendReceipt, Commit, Announce,
                      Cancel, Release, Goto
  <2>2. acked' = acked
    <3>1. Release(t) => t \notin Request
      BY <2>1 DEF Release, RequestsQueue
    <3> QED BY <1>8, <3>1 DEF Settle, AcquireLock, Load, CheckUser, FailOrphan, Activate, SendReceipt, Commit,
                              Announce, Cancel, Release
  <2>3. Kept(p) /\ outcome[p] = "succeeded"
    BY <1>1, <2>1, <2>2
  <2>4. ASSUME status'[p] = status[p], ~Handles(t, p) \/ Handles(t, p)' PROVE Kept(p)'
    BY <2>1, <2>3, <2>4, Carried DEF Queued, Handles
  <2>5. CASE pay[t] # p
    <3>1. status'[p] = status[p]
      BY <1>0, <1>8, <2>5 DEF Settle, AcquireLock, Load, CheckUser, FailOrphan, Activate, SendReceipt, Commit,
                              Announce, Cancel, Release, WriteStatus
    <3> QED BY <2>4, <2>5, <3>1 DEF Handles
  <2>6. CASE pay[t] = p
    <3>1. CASE AcquireLock(t)
      BY <1>0, <2>1, <2>4, <2>6, <3>1 DEF AcquireLock, Goto, Handles
    <3>2. CASE Load(t)
      <4>1. status' = status /\ pc[t] = "load" /\ (pc'[t] = "user" \/ SessionRead(t) = "succeeded")
        BY <1>0, <2>3, <2>6, <3>2 DEF Load
      <4>2. CASE t \in Poller
        BY <2>1, <2>3, <4>1, <4>2, Carried DEF Queued, Handles
      <4>3. CASE t \notin Poller
        BY <2>1, <2>4, <2>6, <4>1, <4>3 DEF SessionRead, Handles, Kept
      <4> QED BY <4>2, <4>3
    <3>3. CASE CheckUser(t) \/ Activate(t) \/ SendReceipt(t)
      <4>1. status' = status /\ pc'[t] \in {"activate", "receipt", "commit"}
        BY <1>0, <2>6, <3>3 DEF CheckUser, Activate, SendReceipt, Goto
      <4> QED BY <2>1, <2>4, <2>6, <4>1 DEF Handles
    <3>4. CASE Commit(t)
      BY <1>0, <2>6, <3>4 DEF Commit, Kept
    <3>5. CASE FailOrphan(t) \/ Cancel(t)
      BY <1>0, <2>3, <2>6, <3>5 DEF FailOrphan, Cancel, Goto, TasksKnowOutcome, WorkerSettlesFresh
    <3>6. CASE Announce(t) \/ Release(t)
      BY <2>4, <3>6 DEF Announce, Release, Goto, Handles
    <3> QED BY <1>8, <3>1, <3>2, <3>3, <3>4, <3>5, <3>6 DEF Settle
  <2> QED BY <2>5, <2>6
<1>9. ASSUME NEW t \in Task, Raise(t) PROVE Kept(p)'
  BY <1>0, <1>9 DEF Raise
<1>10. ASSUME NEW x \in Process, Crash(x) PROVE Kept(p)'
  BY <1>0, <1>10 DEF Crash
<1>11. CASE UNCHANGED vars
  BY <1>1, <1>11, Carried DEF vars, Queued, Handles
<1> QED BY <1>2, <1>3, <1>4, <1>5, <1>6, <1>7, <1>8, <1>9, <1>10, <1>11 DEF Next

\* An event that was taken is never lost while nothing fails: until its payment is
\* marked succeeded it is in the queue, in the hands of a consumer, or of the request
\* that holds its dedupe key.  A redelivery that is answered 200 as a duplicate
\* therefore gives nothing away.  This is what PaidIsGranted rests on.
THEOREM EventsKept == Spec => []EventKept
<1>1. Init => RequestsQueue /\ EventKept
  BY KindsAreTasks DEF Init, RequestsQueue, EventKept
<1> QED BY <1>1, NextRequestsQueue, NextKept, Typing, KnowOutcome, Fresh, PTL DEF Spec

================================================================================
