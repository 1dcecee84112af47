------------------------- MODULE TenantLifecycle_proofs -------------------------
(***************************************************************************)
(* Proofs about TenantLifecycle, for every set of rows and extenders and   *)
(* every value of the terms, the windows and the bounds.                   *)
(***************************************************************************)
EXTENDS TenantLifecycle, TLAPS

USE DEF worker, history, counters

Row == [end : Nat, active : BOOLEAN]

Tenant == [status : Status, since : Nat]

\* A transaction past its reads.
Open == [pc : {"select", "commit"}, sub : Sub, base : Nat, term : Term, end : Nat, active : BOOLEAN]

LEMMA Kinds ==
    /\ Request = {Idle} \cup Open
    /\ \A r \in Open : r # Idle /\ r.term \in Nat /\ r.base + r.term \in Nat
    /\ \A a \in [at : Nat] : a # Nothing /\ a.at \in Nat
<1>1. \A r \in Open : r # Idle
  BY DEF Open, Idle
<1>2. \A r \in Open : r.term \in Nat /\ r.base + r.term \in Nat
  <2>1. Term \subseteq Nat
    BY TermAssumption
  <2>2. \A r \in Open : r.term \in Term /\ r.base \in Nat
    BY DEF Open
  <2>3. \A r \in Open : r.term \in Nat /\ r.base \in Nat
    BY <2>1, <2>2
  <2> QED BY <2>3
<1>3. \A a \in [at : Nat] : a # Nothing /\ a.at \in Nat
  BY DEF Nothing
<1>4. Request = {Idle} \cup Open
  BY DEF Request, Open
<1> QED BY <1>1, <1>2, <1>3, <1>4

LEMMA InitTypeOK == Init => TypeOK
<1> SUFFICES ASSUME Init PROVE TypeOK
  OBVIOUS
<1>1. row \in [Sub -> Row]
  <2>1. PICK t \in Term : row = [s \in Sub |-> [end |-> t, active |-> TRUE]]
    BY DEF Init
  <2>2. [end |-> t, active |-> TRUE] \in Row
    BY TermAssumption DEF Row
  <2> QED BY <2>1, <2>2
<1>2. promised \in [Sub -> Nat]
  BY <1>1 DEF Init, Row
<1> QED BY <1>1, <1>2 DEF Init, TypeOK, Row, Status, Loaded, Request

LEMMA StopType ==
    ASSUME TypeOK, NEW s \in Sub, Stop(s)
    PROVE  tenant' \in [Sub -> Tenant] /\ started' \subseteq Sub
<1>1. PICK at \in {tenant[s].since, now} :
         tenant' = [tenant EXCEPT ![s] = [status |-> "suspended", since |-> at]]
  BY DEF Stop
<1>2. at \in Nat
  BY <1>1 DEF TypeOK
<1> QED BY <1>1, <1>2 DEF Stop, TypeOK, Tenant, Status

LEMMA RecreatedType ==
    ASSUME TypeOK, NEW s \in Sub, Recreated(s)
    PROVE  tenant' \in [Sub -> Tenant] /\ started' \subseteq Sub
BY DEF Recreated, TypeOK, Tenant, Status

LEMMA BeginType ==
    ASSUME TypeOK, NEW e \in Extender, NEW s \in Sub, NEW t \in Term, Begin(e, s, t)
    PROVE  TypeOK'
<1>1. req' \in [Extender -> Request]
  <2>1. [pc |-> IF Live(s) THEN "commit" ELSE "select", sub |-> s, base |-> Base(s), term |-> t,
         end |-> row[s].end, active |-> row[s].active] \in Open
    BY DEF TypeOK, Base, Open
  <2> QED BY <2>1, Kinds DEF Begin, TypeOK
<1>2. tenant' \in [Sub -> Tenant] /\ started' \subseteq Sub
  <2>1. CASE UNCHANGED <<tenant, started>>
    BY <2>1 DEF TypeOK, Tenant
  <2>2. CASE Recreated(s)
    BY <2>2, RecreatedType
  <2> QED BY <2>1, <2>2 DEF Begin
<1>3. faults' \in Nat /\ extensions' \in Nat
  BY DEF Begin, TypeOK
<1> QED BY <1>1, <1>2, <1>3 DEF Begin, TypeOK, Tenant

LEMMA ExtendedRowType ==
    ASSUME TypeOK, NEW r \in Open
    PROVE  ExtendedRow(r) \in Row
<1>1. row[r.sub].active \in BOOLEAN /\ r.active \in BOOLEAN
  BY DEF TypeOK, Open
<1> QED BY <1>1, Kinds DEF ExtendedRow, Row

\* Every step keeps the type invariant.
LEMMA NextTypeOK == TypeOK /\ [Next]_vars => TypeOK'
<1> SUFFICES ASSUME TypeOK, [Next]_vars PROVE TypeOK'
  OBVIOUS
<1>1. CASE Pass
  BY <1>1 DEF Pass, TypeOK
<1>2. ASSUME NEW s \in Sub, Sweep(s) \/ Pause(s) \/ Delete(s) PROVE TypeOK'
  <2>1. tenant' \in [Sub -> [status : Status, since : Nat]]
    BY <1>2 DEF Sweep, Pause, Delete, TypeOK, Status
  <2> QED BY <1>2, <2>1 DEF Sweep, Pause, Delete, TypeOK
<1>3. ASSUME NEW s \in Sub, Start(s) \/ Suspend(s) \/ Recreate(s) PROVE TypeOK'
  <2>1. tenant' \in [Sub -> Tenant] /\ started' \subseteq Sub
    <3>1. CASE Start(s)
      BY <3>1 DEF Start, Run, TypeOK, Tenant, Status
    <3>2. CASE Suspend(s) \/ Recreate(s)
      BY <3>2, StopType, RecreatedType DEF Suspend, Recreate
    <3> QED BY <1>3, <3>1, <3>2
  <2> QED BY <1>3, <2>1 DEF Start, Suspend, Recreate, TypeOK, Tenant
<1>4. ASSUME NEW s \in Sub, SuspendAccepted(s) PROVE TypeOK'
  <2>1. tenant' \in [Sub -> Tenant] /\ started' \subseteq Sub
    BY <1>4, StopType DEF SuspendAccepted
  <2>2. mark' \in [Sub -> Loaded] /\ batch' \in [Sub -> Loaded]
    BY <1>4 DEF SuspendAccepted, Handled, TypeOK, Loaded
  <2> QED BY <1>4, <2>1, <2>2 DEF SuspendAccepted, TypeOK, Tenant
<1>5. ASSUME NEW s \in Sub, SuspendRefused(s) PROVE TypeOK'
  <2>1. batch' \in [Sub -> Loaded]
    BY <1>5 DEF SuspendRefused, Handled, TypeOK, Loaded
  <2> QED BY <1>5, <2>1 DEF SuspendRefused, TypeOK
<1>6. ASSUME NEW s \in Sub, NoticeSuspends(s) PROVE TypeOK'
  <2>1. tenant' \in [Sub -> Tenant] /\ started' \subseteq Sub
    <3>1. CASE UNCHANGED <<tenant, started>>
      BY <3>1 DEF TypeOK, Tenant
    <3>2. CASE Stop(s)
      BY <3>2, StopType
    <3> QED BY <1>6, <3>1, <3>2 DEF NoticeSuspends
  <2>2. faults' \in Nat /\ noticed' \subseteq Sub
    BY <1>6 DEF NoticeSuspends, TypeOK
  <2> QED BY <1>6, <2>1, <2>2 DEF NoticeSuspends, TypeOK, Tenant
<1>7. ASSUME NEW e \in Extender, NEW s \in Sub, NEW t \in Term, Begin(e, s, t) PROVE TypeOK'
  BY <1>7, BeginType
<1>8. ASSUME NEW e \in Extender, Select(e) PROVE TypeOK'
  <2>1. req[e] \in Open
    BY <1>8, Kinds DEF Select, TypeOK, Idle
  <2>2. row[req[e].sub].active \in BOOLEAN
    BY <2>1 DEF TypeOK, Open
  <2>3. [req[e] EXCEPT !.pc = "commit", !.active = row[req[e].sub].active] \in Open
    BY <2>1, <2>2 DEF Open
  <2>4. req' \in [Extender -> Request]
    BY <1>8, <2>3, Kinds DEF Select, TypeOK
  <2> QED BY <1>8, <2>4 DEF Select, TypeOK
<1>9. ASSUME NEW e \in Extender, Extend(e) PROVE TypeOK'
  <2>1. req[e] \in Open
    BY <1>9, Kinds DEF Extend, TypeOK, Idle
  <2>2. row' \in [Sub -> Row]
    BY <1>9, <2>1, ExtendedRowType DEF Extend, TypeOK, Row
  <2>3. promised' \in [Sub -> Nat]
    BY <1>9, <2>1, Kinds DEF Extend, TypeOK
  <2>4. overlap' \subseteq Sub /\ req' \in [Extender -> Request]
    BY <1>9, <2>1, Kinds DEF Extend, TypeOK, Open
  <2> QED BY <1>9, <2>2, <2>3, <2>4 DEF Extend, TypeOK, Row
<1>10. ASSUME NEW e \in Extender, Fail(e) PROVE TypeOK'
  BY <1>10, Kinds DEF Fail, TypeOK
<1>11. CASE SuspendBegins
  <2>1. batch' \in [Sub -> Loaded]
    BY <1>11 DEF SuspendBegins, TypeOK, Loaded
  <2> QED BY <1>11, <2>1 DEF SuspendBegins, TypeOK
<1>12. CASE SuspendCommits
  <2>1. row' \in [Sub -> Row]
    BY <1>12 DEF SuspendCommits, TypeOK, Row
  <2>2. mark' \in [Sub -> Loaded] /\ overlap' \subseteq Sub
    BY <1>12 DEF SuspendCommits, TypeOK, Loaded
  <2> QED BY <1>12, <2>1, <2>2 DEF SuspendCommits, TypeOK, Row
<1>13. CASE NoticeBegins
  BY <1>13 DEF NoticeBegins, TypeOK
<1>14. CASE WorkerCrash
  <2>1. batch' \in [Sub -> Loaded] /\ mark' \in [Sub -> Loaded]
    BY <1>14 DEF WorkerCrash, Loaded
  <2> QED BY <1>14, <2>1 DEF WorkerCrash, TypeOK
<1>15. CASE UNCHANGED vars
  BY <1>15 DEF vars, TypeOK
<1> QED
  BY <1>1, <1>2, <1>3, <1>4, <1>5, <1>6, <1>7, <1>8, <1>9, <1>10, <1>11, <1>12, <1>13, <1>14,
     <1>15 DEF Next

\* The variables keep their types (both workers, the extensions and the owner).
THEOREM Typing == Spec => []TypeOK
BY InitTypeOK, NextTypeOK, PTL DEF Spec

-----------------------------------------------------------------------------

\* A row that is inactive, or about to be marked so.
Marked(s) == ~row[s].active \/ mark[s] # Nothing

\* Behind it no container runs.
StoppedInv == \A s \in Sub : Marked(s) => ~Running(s) \/ s \in started

LEMMA StopStops ==
    ASSUME TypeOK, NEW s \in Sub, Stop(s)
    PROVE  /\ tenant'[s].status = "suspended"
           /\ \A u \in Sub \ {s} : tenant'[u] = tenant[u] /\ (u \in started' <=> u \in started)
BY DEF Stop, TypeOK

LEMMA RecreatedStarts ==
    ASSUME TypeOK, NEW s \in Sub, Recreated(s)
    PROVE  \A u \in Sub :
              (tenant'[u] = tenant[u] /\ (u \in started' <=> u \in started)) \/ u \in started'
BY DEF Recreated, TypeOK

\* An extension writes one row, and never clears its flag.
LEMMA ExtendKeepsFlags ==
    ASSUME TypeOK, NEW e \in Extender, Extend(e), NEW s \in Sub
    PROVE  row[s].active => row'[s].active
<1>1. req[e] \in Open
  BY Kinds DEF Extend, TypeOK, Idle
<1>2. CASE s = req[e].sub
  <2>1. row'[s] = ExtendedRow(req[e])
    BY <1>1, <1>2 DEF Extend, TypeOK
  <2> QED BY <1>2, <2>1 DEF ExtendedRow
<1>3. CASE s # req[e].sub
  BY <1>1, <1>3 DEF Extend, TypeOK
<1> QED BY <1>2, <1>3

LEMMA StoppedNext == TypeOK /\ StoppedInv /\ [Next]_vars => StoppedInv'
<1> SUFFICES ASSUME TypeOK, StoppedInv, [Next]_vars, NEW u \in Sub,
                    Marked(u)'
             PROVE  tenant'[u].status # "active" \/ u \in started'
  BY DEF StoppedInv, Running
<1> DEFINE Good == tenant'[u].status # "active" \/ u \in started'
           Same == tenant'[u] = tenant[u] /\ (u \in started' <=> u \in started)
<1> HIDE DEF Good
<1>0. ASSUME Marked(u), Same PROVE Good
  BY <1>0 DEF Good, StoppedInv, Running
<1>1. CASE Pass \/ SuspendBegins \/ NoticeBegins \/ UNCHANGED vars
  <2>1. row' = row /\ mark' = mark /\ Same
    BY <1>1 DEF Pass, SuspendBegins, NoticeBegins, vars
  <2> QED BY <1>0, <2>1 DEF Marked, Good
<1>2. ASSUME NEW s \in Sub, Sweep(s) \/ Pause(s) \/ Delete(s) PROVE Good
  <2>1. row' = row /\ mark' = mark /\ started' = started
    BY <1>2 DEF Sweep, Pause, Delete
  <2>2. u = s => tenant'[u].status # "active"
    BY <1>2 DEF Sweep, Pause, Delete, TypeOK
  <2>3. u # s => tenant'[u] = tenant[u]
    BY <1>2 DEF Sweep, Pause, Delete, TypeOK
  <2> QED BY <1>0, <2>1, <2>2, <2>3 DEF Good, Marked
<1>3. ASSUME NEW s \in Sub, Start(s) \/ Recreate(s) PROVE Good
  <2>1. row' = row /\ mark' = mark
    BY <1>3 DEF Start, Recreate
  <2>2. Same \/ u \in started'
    BY <1>3, RecreatedStarts DEF Start, Run, Recreate, TypeOK
  <2> QED BY <1>0, <2>1, <2>2 DEF Good, Marked
<1>4. ASSUME NEW s \in Sub, Suspend(s) \/ NoticeSuspends(s) PROVE Good
  <2>1. row' = row /\ mark' = mark
    BY <1>4 DEF Suspend, NoticeSuspends
  <2>2. Stop(s) \/ UNCHANGED <<tenant, started>>
    BY <1>4 DEF Suspend, NoticeSuspends
  <2>3. Same \/ tenant'[u].status = "suspended"
    BY <2>2, StopStops
  <2> QED BY <1>0, <2>1, <2>3 DEF Good, Marked
<1>5. ASSUME NEW s \in Sub, SuspendAccepted(s) PROVE Good
  <2>1. row' = row /\ Stop(s) /\ (u # s => mark'[u] = mark[u])
    BY <1>5 DEF SuspendAccepted, TypeOK
  <2>2. CASE u = s
    BY <2>1, <2>2, StopStops DEF Good
  <2>3. CASE u # s
    BY <1>0, <2>1, <2>3, StopStops DEF Marked
  <2> QED BY <2>2, <2>3
<1>6. ASSUME NEW s \in Sub, SuspendRefused(s) PROVE Good
  BY <1>0, <1>6 DEF SuspendRefused, Marked
<1>7. ASSUME NEW e \in Extender, NEW s \in Sub, NEW t \in Term, Begin(e, s, t) PROVE Good
  <2>1. row' = row /\ mark' = mark
    BY <1>7 DEF Begin
  <2>2. Recreated(s) \/ UNCHANGED <<tenant, started>>
    BY <1>7 DEF Begin
  <2>3. Same \/ u \in started'
    BY <2>2, RecreatedStarts
  <2> QED BY <1>0, <2>1, <2>3 DEF Good, Marked
<1>8. ASSUME NEW e \in Extender, Select(e) \/ Fail(e) PROVE Good
  BY <1>0, <1>8 DEF Select, Fail, Marked
<1>9. ASSUME NEW e \in Extender, Extend(e) PROVE Good
  <2>1. mark' = mark /\ Same
    BY <1>9 DEF Extend
  <2>2. ~row'[u].active => ~row[u].active
    BY <1>9, ExtendKeepsFlags
  <2> QED BY <1>0, <2>1, <2>2 DEF Marked
<1>10. CASE SuspendCommits
  <2>1. Same
    BY <1>10 DEF SuspendCommits
  <2>2. mark'[u] = Nothing
    BY <1>10 DEF SuspendCommits
  <2>3. mark[u] = Nothing => row'[u] = row[u]
    BY <1>10 DEF SuspendCommits
  <2> QED BY <1>0, <2>1, <2>2, <2>3 DEF Marked, Good
<1>11. CASE WorkerCrash
  <2>1. row' = row /\ Same /\ mark'[u] = Nothing
    BY <1>11 DEF WorkerCrash
  <2> QED BY <1>0, <2>1 DEF Marked, Good
<1> QED
  BY <1>1, <1>2, <1>3, <1>4, <1>5, <1>6, <1>7, <1>8, <1>9, <1>10, <1>11 DEF Next, Good

LEMMA StoppedInit == Init => StoppedInv
<1> SUFFICES ASSUME Init, NEW s \in Sub PROVE row[s].active /\ mark[s] = Nothing
  BY DEF StoppedInv, Marked
<1>1. PICK t \in Term : row = [x \in Sub |-> [end |-> t, active |-> TRUE]]
  BY DEF Init
<1> QED BY <1>1 DEF Init

\* The local mirror does not get ahead of the core: behind an inactive row no
\* container runs that was not started by hand (_tick_once marks what it stopped).
THEOREM Stopped == Spec => []InactiveIsStopped
<1>1. StoppedInv => InactiveIsStopped
  BY DEF StoppedInv, InactiveIsStopped, Marked
<1> QED BY <1>1, InitTypeOK, NextTypeOK, StoppedInit, StoppedNext, PTL DEF Spec

-----------------------------------------------------------------------------

\* What a batch has loaded is over.
PastInv ==
    \A s \in Sub :
       /\ batch[s] # Nothing => batch[s].at <= now
       /\ mark[s] # Nothing => mark[s].at <= now

\* An extension starts no earlier than the end it has loaded, unless the row was
\* inactive before its end, which only an overlap can bring about.
BaseInv == \A e \in Extender : req[e] # Idle => req[e].sub \in overlap \/ req[e].end <= req[e].base

TermInv == TypeOK /\ PastInv /\ BaseInv /\ RunningTermIsActive /\ NoDaysLost

LEMMA TermInit == Init => TermInv
<1> SUFFICES ASSUME Init PROVE TermInv
  OBVIOUS
<1>1. PICK t \in Term : row = [x \in Sub |-> [end |-> t, active |-> TRUE]]
  BY DEF Init
<1>2. RunningTermIsActive
  BY <1>1 DEF RunningTermIsActive
<1>3. t \in Nat
  BY TermAssumption
<1>4. NoDaysLost
  <2>1. \A s \in Sub : row[s].end = promised[s] /\ row[s].end \in Nat
    BY <1>1, <1>3 DEF Init
  <2> QED BY <2>1 DEF NoDaysLost
<1>5. PastInv /\ BaseInv
  BY DEF Init, PastInv, BaseInv
<1> QED BY InitTypeOK, <1>2, <1>4, <1>5 DEF TermInv

\* What neither the clock nor a commit changes.
LEMMA TermRest ==
    ASSUME TermInv, [Next]_vars, ~Pass, ~SuspendCommits, ~(\E e \in Extender : Extend(e))
    PROVE  now' = now /\ row' = row /\ promised' = promised /\ overlap' = overlap
<1> USE DEF vars
<1>1. ASSUME NEW s \in Sub, Sweep(s) \/ Start(s) \/ Suspend(s) \/ Pause(s) \/ Delete(s) \/ Recreate(s)
      PROVE  now' = now /\ row' = row /\ promised' = promised /\ overlap' = overlap
  BY <1>1 DEF Sweep, Start, Suspend, Pause, Delete, Recreate
<1>2. ASSUME NEW s \in Sub, SuspendAccepted(s) \/ SuspendRefused(s) \/ NoticeSuspends(s)
      PROVE  now' = now /\ row' = row /\ promised' = promised /\ overlap' = overlap
  BY <1>2 DEF SuspendAccepted, SuspendRefused, NoticeSuspends
<1>3. ASSUME NEW e \in Extender, Select(e) \/ Fail(e) \/ (\E s \in Sub, t \in Term : Begin(e, s, t))
      PROVE  now' = now /\ row' = row /\ promised' = promised /\ overlap' = overlap
  BY <1>3 DEF Select, Fail, Begin
<1>4. CASE SuspendBegins \/ NoticeBegins \/ WorkerCrash \/ UNCHANGED vars
  BY <1>4 DEF SuspendBegins, NoticeBegins, WorkerCrash
<1> QED BY <1>1, <1>2, <1>3, <1>4 DEF Next

LEMMA PastNext == TermInv /\ [Next]_vars => PastInv'
<1> SUFFICES ASSUME TermInv, [Next]_vars, NEW s \in Sub
             PROVE  /\ batch'[s] # Nothing => batch'[s].at <= now'
                    /\ mark'[s] # Nothing => mark'[s].at <= now'
  BY DEF PastInv
<1>0. TypeOK /\ now \in Nat /\ now' \in Nat /\ now <= now' /\ Grace \in Nat
  <2>1. TypeOK /\ TypeOK' /\ Grace \in Nat
    BY NextTypeOK, TimeAssumption DEF TermInv
  <2>2. now' = now \/ now' = now + 1
    BY TermRest DEF Pass, SuspendCommits, Extend
  <2> QED BY <2>1, <2>2 DEF TypeOK
<1>1. /\ batch[s] # Nothing => batch[s].at \in Nat /\ batch[s].at <= now
      /\ mark[s] # Nothing => mark[s].at \in Nat /\ mark[s].at <= now
  <2>1. batch[s] \in Loaded /\ mark[s] \in Loaded
    BY <1>0 DEF TypeOK
  <2>2. \A a \in Loaded : a # Nothing => a.at \in Nat
    BY Kinds DEF Loaded
  <2> QED BY <2>1, <2>2 DEF TermInv, PastInv
<1>2. batch'[s] \in {batch[s], Nothing} \/ (batch'[s] = [at |-> row[s].end] /\ Due(s))
  <2>1. CASE SuspendBegins
    BY <2>1 DEF SuspendBegins
  <2>2. ASSUME NEW u \in Sub, SuspendAccepted(u) \/ SuspendRefused(u) PROVE batch'[s] \in {batch[s], Nothing}
    BY <1>0, <2>2 DEF SuspendAccepted, SuspendRefused, Handled, TypeOK
  <2>3. CASE WorkerCrash
    BY <2>3 DEF WorkerCrash
  <2>4. ASSUME NEW u \in Sub,
               Sweep(u) \/ Start(u) \/ Suspend(u) \/ Pause(u) \/ Delete(u) \/ Recreate(u) \/ NoticeSuspends(u)
        PROVE  batch' = batch
    BY <2>4 DEF Sweep, Start, Suspend, Pause, Delete, Recreate, NoticeSuspends
  <2>5. ASSUME NEW e \in Extender, Select(e) \/ Fail(e) \/ Extend(e) \/ (\E u \in Sub, t \in Term : Begin(e, u, t))
        PROVE  batch' = batch
    BY <2>5 DEF Select, Fail, Extend, Begin
  <2>6. CASE Pass \/ SuspendCommits \/ NoticeBegins \/ UNCHANGED vars
    BY <2>6 DEF Pass, SuspendCommits, NoticeBegins, vars
  <2> QED BY <2>1, <2>2, <2>3, <2>4, <2>5, <2>6 DEF Next
<1>3. mark'[s] \in {mark[s], batch[s], Nothing}
  <2>1. ASSUME NEW u \in Sub, SuspendAccepted(u) \/ SuspendRefused(u) PROVE mark'[s] \in {mark[s], batch[s]}
    BY <1>0, <2>1 DEF SuspendAccepted, SuspendRefused, TypeOK
  <2>2. CASE WorkerCrash \/ SuspendCommits
    BY <2>2 DEF WorkerCrash, SuspendCommits
  <2>3. ASSUME NEW u \in Sub,
               Sweep(u) \/ Start(u) \/ Suspend(u) \/ Pause(u) \/ Delete(u) \/ Recreate(u) \/ NoticeSuspends(u)
        PROVE  mark' = mark
    BY <2>3 DEF Sweep, Start, Suspend, Pause, Delete, Recreate, NoticeSuspends
  <2>4. ASSUME NEW e \in Extender, Select(e) \/ Fail(e) \/ Extend(e) \/ (\E u \in Sub, t \in Term : Begin(e, u, t))
        PROVE  mark' = mark
    BY <2>4 DEF Select, Fail, Extend, Begin
  <2>5. CASE Pass \/ SuspendBegins \/ NoticeBegins \/ UNCHANGED vars
    BY <2>5 DEF Pass, SuspendBegins, NoticeBegins, vars
  <2> QED BY <2>1, <2>2, <2>3, <2>4, <2>5 DEF Next
<1>4. ASSUME Due(s) PROVE row[s].end \in Nat /\ row[s].end <= now
  <2>1. row[s].end \in Nat
    BY <1>0 DEF TypeOK
  <2>2. row[s].end < now - Grace
    BY <1>4 DEF Due
  <2> QED BY <1>0, <2>1, <2>2
<1>5. batch'[s] # Nothing => batch'[s].at <= now'
  <2>1. CASE batch'[s] \in {batch[s], Nothing}
    BY <1>0, <1>1, <2>1
  <2>2. CASE batch'[s] = [at |-> row[s].end] /\ Due(s)
    <3>1. batch'[s].at = row[s].end
      BY <2>2
    <3> QED BY <1>0, <1>4, <2>2, <3>1
  <2> QED BY <1>2, <2>1, <2>2
<1>6. mark'[s] # Nothing => mark'[s].at <= now'
  BY <1>0, <1>1, <1>3
<1> QED BY <1>5, <1>6

LEMMA OverlapGrows == ASSUME TermInv, [Next]_vars PROVE overlap \subseteq overlap'
<1>1. CASE Pass \/ SuspendCommits
  BY <1>1 DEF Pass, SuspendCommits
<1>2. ASSUME NEW e \in Extender, Extend(e) PROVE overlap \subseteq overlap'
  BY <1>2 DEF Extend
<1> QED BY <1>1, <1>2, TermRest

LEMMA BaseNext == TermInv /\ [Next]_vars => BaseInv'
<1> SUFFICES ASSUME TermInv, [Next]_vars, NEW e \in Extender, req'[e] # Idle
             PROVE  req'[e].sub \in overlap' \/ req'[e].end <= req'[e].base
  BY DEF BaseInv
<1> DEFINE Good(r) == r.sub \in overlap' \/ r.end <= r.base
<1>0. TypeOK /\ overlap \subseteq overlap' /\ (req[e] # Idle => Good(req[e]))
  BY OverlapGrows DEF TermInv, BaseInv
<1>1. ASSUME NEW x \in Extender, NEW s \in Sub, NEW t \in Term, Begin(x, s, t) PROVE Good(req'[e])
  <2>1. CASE x # e
    BY <1>0, <1>1, <2>1 DEF Begin, TypeOK
  <2>2. CASE x = e
    <3>1. req'[e].sub = s /\ req'[e].end = row[s].end /\ req'[e].base = Base(s)
      BY <1>0, <1>1, <2>2 DEF Begin, TypeOK
    <3>2. row[s].end \in Nat /\ now \in Nat
      BY <1>0 DEF TypeOK
    <3>3. CASE Live(s)
      BY <3>1, <3>2, <3>3 DEF Base
    <3>4. CASE ~Live(s)
      <4>1. s \in overlap \/ row[s].end <= now
        <5>1. s \in overlap \/ row[s].active \/ row[s].end <= now
          BY DEF TermInv, RunningTermIsActive
        <5>2. ~row[s].active \/ row[s].end <= now
          BY <3>2, <3>4 DEF Live
        <5> QED BY <5>1, <5>2
      <4>2. req'[e].base = now
        BY <3>1, <3>4 DEF Base
      <4> QED BY <1>0, <3>1, <4>1, <4>2
    <3> QED BY <3>3, <3>4
  <2> QED BY <2>1, <2>2
<1>2. ASSUME NEW x \in Extender, Select(x) PROVE Good(req'[e])
  <2>1. CASE x # e
    BY <1>0, <1>2, <2>1 DEF Select, TypeOK
  <2>2. CASE x = e
    <3>1. req[e] \in Open
      BY <1>0, <1>2, <2>2, Kinds DEF Select, TypeOK, Idle
    <3>2. req'[e].sub = req[e].sub /\ req'[e].end = req[e].end /\ req'[e].base = req[e].base
      BY <1>0, <1>2, <2>2, <3>1 DEF Select, TypeOK, Open
    <3>3. Good(req[e])
      BY <1>0, <3>1, Kinds
    <3> QED BY <3>2, <3>3
  <2> QED BY <2>1, <2>2
<1>3. ASSUME NEW x \in Extender, Extend(x) \/ Fail(x) PROVE Good(req'[e])
  BY <1>0, <1>3 DEF Extend, Fail, TypeOK
<1>4. CASE req' = req
  BY <1>0, <1>4
<1>5. CASE Pass \/ SuspendBegins \/ SuspendCommits \/ NoticeBegins \/ WorkerCrash \/ UNCHANGED vars
  BY <1>4, <1>5 DEF Pass, SuspendBegins, SuspendCommits, NoticeBegins, WorkerCrash, vars
<1>6. ASSUME NEW s \in Sub,
             Sweep(s) \/ Start(s) \/ Suspend(s) \/ Pause(s) \/ Delete(s) \/ Recreate(s)
             \/ SuspendAccepted(s) \/ SuspendRefused(s) \/ NoticeSuspends(s)
      PROVE  req' = req
  BY <1>6 DEF Sweep, Start, Suspend, Pause, Delete, Recreate, SuspendAccepted, SuspendRefused, NoticeSuspends
<1> QED BY <1>1, <1>2, <1>3, <1>4, <1>5, <1>6 DEF Next

\* The row an extension writes, when nobody has changed it since it was loaded.
LEMMA ExtendFresh ==
    ASSUME TermInv, NEW e \in Extender, Extend(e), NEW s \in Sub, s \notin overlap'
    PROVE  /\ s \notin overlap
           /\ s # req[e].sub => row'[s] = row[s] /\ promised'[s] = promised[s]
           /\ s = req[e].sub =>
                 /\ row'[s].active
                 /\ row'[s].end = req[e].base + req[e].term
                 /\ row[s].end <= req[e].base
                 /\ promised'[s] \in {promised[s], row'[s].end}
<1>0. TypeOK /\ req[e] \in Open /\ req[e] # Idle
  BY Kinds DEF TermInv, Extend, TypeOK, Idle
<1>1. s \notin overlap /\ (s # req[e].sub => row'[s] = row[s] /\ promised'[s] = promised[s])
  BY <1>0 DEF Extend, TypeOK
<1>2. ASSUME s = req[e].sub
      PROVE  /\ row'[s].active
             /\ row'[s].end = req[e].base + req[e].term
             /\ row[s].end <= req[e].base
             /\ promised'[s] \in {promised[s], row'[s].end}
  <2>1. row'[s] = ExtendedRow(req[e])
    BY <1>0, <1>2 DEF Extend, TypeOK
  <2>2. row[s] = [end |-> req[e].end, active |-> req[e].active]
    BY <1>2 DEF Extend
  <2>3. row[s].end <= req[e].base
    <3>1. req[e].end <= req[e].base
      BY <1>0, <1>1, <1>2 DEF TermInv, BaseInv
    <3>2. row[s].end = req[e].end
      BY <2>2
    <3> QED BY <3>1, <3>2
  <2>4. row'[s].active
    <3>1. row[s].active = req[e].active
      BY <2>2
    <3> QED BY <1>2, <2>1, <3>1 DEF ExtendedRow
  <2>5. row'[s].end = req[e].base + req[e].term
    BY <2>1 DEF ExtendedRow
  <2>6. promised'[s] \in {promised[s], req[e].base + req[e].term}
    BY <1>0, <1>2 DEF Extend, TypeOK
  <2> QED BY <2>3, <2>4, <2>5, <2>6
<1> QED BY <1>1, <1>2

LEMMA RunningNext == TermInv /\ [Next]_vars => RunningTermIsActive'
<1> SUFFICES ASSUME TermInv, [Next]_vars, NEW s \in Sub, s \notin overlap'
             PROVE  row'[s].active \/ row'[s].end <= now'
  BY DEF RunningTermIsActive
<1>0. TypeOK /\ s \notin overlap /\ now \in Nat /\ row[s].end \in Nat
  BY OverlapGrows DEF TermInv, TypeOK
<1>1. row[s].active \/ row[s].end <= now
  BY <1>0 DEF TermInv, RunningTermIsActive
<1>2. CASE Pass
  <2>1. row' = row /\ now' = now + 1
    BY <1>2 DEF Pass
  <2>2. row[s].end <= now => row[s].end <= now + 1
    BY <1>0
  <2> QED BY <1>1, <2>1, <2>2
<1>3. CASE SuspendCommits
  <2>1. now' = now /\ (mark[s] = Nothing => row'[s] = row[s])
    BY <1>3 DEF SuspendCommits
  <2>2. ASSUME mark[s] # Nothing PROVE row'[s].end <= now
    <3>1. row[s].end = mark[s].at /\ row'[s].end = row[s].end
      BY <1>0, <1>3, <2>2 DEF SuspendCommits, TypeOK
    <3> QED BY <2>2, <3>1 DEF TermInv, PastInv
  <2> QED BY <1>1, <2>1, <2>2
<1>4. ASSUME NEW e \in Extender, Extend(e) PROVE row'[s].active \/ row'[s].end <= now'
  <2>1. now' = now
    BY <1>4 DEF Extend
  <2> QED BY <1>1, <1>4, <2>1, ExtendFresh
<1>5. CASE now' = now /\ row' = row
  BY <1>1, <1>5
<1> QED BY <1>2, <1>3, <1>4, <1>5, TermRest

LEMMA NoDaysNext == TermInv /\ [Next]_vars => NoDaysLost'
<1> SUFFICES ASSUME TermInv, [Next]_vars, NEW s \in Sub, s \notin overlap'
             PROVE  row'[s].end >= promised'[s]
  BY DEF NoDaysLost
<1>0. TypeOK /\ s \notin overlap /\ row[s].end \in Nat /\ promised[s] \in Nat
  BY OverlapGrows DEF TermInv, TypeOK
<1>1. row[s].end >= promised[s]
  BY <1>0 DEF TermInv, NoDaysLost
<1>2. CASE Pass
  BY <1>1, <1>2 DEF Pass
<1>3. CASE SuspendCommits
  <2>1. row'[s].end = row[s].end /\ promised' = promised
    BY <1>0, <1>3 DEF SuspendCommits, TypeOK
  <2> QED BY <1>1, <2>1
<1>4. ASSUME NEW e \in Extender, Extend(e) PROVE row'[s].end >= promised'[s]
  <2>1. CASE s # req[e].sub
    BY <1>1, <1>4, <2>1, ExtendFresh
  <2>2. CASE s = req[e].sub
    <3>1. req[e].base \in Nat /\ req[e].term \in Nat
      BY <1>0, <1>4, Kinds DEF Extend, TypeOK, Idle, Open
    <3>2. /\ row'[s].end = req[e].base + req[e].term /\ row[s].end <= req[e].base
          /\ promised'[s] \in {promised[s], row'[s].end}
      BY <1>4, <2>2, ExtendFresh
    <3>3. row'[s].end >= promised[s] /\ row'[s].end >= row'[s].end
      BY <1>0, <1>1, <3>1, <3>2
    <3> QED BY <3>2, <3>3
  <2> QED BY <2>1, <2>2
<1>5. CASE row' = row /\ promised' = promised
  BY <1>1, <1>5
<1> QED BY <1>2, <1>3, <1>4, <1>5, TermRest

LEMMA TermNext == TermInv /\ [Next]_vars => TermInv'
BY NextTypeOK, PastNext, BaseNext, RunningNext, NoDaysNext DEF TermInv

\* A term that still runs is active, except where one transaction committed over
\* another's change (activate_subscription, _tick_once).
THEOREM RunningActive == Spec => []RunningTermIsActive
<1>1. TermInv => RunningTermIsActive
  BY DEF TermInv
<1> QED BY <1>1, TermInit, TermNext, PTL DEF Spec

\* With the same exception no reported end date is taken back, however many payments
\* and bonuses extend one row (activate_subscription, extend_active_subscription_days).
THEOREM DaysKept == Spec => []NoDaysLost
<1>1. TermInv => NoDaysLost
  BY DEF TermInv
<1> QED BY <1>1, TermInit, TermNext, PTL DEF Spec

================================================================================
