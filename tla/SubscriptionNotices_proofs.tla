----------------------- MODULE SubscriptionNotices_proofs -----------------------
(***************************************************************************)
(* Proofs about SubscriptionNotices, for every set of rows, channels and   *)
(* extenders and every value of the windows and the bounds.                *)
(***************************************************************************)
EXTENDS SubscriptionNotices, TLAPS

USE DEF notices, warnings

Row == [end : Nat, active : BOOLEAN, period : Nat, paid : Nat]

Open == [pc : {"open"}, sub : Sub, end : Nat, live : BOOLEAN, active : BOOLEAN]

Look == [sub : Sub, done : SUBSET Level, paid : Nat]

LEMMA Requests == /\ Request = {Idle} \cup Open
                  /\ \A r \in Open : r # Idle
<1>1. \A r \in Open : r # Idle
  BY DEF Open, Idle
<1> QED BY <1>1 DEF Request, Open

LEMMA TermsAreNat == Term \subseteq Nat
BY TermAssumption

LEMMA InitTypeOK == Init => TypeOK
<1> SUFFICES ASSUME Init PROVE TypeOK
  OBVIOUS
<1>1. PICK t \in Term : row = [s \in Sub |-> [end |-> t, active |-> TRUE, period |-> 0, paid |-> 0]]
  BY DEF Init
<1>2. row \in [Sub -> Row]
  BY <1>1, TermsAreNat DEF Row
<1> QED BY <1>2 DEF Init, TypeOK, Row, Request

LEMMA RecordType == ASSUME NEW n \in Notice PROVE RecordOf(n) \in Record
BY DEF Notice, RecordOf, Record

\* What an extension writes.
LEMMA ExtendedType ==
    ASSUME TypeOK, NEW e \in Extender, req[e] # Idle, NEW p \in Nat, NEW q \in Nat, Extended(e, p, q)
    PROVE  row' \in [Sub -> Row] /\ req' \in [Extender -> Request]
<1>1. req[e] \in Open
  BY Requests DEF TypeOK
<1> DEFINE active == req[e].active => row[req[e].sub].active
<1>2. [end |-> req[e].end, active |-> active, period |-> p, paid |-> q] \in Row
  BY <1>1 DEF Open, Row
<1>3. row' \in [Sub -> Row]
  <2>1. row' = [row EXCEPT ![req[e].sub] = [end |-> req[e].end, active |-> active, period |-> p, paid |-> q]]
    BY DEF Extended
  <2> HIDE DEF active
  <2> QED BY <1>1, <1>2, <2>1 DEF TypeOK, Row, Open
<1>4. req' \in [Extender -> Request]
  BY Requests DEF Extended, TypeOK
<1> QED BY <1>3, <1>4

LEMMA RowsOfRequest ==
    ASSUME TypeOK, NEW e \in Extender, req[e] # Idle
    PROVE  /\ req[e].sub \in Sub /\ req[e].live \in BOOLEAN
           /\ row[req[e].sub].period \in Nat /\ row[req[e].sub].period + 1 \in Nat
           /\ row[req[e].sub].paid \in Nat /\ row[req[e].sub].paid + 1 \in Nat
<1>1. req[e] \in Open
  BY Requests DEF TypeOK
<1>2. req[e].sub \in Sub /\ req[e].live \in BOOLEAN
  BY <1>1 DEF Open
<1> QED BY <1>2 DEF TypeOK

\* Every step keeps the type invariant.
LEMMA NextTypeOK == TypeOK /\ [Next]_vars => TypeOK'
<1> SUFFICES ASSUME TypeOK, [Next]_vars PROVE TypeOK'
  OBVIOUS
<1>1. CASE Pass
  BY <1>1 DEF Pass, TypeOK
<1>2. ASSUME NEW s \in Sub, Suspend(s) PROVE TypeOK'
  <2>1. row' \in [Sub -> Row] /\ since' \in [Sub -> Nat \cup {-1}]
    BY <1>2 DEF Suspend, TypeOK, Row
  <2> QED BY <1>2, <2>1 DEF Suspend, TypeOK, Row
<1>3. ASSUME NEW s \in Sub, Start(s) PROVE TypeOK'
  <2>1. since' \in [Sub -> Nat \cup {-1}]
    BY <1>3 DEF Start, TypeOK
  <2> QED BY <1>3, <2>1 DEF Start, TypeOK
<1>4. ASSUME NEW e \in Extender, NEW s \in Sub, NEW t \in Term, Begin(e, s, t) PROVE TypeOK'
  <2> DEFINE live == row[s].active /\ row[s].end > now
             base == IF live THEN row[s].end ELSE now
  <2>1. base \in Nat /\ t \in Nat
    BY TermsAreNat DEF TypeOK
  <2>2. base + t \in Nat
    BY <2>1
  <2> HIDE DEF base
  <2>3. [pc |-> "open", sub |-> s, end |-> base + t, live |-> live, active |-> live] \in Open
    BY <2>2 DEF Open
  <2>4. req' = [req EXCEPT ![e] = [pc |-> "open", sub |-> s, end |-> base + t, live |-> live, active |-> live]]
    BY <1>4 DEF Begin, base
  <2>5. req' \in [Extender -> Request]
    BY <2>3, <2>4, Requests DEF TypeOK
  <2> QED BY <1>4, <2>5 DEF Begin, TypeOK
<1>5. ASSUME NEW e \in Extender, Renew(e) PROVE TypeOK'
  <2>1. row' \in [Sub -> Row] /\ req' \in [Extender -> Request]
    BY <1>5, RowsOfRequest, ExtendedType DEF Renew
  <2>2. log' \subseteq Record /\ marks' \subseteq Mark /\ told' \subseteq Notice
    BY <1>5 DEF Renew, Cleared, TypeOK
  <2> QED BY <1>5, <2>1, <2>2 DEF Renew, TypeOK, Row
<1>6. ASSUME NEW e \in Extender, GiveDays(e) PROVE TypeOK'
  <2>1. row' \in [Sub -> Row] /\ req' \in [Extender -> Request]
    BY <1>6, RowsOfRequest, ExtendedType DEF GiveDays
  <2>2. log' \subseteq Record /\ told' \subseteq Notice
    BY <1>6 DEF GiveDays, Cleared, TypeOK
  <2> QED BY <1>6, <2>1, <2>2 DEF GiveDays, TypeOK, Row
<1>7. ASSUME NEW e \in Extender, Fail(e) PROVE TypeOK'
  BY <1>7, Requests DEF Fail, Fault, TypeOK
<1>8. CASE TickBegins
  <2>1. due' \subseteq Notice
    BY <1>8 DEF TickBegins, TypeOK, Notice
  <2> QED BY <1>8, <2>1 DEF TickBegins, TypeOK
<1>9. ASSUME NEW n \in due, Skip(n) PROVE TypeOK'
  <2>1. faults' \in Nat /\ due' \subseteq Notice
    BY <1>9 DEF Skip, Fault, TypeOK
  <2> QED BY <1>9, <2>1 DEF Skip, TypeOK
<1>10. ASSUME NEW n \in due, Send(n) PROVE TypeOK'
  BY <1>10 DEF Send, TypeOK
<1>11. ASSUME NEW n \in sent, Write(n) PROVE TypeOK'
  <2>1. n \in Notice /\ n.sub \in Sub
    BY DEF TypeOK, Notice
  <2>2. fresh' \subseteq Record /\ overlap' \subseteq Sub
    BY <1>11, <2>1, RecordType DEF Write, TypeOK
  <2> QED BY <1>11, <2>2 DEF Write, TypeOK
<1>12. CASE TickCommits
  BY <1>12 DEF TickCommits, TypeOK
<1>13. CASE TickFails
  BY <1>13 DEF TickFails, Fault, TypeOK
<1>14. CASE WarnerBegins
  <2>1. looked' \subseteq Look
    <3>1. \A m \in marks : m.level \in Level
      BY DEF TypeOK, Mark
    <3>2. \A s \in Sub : row[s].paid \in Nat
      BY DEF TypeOK
    <3>3. \A s \in Sub : [sub |-> s, done |-> {m.level : m \in {x \in marks : x.sub = s}},
                          paid |-> row[s].paid] \in Look
      BY <3>1, <3>2 DEF Look
    <3> QED BY <1>14, <3>3 DEF WarnerBegins
  <2> QED BY <1>14, <2>1 DEF WarnerBegins, TypeOK, Look
<1>15. ASSUME NEW l \in looked, Warn(l) PROVE TypeOK'
  <2>1. l.sub \in Sub /\ l.paid \in Nat
    BY DEF TypeOK
  <2>2. \A x : LevelAt(x) \subseteq Level
    BY DEF LevelAt, Level
  <2>3. warned' \subseteq Mark
    <3>1. CASE UNCHANGED warned
      BY <3>1 DEF TypeOK
    <3>2. ASSUME NEW level \in SUBSET Level,
                 warned' = warned \cup [sub : {l.sub}, level : level, paid : {l.paid}]
          PROVE  warned' \subseteq Mark
      BY <2>1, <3>2 DEF TypeOK, Mark
    <3> QED BY <1>15, <2>2, <3>1, <3>2 DEF Warn
  <2>4. faults' \in Nat /\ looked' \subseteq looked
    BY <1>15 DEF Warn, Fault, TypeOK
  <2> QED BY <1>15, <2>3, <2>4 DEF Warn, TypeOK
<1>16. CASE WarnerCommits
  <2>1. marks' \subseteq Mark
    BY <1>16 DEF WarnerCommits, TypeOK
  <2>2. overlap' \subseteq Sub
    BY <1>16 DEF WarnerCommits, TypeOK, Mark
  <2> QED BY <1>16, <2>1, <2>2 DEF WarnerCommits, TypeOK
<1>17. CASE WarnerFails
  BY <1>17 DEF WarnerFails, Fault, TypeOK
<1>18. CASE UNCHANGED vars
  BY <1>18 DEF vars, TypeOK
<1>19. ASSUME NEW e \in Extender, Select(e) PROVE TypeOK'
  <2>1. req[e] \in Open
    BY <1>19, Requests DEF Select, TypeOK
  <2>2. [req[e] EXCEPT !.active = TRUE] \in Open
    BY <2>1 DEF Open
  <2>3. req' \in [Extender -> Request]
    BY <1>19, <2>2, Requests DEF Select, TypeOK
  <2> QED BY <1>19, <2>3 DEF Select, TypeOK
<1> QED
  BY <1>1, <1>2, <1>3, <1>4, <1>5, <1>6, <1>7, <1>8, <1>9, <1>10, <1>11, <1>12, <1>13, <1>14,
     <1>15, <1>16, <1>17, <1>18, <1>19 DEF Next

\* The variables keep their types (the notifier, the deletion warner, extensions).
THEOREM Typing == Spec => []TypeOK
BY InitTypeOK, NextTypeOK, PTL DEF Spec

-----------------------------------------------------------------------------

\* What is recorded or marked, committed or not, is of the present period.
CleanInv ==
    /\ \A r \in log \cup fresh : r.sub \in overlap \/ r.period = row[r.sub].period
    /\ \A m \in marks : m.sub \in overlap \/ m.paid = row[m.sub].paid

\* The periods of a row that is not locked may change, and only grow.
LEMMA PeriodsGrow ==
    ASSUME TypeOK, [Next]_vars
    PROVE  /\ \A s \in Sub : row'[s].period \in Nat /\ row[s].period <= row'[s].period
           /\ \A s \in Locked : row'[s] = row[s]
           /\ overlap \subseteq overlap'
<1> DEFINE Grow == /\ \A s \in Sub : row'[s].period \in Nat /\ row[s].period <= row'[s].period
                   /\ \A s \in Locked : row'[s] = row[s]
                   /\ overlap \subseteq overlap'
<1>0. \A s \in Sub : row[s].period \in Nat
  BY DEF TypeOK
<1>1. CASE row' = row /\ overlap \subseteq overlap'
  BY <1>0, <1>1
<1>2. ASSUME NEW s \in Sub, Suspend(s) PROVE Grow
  <2>1. \A u \in Sub : row'[u].period = row[u].period
    BY <1>2 DEF Suspend, TypeOK
  <2>2. \A u \in Locked : row'[u] = row[u]
    BY <1>2 DEF Suspend, TypeOK, Locked, Record
  <2> QED BY <1>0, <1>2, <2>1, <2>2 DEF Suspend
<1>3. ASSUME NEW e \in Extender, Renew(e) \/ GiveDays(e) PROVE Grow
  <2>1. req[e] # Idle /\ overlap' = overlap
    BY <1>3 DEF Renew, GiveDays
  <2>2. PICK p \in {row[req[e].sub].period, row[req[e].sub].period + 1}, q \in Nat : Extended(e, p, q)
    BY <1>3, <2>1, RowsOfRequest DEF Renew, GiveDays
  <2>3. req[e].sub \in Sub /\ row[req[e].sub].period <= p /\ p \in Nat
    BY <2>1, <2>2, RowsOfRequest
  <2>4. PICK a : row' = [row EXCEPT ![req[e].sub] = [end |-> req[e].end, active |-> a, period |-> p, paid |-> q]]
    BY <2>2 DEF Extended
  <2>5. /\ \A u \in Sub : u # req[e].sub => row'[u] = row[u]
        /\ \A u \in Sub : row'[u].period = IF u = req[e].sub THEN p ELSE row[u].period
    BY <2>3, <2>4 DEF TypeOK
  <2>6. \A u \in Locked : row'[u] = row[u]
    BY <2>2, <2>5 DEF Extended, Locked, TypeOK, Record
  <2> QED BY <1>0, <2>1, <2>3, <2>5, <2>6
<1>4. ASSUME NEW s \in Sub, Start(s) PROVE Grow
  BY <1>1, <1>4 DEF Start
<1>5. ASSUME NEW e \in Extender, Fail(e) \/ Select(e) \/ (\E s \in Sub, t \in Term : Begin(e, s, t)) PROVE Grow
  BY <1>1, <1>5 DEF Fail, Select, Begin
<1>6. ASSUME NEW n \in Notice, Skip(n) \/ Send(n) \/ Write(n) PROVE Grow
  BY <1>1, <1>6 DEF Skip, Send, Write
<1>7. ASSUME NEW l \in looked, Warn(l) PROVE Grow
  BY <1>1, <1>7 DEF Warn
<1>8. CASE Pass \/ TickBegins \/ TickCommits \/ TickFails \/ WarnerBegins \/ WarnerCommits \/ WarnerFails
           \/ UNCHANGED vars
  BY <1>1, <1>8 DEF Pass, TickBegins, TickCommits, TickFails, WarnerBegins, WarnerCommits, WarnerFails, vars
<1>9. due \subseteq Notice /\ sent \subseteq Notice
  BY DEF TypeOK
<1> QED BY <1>2, <1>3, <1>4, <1>5, <1>6, <1>7, <1>8, <1>9 DEF Next

LEMMA CleanInit == Init => CleanInv
BY DEF Init, CleanInv

\* An extension deletes the records of the period it ends.
LEMMA ExtendClean ==
    ASSUME TypeOK, CleanInv, NEW e \in Extender, Renew(e) \/ GiveDays(e)
    PROVE  CleanInv'
<1> DEFINE s == req[e].sub
<1>1. req[e] # Idle /\ overlap' = overlap /\ fresh' = fresh /\ s \in Sub
  BY RowsOfRequest DEF Renew, GiveDays
<1>2. \A u \in Sub \ {s} : row'[u] = row[u]
  BY <1>1 DEF Renew, GiveDays, Extended, TypeOK
<1>3. \A r \in log \cup fresh : r.sub \in Sub
  BY DEF TypeOK, Record
<1>4. \A m \in marks : m.sub \in Sub
  BY DEF TypeOK, Mark
<1>5. \A r \in fresh : r.sub # s
  BY DEF Renew, GiveDays, Extended, Locked
<1>6. ASSUME NEW r \in log' \cup fresh' PROVE r.sub \in overlap' \/ r.period = row'[r.sub].period
  <2>1. CASE r.sub # s
    BY <1>1, <1>2, <1>3, <1>6, <2>1 DEF CleanInv, Renew, GiveDays, Cleared
  <2>2. CASE r.sub = s
    <3>1. log' = log /\ row'[s].period = row[s].period
      BY <1>1, <1>5, <1>6, <2>2 DEF Renew, GiveDays, Extended, Cleared, TypeOK
    <3> QED BY <1>1, <1>6, <2>2, <3>1 DEF CleanInv
  <2> QED BY <2>1, <2>2
<1>7. ASSUME NEW m \in marks' PROVE m.sub \in overlap' \/ m.paid = row'[m.sub].paid
  <2>1. CASE m.sub # s
    BY <1>1, <1>2, <1>4, <1>7, <2>1 DEF CleanInv, Renew, GiveDays
  <2>2. CASE m.sub = s
    <3>1. marks' = marks /\ row'[s].paid = row[s].paid
      BY <1>1, <1>7, <2>2 DEF Renew, GiveDays, Extended, TypeOK
    <3> QED BY <1>1, <1>7, <2>2, <3>1 DEF CleanInv
  <2> QED BY <2>1, <2>2
<1> QED BY <1>6, <1>7 DEF CleanInv

LEMMA CleanNext == TypeOK /\ CleanInv /\ [Next]_vars => CleanInv'
<1> SUFFICES ASSUME TypeOK, CleanInv, [Next]_vars PROVE CleanInv'
  OBVIOUS
<1>1. CASE UNCHANGED <<row, log, fresh, marks, overlap>>
  BY <1>1 DEF CleanInv
<1>2. ASSUME NEW s \in Sub, Suspend(s) PROVE CleanInv'
  <2>1. \A u \in Sub : row'[u].period = row[u].period /\ row'[u].paid = row[u].paid
    BY <1>2 DEF Suspend, TypeOK
  <2>2. (\A r \in log \cup fresh : r.sub \in Sub) /\ (\A m \in marks : m.sub \in Sub)
    BY DEF TypeOK, Record, Mark
  <2>3. log' = log /\ fresh' = fresh /\ marks' = marks /\ overlap' = overlap
    BY <1>2 DEF Suspend
  <2> QED BY <2>1, <2>2, <2>3 DEF CleanInv
<1>3. ASSUME NEW e \in Extender, Renew(e) \/ GiveDays(e) PROVE CleanInv'
  BY <1>3, ExtendClean
<1>4. ASSUME NEW n \in sent, Write(n) PROVE CleanInv'
  <2>1. RecordOf(n).sub = n.sub /\ RecordOf(n).period = n.period
    BY DEF RecordOf
  <2>2. row' = row /\ log' = log /\ marks' = marks /\ fresh' = fresh \cup {RecordOf(n)}
    BY <1>4 DEF Write
  <2>3. overlap \subseteq overlap' /\ (n.sub \in overlap' \/ n.period = row[n.sub].period)
    BY <1>4 DEF Write
  <2> QED BY <2>1, <2>2, <2>3 DEF CleanInv
<1>5. CASE TickCommits \/ TickFails
  BY <1>5 DEF TickCommits, TickFails, CleanInv
<1>6. CASE WarnerCommits
  BY <1>6 DEF WarnerCommits, CleanInv
<1>7. ASSUME NEW s \in Sub, Start(s) PROVE CleanInv'
  BY <1>1, <1>7 DEF Start
<1>8. ASSUME NEW e \in Extender, Fail(e) \/ Select(e) \/ (\E s \in Sub, t \in Term : Begin(e, s, t)) PROVE CleanInv'
  BY <1>1, <1>8 DEF Fail, Select, Begin
<1>9. ASSUME NEW n \in due, Skip(n) \/ Send(n) PROVE CleanInv'
  BY <1>1, <1>9 DEF Skip, Send
<1>10. ASSUME NEW l \in looked, Warn(l) PROVE CleanInv'
  BY <1>1, <1>10 DEF Warn
<1>11. CASE Pass \/ TickBegins \/ WarnerBegins \/ WarnerFails \/ UNCHANGED vars
  BY <1>1, <1>11 DEF Pass, TickBegins, WarnerBegins, WarnerFails, vars
<1> QED
  BY <1>2, <1>3, <1>4, <1>5, <1>6, <1>7, <1>8, <1>9, <1>10, <1>11 DEF Next

\* A new period begins without the records and marks of an earlier one, except after a
\* tick that the renewal overtook (upsert_subscription, activate_subscription).
THEOREM CleanPeriods == Spec => []PeriodStartsClean
<1>1. CleanInv => PeriodStartsClean
  BY DEF CleanInv, PeriodStartsClean
<1> QED BY <1>1, InitTypeOK, NextTypeOK, CleanInit, CleanNext, PTL DEF Spec

-----------------------------------------------------------------------------

\* A notice that was sent is on its way to the log, in it, or of a period that is over.
Remembered(n) ==
    \/ n \in sent
    \/ RecordOf(n) \in log \cup fresh
    \/ n.period < row[n.sub].period

OnceInv ==
    /\ \A n, m \in sent : n = m
    /\ \A n \in due \cup told : n.period <= row[n.sub].period
    /\ \A n \in told : Remembered(n)

LEMMA OnceInit == Init => OnceInv
BY DEF Init, OnceInv

LEMMA PeriodsOfNotices ==
    ASSUME TypeOK, OnceInv, [Next]_vars
    PROVE  \A n \in due' \cup told' : n.period <= row'[n.sub].period
<1>0. /\ \A n \in Notice : n.sub \in Sub /\ n.period \in Nat
      /\ \A s \in Sub : row[s].period \in Nat
  BY DEF Notice, TypeOK
<1>1. CASE due' \cup told' \subseteq due \cup told
  <2> SUFFICES ASSUME NEW n \in due' \cup told' PROVE n.period <= row'[n.sub].period
    OBVIOUS
  <2>1. n \in Notice /\ n.period <= row[n.sub].period
    BY <1>1 DEF TypeOK, OnceInv
  <2>2. row[n.sub].period <= row'[n.sub].period /\ row'[n.sub].period \in Nat
    BY <1>0, <2>1, PeriodsGrow
  <2> QED BY <1>0, <2>1, <2>2
<1>2. CASE TickBegins
  <2>1. \A n \in due' : n.sub \in Sub /\ n.period = row[n.sub].period
    BY <1>2 DEF TickBegins
  <2>2. told' = told /\ row' = row
    BY <1>2 DEF TickBegins
  <2> QED BY <1>0, <2>1, <2>2 DEF OnceInv
<1>3. ASSUME NEW n \in due \cup sent, Skip(n) \/ Send(n) \/ Write(n) PROVE due' \cup told' \subseteq due \cup told
  BY <1>3 DEF Skip, Send, Write
<1>4. ASSUME NEW l \in looked, Warn(l) PROVE due' \cup told' \subseteq due \cup told
  BY <1>4 DEF Warn
<1>5. ASSUME NEW s \in Sub, Suspend(s) \/ Start(s) PROVE due' \cup told' \subseteq due \cup told
  BY <1>5 DEF Suspend, Start
<1>6. ASSUME NEW e \in Extender,
             Renew(e) \/ GiveDays(e) \/ Fail(e) \/ Select(e) \/ (\E s \in Sub, t \in Term : Begin(e, s, t))
      PROVE  due' \cup told' \subseteq due \cup told
  BY <1>6 DEF Renew, GiveDays, Fail, Select, Begin
<1>7. CASE Pass \/ TickCommits \/ TickFails \/ WarnerBegins \/ WarnerCommits \/ WarnerFails \/ UNCHANGED vars
  BY <1>1, <1>7 DEF Pass, TickCommits, TickFails, WarnerBegins, WarnerCommits, WarnerFails, vars
<1> QED BY <1>1, <1>2, <1>3, <1>4, <1>5, <1>6, <1>7 DEF Next

LEMMA ExtendRemembers ==
    ASSUME TypeOK, OnceInv, NEW e \in Extender, Renew(e) \/ GiveDays(e), [Next]_vars, NEW n \in told
    PROVE  Remembered(n)'
<1> DEFINE s == req[e].sub
<1>1. req[e] # Idle /\ sent' = sent /\ fresh' = fresh /\ s \in Sub
  BY RowsOfRequest DEF Renew, GiveDays
<1>2. n.sub \in Sub /\ n.period \in Nat /\ n.period <= row[n.sub].period /\ row[n.sub].period \in Nat
  BY DEF TypeOK, Notice, OnceInv
<1>3. row[n.sub].period <= row'[n.sub].period /\ row'[n.sub].period \in Nat
  BY <1>2, PeriodsGrow
<1>4. CASE n \in sent \/ RecordOf(n) \in fresh
  BY <1>1, <1>4 DEF Remembered
<1>5. CASE n.period < row[n.sub].period
  BY <1>2, <1>3, <1>5 DEF Remembered
<1>6. CASE RecordOf(n) \in log
  <2>1. CASE RecordOf(n) \in log'
    BY <2>1 DEF Remembered
  <2>2. CASE RecordOf(n) \notin log'
    <3>1. n.sub = s /\ Extended(e, row[s].period + 1, row'[s].paid)
      <4>1. RecordOf(n).sub = n.sub
        BY DEF RecordOf
      <4>2. log' = Cleared(s) /\ \E q : Extended(e, row[s].period + 1, q)
        BY <1>6, <2>2 DEF Renew, GiveDays
      <4>3. PICK q : Extended(e, row[s].period + 1, q)
        BY <4>2
      <4>4. row'[s].paid = q
        BY <1>1, <4>3 DEF Extended, TypeOK
      <4> QED BY <1>6, <2>2, <4>1, <4>2, <4>3, <4>4 DEF Cleared
    <3>2. row'[s].period = row[s].period + 1
      BY <1>1, <3>1 DEF Extended, TypeOK
    <3> QED BY <1>2, <3>1, <3>2 DEF Remembered
  <2> QED BY <2>1, <2>2
<1> QED BY <1>4, <1>5, <1>6 DEF OnceInv, Remembered

LEMMA OnceNext == TypeOK /\ OnceInv /\ [Next]_vars => OnceInv'
<1> SUFFICES ASSUME TypeOK, OnceInv, [Next]_vars PROVE OnceInv'
  OBVIOUS
<1>0. \A n \in due' \cup told' : n.period <= row'[n.sub].period
  BY PeriodsOfNotices
<1>1. CASE UNCHANGED <<sent, log, fresh, told>> /\ \A s \in Sub : row'[s].period = row[s].period
  <2>1. \A n \in told : n.sub \in Sub
    BY DEF TypeOK, Notice
  <2>2. \A n \in told : Remembered(n)'
    BY <1>1, <2>1 DEF OnceInv, Remembered
  <2> QED BY <1>0, <1>1, <2>2 DEF OnceInv
<1>2. ASSUME NEW e \in Extender, Renew(e) \/ GiveDays(e) PROVE OnceInv'
  <2>1. sent' = sent /\ told' \subseteq told
    BY <1>2 DEF Renew, GiveDays
  <2>2. \A n \in told : Remembered(n)'
    BY <1>2, ExtendRemembers
  <2> QED BY <1>0, <2>1, <2>2 DEF OnceInv
<1>3. ASSUME NEW n \in due, Send(n) PROVE OnceInv'
  <2>1. sent = {} /\ sent' = {n} /\ told' = told \cup {n} /\ row' = row /\ log' = log /\ fresh' = fresh
    BY <1>3 DEF Send
  <2>2. \A m \in told' : Remembered(m)'
    BY <2>1 DEF OnceInv, Remembered
  <2> QED BY <1>0, <2>1, <2>2 DEF OnceInv
<1>4. ASSUME NEW n \in sent, Write(n) PROVE OnceInv'
  <2>1. sent' = {} /\ told' = told /\ row' = row /\ log' = log /\ fresh' = fresh \cup {RecordOf(n)}
    BY <1>4 DEF Write
  <2>2. \A m \in sent : m = n
    BY DEF OnceInv
  <2>3. \A m \in told : Remembered(m)'
    BY <2>1, <2>2 DEF OnceInv, Remembered
  <2> QED BY <1>0, <2>1, <2>3 DEF OnceInv
<1>5. CASE TickCommits
  <2>1. sent' = sent /\ told' = told /\ row' = row /\ log' = log \cup fresh /\ fresh' = {}
    BY <1>5 DEF TickCommits
  <2>2. \A m \in told : Remembered(m)'
    BY <2>1 DEF OnceInv, Remembered
  <2> QED BY <1>0, <2>1, <2>2 DEF OnceInv
<1>6. CASE TickFails
  <2>1. /\ sent' = {} /\ told' = {n \in told : n \notin sent /\ RecordOf(n) \notin fresh}
        /\ row' = row /\ log' = log /\ fresh' = {}
    BY <1>6 DEF TickFails
  <2>2. \A m \in told' : Remembered(m)'
    BY <2>1 DEF OnceInv, Remembered
  <2> QED BY <1>0, <2>1, <2>2 DEF OnceInv
<1>7. ASSUME NEW s \in Sub, Suspend(s) PROVE OnceInv'
  <2>1. \A u \in Sub : row'[u].period = row[u].period
    BY <1>7 DEF Suspend, TypeOK
  <2> QED BY <1>1, <1>7, <2>1 DEF Suspend
<1>8. ASSUME NEW s \in Sub, Start(s) PROVE OnceInv'
  BY <1>1, <1>8 DEF Start
<1>9. ASSUME NEW e \in Extender, Fail(e) \/ Select(e) \/ (\E s \in Sub, t \in Term : Begin(e, s, t)) PROVE OnceInv'
  BY <1>1, <1>9 DEF Fail, Select, Begin
<1>10. ASSUME NEW n \in due, Skip(n) PROVE OnceInv'
  BY <1>1, <1>10 DEF Skip
<1>11. ASSUME NEW l \in looked, Warn(l) PROVE OnceInv'
  BY <1>1, <1>11 DEF Warn
<1>12. CASE Pass \/ TickBegins \/ WarnerBegins \/ WarnerCommits \/ WarnerFails \/ UNCHANGED vars
  BY <1>1, <1>12 DEF Pass, TickBegins, WarnerBegins, WarnerCommits, WarnerFails, vars
<1> QED
  BY <1>2, <1>3, <1>4, <1>5, <1>6, <1>7, <1>8, <1>9, <1>10, <1>11, <1>12 DEF Next

\* A stage of one period reaches a channel once, over any number of ticks, refused
\* messages and extensions, unless the tick that sent it was rolled back or a renewal
\* has deleted its record under a tick that loaded the row before (_already_sent).
THEOREM NoticesOnce == Spec => NoticeOnce
<1>1. ASSUME TypeOK, OnceInv, NEW n \in due, Send(n), n \in told PROVE n.period # row[n.sub].period
  <2>1. n \notin sent /\ RecordOf(n) \notin log \cup fresh
    BY <1>1 DEF Send, Known, RecordOf
  <2>2. n.period < row[n.sub].period /\ n.period \in Nat /\ row[n.sub].period \in Nat
    BY <1>1, <2>1 DEF OnceInv, Remembered, TypeOK, Notice
  <2> QED BY <2>2
<1>2. TypeOK /\ OnceInv =>
         [\A n \in due : Send(n) => n \notin told \/ n.period # row[n.sub].period]_vars
  BY <1>1
<1> QED BY <1>2, InitTypeOK, NextTypeOK, OnceInit, OnceNext, PTL DEF Spec, NoticeOnce

================================================================================
