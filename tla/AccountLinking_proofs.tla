------------------------- MODULE AccountLinking_proofs -------------------------
(***************************************************************************)
(* Proofs about AccountLinking, for every set of accounts, emails,         *)
(* invoices and requests, and every value of the term and the bounds.      *)
(***************************************************************************)
EXTENDS AccountLinking, TLAPS

(***************************************************************************)
(* Requests by their location.                                             *)
(***************************************************************************)

AskRequest == [pc : {"ask"}, code : Code, old : SUBSET Nat]

EnterRequest == [pc : {"entered"}, code : Code]

RouteRequest == [pc : {"login", "link", "password"}, code : Code, id : MaybeId]

MergeRequest ==
    [pc : {"read", "flushed", "moved"}, n : Nat, src : Id, tgt : Id, new : BOOLEAN,
     email : MaybeEmail, from : MaybeId, onto : MaybeId, active : MaybeId,
     anchor : MaybeId, at : Nat, subs : SUBSET Id, payments : SUBSET Payment]

PayRequest ==
    [pc : {"pay"}, payment : Payment, id : Id, panel : Id, end : Nat, loaded : BOOLEAN, at : Nat]

LEMMA Requests ==
    /\ Request = {Idle} \cup AskRequest \cup EnterRequest \cup RouteRequest \cup MergeRequest \cup PayRequest
    /\ Idle.pc = "idle"
    /\ \A q \in AskRequest : q.pc = "ask"
    /\ \A q \in EnterRequest : q.pc = "entered"
    /\ \A q \in RouteRequest : q.pc \in {"login", "link", "password"}
    /\ \A q \in MergeRequest : q.pc \in {"read", "flushed", "moved"}
    /\ \A q \in PayRequest : q.pc = "pay"
BY DEF Request, AskRequest, EnterRequest, RouteRequest, MergeRequest, PayRequest, Idle

LEMMA RequestKinds ==
    ASSUME NEW q \in Request
    PROVE  /\ q.pc \in {"idle", "ask", "entered", "login", "link", "password", "read", "flushed", "moved", "pay"}
           /\ q.pc = "idle" => q = Idle
           /\ q.pc = "ask" => q \in AskRequest
           /\ q.pc = "entered" => q \in EnterRequest
           /\ q.pc \in {"login", "link", "password"} => q \in RouteRequest
           /\ q.pc \in {"read", "flushed", "moved"} => q \in MergeRequest
           /\ q.pc = "pay" => q \in PayRequest
BY Requests

LEMMA Ids == None \notin Id /\ None \notin Email /\ Tg \in Id /\ EmailId \subseteq Id /\ Tg \notin EmailId
BY IdAssumption, NoneAssumption DEF Id

\* Rows of subscriptions that a helper finds are rows.
LEMMA FoundSub ==
    ASSUME NEW S, S \subseteq Id
    PROVE  LastOf(S) \in S \cup {None}
BY DEF LastOf

LEMMA Helpers ==
    ASSUME TypeOK
    PROVE  /\ \A m \in Email : UserOf(m) \in MaybeId
           /\ \A m \in Email : UserOf(m) = None => \A i \in Id : ~(Exists(i) /\ row[i].email = m)
           /\ \A m \in Email : UserOf(m) # None => Exists(UserOf(m)) /\ row[UserOf(m)].email = m
           /\ \A i \in Id : EmailOf(i) \in MaybeEmail /\ PanelOf(i) \in MaybeId
           /\ \A i \in Id : Exists(i) => row[i] \in User
           /\ \A i \in Id, p \in MaybeId : ActiveOf(i, p) \in {j \in Id : sub[j] # None} \cup {None}
           /\ \A i \in Id, p \in MaybeId : AnchorOf(i, p) \in {j \in Id : sub[j] # None} \cup {None}
<1>1. ASSUME NEW m \in Email PROVE /\ UserOf(m) \in MaybeId
                                   /\ UserOf(m) = None => \A i \in Id : ~(Exists(i) /\ row[i].email = m)
                                   /\ UserOf(m) # None => Exists(UserOf(m)) /\ row[UserOf(m)].email = m
  <2>1. CASE \E i \in Id : Exists(i) /\ row[i].email = m
    <3>1. UserOf(m) \in Id /\ Exists(UserOf(m)) /\ row[UserOf(m)].email = m
      BY <2>1 DEF UserOf
    <3> QED BY <3>1, Ids DEF MaybeId
  <2>2. CASE ~\E i \in Id : Exists(i) /\ row[i].email = m
    BY <2>2 DEF UserOf, MaybeId
  <2> QED BY <2>1, <2>2
<1>2. \A i \in Id : Exists(i) => row[i] \in User
  BY DEF TypeOK, Exists
<1>3. \A i \in Id : EmailOf(i) \in MaybeEmail /\ PanelOf(i) \in MaybeId
  BY <1>2 DEF EmailOf, PanelOf, User, MaybeEmail, MaybeId
<1>4. ASSUME NEW i \in Id, NEW p \in MaybeId
      PROVE  /\ ActiveOf(i, p) \in {j \in Id : sub[j] # None} \cup {None}
             /\ AnchorOf(i, p) \in {j \in Id : sub[j] # None} \cup {None}
  <2>1. OnPanel(i, p) \subseteq {j \in Id : sub[j] # None}
    BY DEF OnPanel, SubsOf
  <2>2. LastOf(OnPanel(i, p)) \in OnPanel(i, p) \cup {None}
    BY <2>1, FoundSub
  <2>3. ActiveOf(i, p) \in OnPanel(i, p) \cup {None}
    BY <2>1, FoundSub DEF ActiveOf
  <2> QED BY <2>1, <2>2, <2>3 DEF AnchorOf
<1> QED BY <1>1, <1>2, <1>3, <1>4

(***************************************************************************)
(* What the requests and the tables have in common.                        *)
(***************************************************************************)

\* Codes to change an account name one.
CodeFits(c) == c.purpose # "login" => c.to # None

CodesFit ==
    /\ \A c \in codes : CodeFits(c)
    /\ \A r \in Req : /\ req[r].pc \in {"ask", "entered"} => CodeFits(req[r].code)
                      /\ req[r].pc \in {"link", "password"} => req[r].id # None

\* A payment belongs to an invoice, and a row it has loaded is there.
PaysFit ==
    \A r \in Req : req[r].pc = "pay" =>
       req[r].payment \in placed /\ (req[r].loaded => sub[req[r].panel] # None)

\* Accounts by email have an email, and emails are unique.
UsersFit ==
    /\ \A i \in EmailId : Exists(i) => row[i].email # None
    /\ \A i, j \in Id : Exists(i) /\ Exists(j) /\ row[i].email = row[j].email /\ row[i].email # None => i = j

\* An account by email is merged into the one of Telegram, and the rows that were
\* read for it are there.
MergesFit ==
    \A r \in Req : Merging(r) =>
       /\ req[r].src \in EmailId /\ req[r].tgt = Tg
       /\ req[r].active # None => sub[req[r].active] # None
       /\ req[r].anchor # None => sub[req[r].anchor] # None

\* One request writes to a source.
OneWriter == \A r, x \in Req : Writing(r) /\ Writing(x) /\ req[r].src = req[x].src => r = x

\* The bulk updates have missed nothing.
MovedAll ==
    \A r \in Req : req[r].pc = "moved" =>
       /\ \A p \in Payment : payment[p] # None /\ payment[p].user = req[r].src => p \in req[r].payments
       /\ req[r].payments \subseteq placed
       /\ \A i \in Id : sub[i] # None /\ sub[i].owner = req[r].src => i \in req[r].subs

InvoicesPlaced == \A p \in Payment : payment[p] # None => p \in placed

Shape ==
    /\ TypeOK /\ CodesFit /\ PaysFit /\ UsersFit /\ MergesFit /\ OneWriter /\ MovedAll
    /\ InvoicesPlaced /\ PaymentsKept

(***************************************************************************)
(* Types.                                                                  *)
(***************************************************************************)

LEMMA MergedSubType ==
    ASSUME TypeOK, NEW q \in MergeRequest, NEW i \in Id, sub[i] # None,
           q.active # None => sub[q.active] # None, q.anchor # None => sub[q.anchor] # None
    PROVE  /\ MergedSub(q, i) \in Subscription
           /\ MergedSub(q, i).owner = IF i \in q.subs THEN q.tgt ELSE sub[i].owner
<1> DEFINE panel == IF q.onto # None THEN q.onto ELSE IF q.from # None THEN q.from ELSE sub[i].panel
           s == IF i \in q.subs THEN [sub[i] EXCEPT !.owner = q.tgt, !.panel = panel] ELSE sub[i]
<1>1. sub[i] \in Subscription
  BY DEF TypeOK
<1>2. panel \in Id /\ q.tgt \in Id
  BY <1>1 DEF MergeRequest, MaybeId, Subscription
<1>3. s \in Subscription /\ s.owner = IF i \in q.subs THEN q.tgt ELSE sub[i].owner
  BY <1>1, <1>2 DEF Subscription
<1>4. MergedSub(q, i) = IF ~Adds(q) THEN s
                        ELSE IF i = q.active THEN [s EXCEPT !.active = FALSE]
                        ELSE IF i = q.anchor
                             THEN [s EXCEPT !.end = Sum(q, sub[i].end, sub[q.active].end), !.active = TRUE]
                        ELSE s
  BY DEF MergedSub
<1>5. ASSUME Adds(q) PROVE Sum(q, sub[i].end, sub[q.active].end) \in Nat
  <2>1. q.active \in Id /\ sub[q.active] \in Subscription
    BY <1>5 DEF Adds, MergeRequest, MaybeId, TypeOK
  <2>2. sub[i].end \in Nat /\ sub[q.active].end \in Nat /\ q.at \in Nat
    BY <1>1, <2>1 DEF Subscription, MergeRequest
  <2> QED BY <2>2 DEF Sum, Later
<1> HIDE DEF s
<1>6. CASE ~Adds(q) \/ (i # q.active /\ i # q.anchor)
  BY <1>3, <1>4, <1>6
<1>7. CASE Adds(q) /\ i = q.active
  BY <1>3, <1>4, <1>7 DEF Subscription
<1>8. CASE Adds(q) /\ i # q.active /\ i = q.anchor
  BY <1>3, <1>4, <1>5, <1>8 DEF Subscription
<1> QED BY <1>6, <1>7, <1>8

\* What an opened merge has read.
LEMMA Begun ==
    ASSUME TypeOK, NEW r \in Req, NEW n \in Nat, NEW src \in Id, NEW tgt \in Id,
           BeginMerge(r, n, src, tgt)
    PROVE  /\ \A x \in Req \ {r} : req'[x] = req[x]
           /\ \/ req'[r] = Idle
              \/ /\ req'[r] \in MergeRequest /\ req'[r].pc = "read"
                 /\ req'[r].n = n /\ req'[r].src = src /\ req'[r].tgt = tgt
                 /\ req'[r].email = EmailToMove(src, tgt)
                 /\ req'[r].active # None => sub[req'[r].active] # None
                 /\ req'[r].anchor # None => sub[req'[r].anchor] # None
                 /\ EmailOf(src) = None \/ EmailOf(tgt) \in {None, EmailOf(src)}
                 /\ overlap' = Overlapping({src, tgt})
           /\ refused' \subseteq {"conflict", "constraint"}
           /\ req' \in [Req -> Request]
<1>1. CASE EmailOf(src) # None /\ EmailOf(tgt) \notin {None, EmailOf(src)}
  BY <1>1, Requests DEF BeginMerge, TypeOK
<1>2. CASE ~(EmailOf(src) # None /\ EmailOf(tgt) \notin {None, EmailOf(src)})
  <2> DEFINE q == [pc |-> "read", n |-> n, src |-> src, tgt |-> tgt, new |-> ~Exists(tgt),
                   email |-> EmailToMove(src, tgt), from |-> PanelOf(src), onto |-> PanelOf(tgt),
                   active |-> ActiveOf(src, PanelOf(src)), anchor |-> AnchorOf(tgt, PanelOf(tgt)),
                   at |-> now, subs |-> {}, payments |-> {}]
  <2>1. req' = [req EXCEPT ![r] = q] /\ refused' = refused /\ overlap' = Overlapping({src, tgt})
    BY <1>2 DEF BeginMerge
  <2>2. EmailToMove(src, tgt) \in MaybeEmail
    BY Helpers DEF EmailToMove, MaybeEmail
  <2>3. PanelOf(src) \in MaybeId /\ PanelOf(tgt) \in MaybeId
    BY Helpers
  <2>4. /\ ActiveOf(src, PanelOf(src)) \in {j \in Id : sub[j] # None} \cup {None}
        /\ AnchorOf(tgt, PanelOf(tgt)) \in {j \in Id : sub[j] # None} \cup {None}
    BY <2>3, Helpers
  <2>5. now \in Nat /\ (~Exists(tgt)) \in BOOLEAN
    BY DEF TypeOK
  <2>6. q \in MergeRequest
    BY <2>2, <2>3, <2>4, <2>5 DEF MergeRequest, MaybeId
  <2>7. req'[r] = q /\ \A x \in Req \ {r} : req'[x] = req[x]
    BY <2>1 DEF TypeOK
  <2>8. req' \in [Req -> Request]
    BY <2>1, <2>6, Requests DEF TypeOK
  <2>9. refused' \subseteq {"conflict", "constraint"}
    BY <2>1 DEF TypeOK
  <2> QED BY <1>2, <2>1, <2>4, <2>6, <2>7, <2>8, <2>9
<1> QED BY <1>1, <1>2

LEMMA BegunRead ==
    ASSUME TypeOK, NEW r \in Req, NEW n \in Nat, NEW src \in Id, NEW tgt \in Id,
           BeginMerge(r, n, src, tgt), req'[r].pc = "read"
    PROVE  /\ req'[r].src = src /\ req'[r].tgt = tgt
           /\ req'[r].active # None => sub[req'[r].active] # None
           /\ req'[r].anchor # None => sub[req'[r].anchor] # None
           /\ overlap' = Overlapping({src, tgt})
<1> DEFINE active == ActiveOf(src, PanelOf(src))
           anchor == AnchorOf(tgt, PanelOf(tgt))
           q == [pc |-> "read", n |-> n, src |-> src, tgt |-> tgt, new |-> ~Exists(tgt),
                 email |-> EmailToMove(src, tgt), from |-> PanelOf(src), onto |-> PanelOf(tgt),
                 active |-> active, anchor |-> anchor, at |-> now, subs |-> {}, payments |-> {}]
<1>1. req'[r] # Idle
  BY Requests
<1>2. ~(EmailOf(src) # None /\ EmailOf(tgt) \notin {None, EmailOf(src)})
  BY <1>1 DEF BeginMerge, TypeOK
<1>3. req'[r] = q /\ overlap' = Overlapping({src, tgt})
  BY <1>2 DEF BeginMerge, TypeOK
<1>4. PanelOf(src) \in MaybeId /\ PanelOf(tgt) \in MaybeId
  BY Helpers
<1>5. active \in {j \in Id : sub[j] # None} \cup {None} /\ anchor \in {j \in Id : sub[j] # None} \cup {None}
  BY <1>4, Helpers
<1> HIDE DEF active, anchor
<1>6. q.src = src /\ q.tgt = tgt /\ q.active = active /\ q.anchor = anchor
  OBVIOUS
<1> HIDE DEF q
<1> QED BY <1>3, <1>5, <1>6

LEMMA OverlappingType ==
    ASSUME TypeOK, CodesFit, NEW ids, ids \subseteq Id
    PROVE  Overlapping(ids) \subseteq Id /\ overlap \subseteq Overlapping(ids)
<1>1. \A r \in Req : Touched(r) \subseteq Id
  <2> SUFFICES ASSUME NEW r \in Req PROVE Touched(r) \subseteq Id
    OBVIOUS
  <2>1. req[r] \in Request
    BY DEF TypeOK
  <2>2. Merging(r) => req[r].src \in Id /\ req[r].tgt \in Id
    BY <2>1, RequestKinds DEF Merging, MergeRequest
  <2>3. req[r].pc = "pay" => req[r].id \in Id
    BY <2>1, RequestKinds DEF PayRequest
  <2>4. req[r].pc = "link" => req[r].id \in Id
    BY <2>1, RequestKinds DEF RouteRequest, MaybeId, CodesFit
  <2> QED BY <2>2, <2>3, <2>4 DEF Touched
<1> QED BY <1>1 DEF Overlapping, TypeOK

\* Every step keeps the type invariant.
LEMMA NextTypeOK == Shape /\ [Next]_vars => TypeOK'
<1> SUFFICES ASSUME Shape, [Next]_vars PROVE TypeOK'
  OBVIOUS
<1> USE DEF tables, history
<1>0. TypeOK /\ CodesFit
  BY DEF Shape
<1>1. CASE Pass
  BY <1>0, <1>1 DEF Pass, TypeOK
<1>2. CASE Start
  <2>1. [email |-> None, panel |-> None] \in User
    BY DEF User, MaybeEmail, MaybeId
  <2> QED BY <1>0, <1>2, <2>1 DEF Start, TypeOK
<1>3. ASSUME NEW i \in Id, OpenTicket(i) PROVE TypeOK'
  BY <1>0, <1>3 DEF OpenTicket, TypeOK
<1>4. ASSUME NEW i \in Id, Lapse(i) PROVE TypeOK'
  <2>1. sub[i] \in Subscription
    BY <1>0, <1>4 DEF Lapse, TypeOK
  <2>2. [sub[i] EXCEPT !.active = FALSE] \in Subscription /\ sub[i].owner \in Id
    BY <2>1 DEF Subscription
  <2>3. sub' \in [Id -> Subscription \cup {None}]
    BY <1>0, <1>4, <2>2 DEF Lapse, TypeOK
  <2>4. overlap' \subseteq Id
    BY <1>0, <1>4, <2>2 DEF Lapse, TypeOK
  <2> QED BY <1>0, <1>4, <2>3, <2>4 DEF Lapse, TypeOK
<1>5. ASSUME NEW i \in Id, NEW p \in Payment, Order(p, i) PROVE TypeOK'
  <2>1. [user |-> i, paid |-> FALSE] \in Invoice
    BY DEF Invoice
  <2> QED BY <1>0, <1>5, <2>1 DEF Order, TypeOK
<1>6. ASSUME NEW r \in Req, NEW p \in Payment, BeginPay(r, p) PROVE TypeOK'
  <2> DEFINE i == payment[p].user
             panel == IF row[i].panel = None THEN i ELSE row[i].panel
             base == ActiveOf(i, panel)
             q == [pc |-> "pay", payment |-> p, id |-> i, panel |-> panel, loaded |-> base = panel,
                   end |-> Term + (IF base = None THEN now ELSE sub[base].end), at |-> now]
  <2>1. i \in Id /\ Exists(i)
    BY <1>6 DEF BeginPay, Shape, InvoicesPlaced, PaymentsKept, TypeOK, Invoice
  <2>2. panel \in Id
    BY <1>0, <2>1, Helpers DEF User, MaybeId
  <2>3. base \in {j \in Id : sub[j] # None} \cup {None}
    BY <1>0, <2>1, <2>2, Helpers DEF MaybeId
  <2>4. base # None => sub[base].end \in Nat
    BY <1>0, <2>3 DEF TypeOK, Subscription
  <2>5. now \in Nat /\ Term \in Nat
    BY <1>0, BoundAssumption DEF TypeOK
  <2>6. Term + (IF base = None THEN now ELSE sub[base].end) \in Nat
    BY <2>4, <2>5
  <2>7. req' = [req EXCEPT ![r] = q] /\ overlap' = Overlapping({i})
    BY <1>6 DEF BeginPay
  <2> HIDE DEF i, panel, base
  <2>8. q \in PayRequest
    <3> DEFINE end == Term + (IF base = None THEN now ELSE sub[base].end)
               loaded == base = panel
    <3>1. end \in Nat /\ loaded \in BOOLEAN
      BY <2>6
    <3> HIDE DEF end, loaded
    <3>2. [pc |-> "pay", payment |-> p, id |-> i, panel |-> panel, loaded |-> loaded, end |-> end, at |-> now]
             \in PayRequest
      BY <2>1, <2>2, <2>5, <3>1 DEF PayRequest
    <3> QED BY <3>2 DEF end, loaded
  <2>9. req' \in [Req -> Request]
    BY <1>0, <2>7, <2>8, Requests DEF TypeOK
  <2>10. overlap' \subseteq Id
    BY <1>0, <2>1, <2>7, OverlappingType
  <2> QED BY <1>0, <1>6, <2>9, <2>10 DEF BeginPay, TypeOK
<1>7. ASSUME NEW r \in Req, CommitPay(r) PROVE TypeOK'
  <2> DEFINE q == req[r]
             others == {i \in Id : sub[i] # None /\ sub[i].panel = q.panel /\ i # q.panel}
             paidFor == [owner |-> q.id, panel |-> q.panel, end |-> q.end, active |-> TRUE]
  <2>1. q \in PayRequest /\ q.pc = "pay" /\ q.payment \in placed /\ (q.loaded => sub[q.panel] # None)
    BY <1>0, <1>7, RequestKinds DEF CommitPay, TypeOK, Shape, PaysFit
  <2>2. /\ q.id \in Id /\ q.panel \in Id /\ q.end \in Nat /\ q.loaded \in BOOLEAN /\ q.at \in Nat
        /\ q.payment \in Payment
    BY <2>1 DEF PayRequest
  <2>3. \A i \in Id : sub'[i] = IF i = q.panel THEN IF q.loaded THEN [sub[i] EXCEPT !.end = q.end] ELSE paidFor
                                ELSE IF i \in others THEN [sub[i] EXCEPT !.active = FALSE] ELSE sub[i]
    BY <1>7 DEF CommitPay
  <2>4. paidFor \in Subscription
    BY <2>2 DEF Subscription
  <2>5. \A i \in Id : sub[i] # None => /\ [sub[i] EXCEPT !.end = q.end] \in Subscription
                                       /\ [sub[i] EXCEPT !.active = FALSE] \in Subscription
    BY <1>0, <2>2 DEF TypeOK, Subscription
  <2>6. \A i \in Id : sub'[i] \in Subscription \cup {None}
    <3>1. \A i \in others : sub[i] # None
      OBVIOUS
    <3>2. \A i \in Id : sub[i] \in Subscription \cup {None}
      BY <1>0 DEF TypeOK
    <3> HIDE DEF others, paidFor
    <3> QED BY <2>1, <2>3, <2>4, <2>5, <3>1, <3>2
  <2>7. sub' \in [Id -> Subscription \cup {None}]
    <3>1. \E f \in [Id -> {sub'[i] : i \in Id}] : sub' = f
      BY <1>7 DEF CommitPay
    <3> QED BY <2>6, <3>1
  <2>8. row' \in [Id -> User \cup {None}]
    <3>1. CASE q.loaded
      BY <1>0, <1>7, <3>1 DEF CommitPay, TypeOK
    <3>2. CASE ~q.loaded
      <4>1. row[q.id] \in User
        BY <1>0, <1>7, <2>2, <3>2, Helpers DEF CommitPay
      <4>2. [row[q.id] EXCEPT !.panel = q.panel] \in User
        BY <2>2, <4>1 DEF User, MaybeId
      <4>3. row' = [row EXCEPT ![q.id] = [row[q.id] EXCEPT !.panel = q.panel]]
        BY <1>7, <3>2 DEF CommitPay
      <4> QED BY <1>0, <4>2, <4>3 DEF TypeOK
    <3> QED BY <3>1, <3>2
  <2>9. payment' \in [Payment -> Invoice \cup {None}]
    <3>1. payment[q.payment] \in Invoice
      BY <1>0, <2>1, <2>2 DEF Shape, PaymentsKept, TypeOK
    <3>2. [payment[q.payment] EXCEPT !.paid = TRUE] \in Invoice
      BY <3>1 DEF Invoice
    <3>3. payment' = [payment EXCEPT ![q.payment] = [payment[q.payment] EXCEPT !.paid = TRUE]]
      BY <1>7 DEF CommitPay
    <3> QED BY <1>0, <3>2, <3>3 DEF TypeOK
  <2>10. due' \in [Id -> Nat]
    <3>1. due[q.id] \in Nat /\ Term \in Nat
      BY <1>0, <2>2, BoundAssumption DEF TypeOK
    <3>2. Later(due[q.id], q.at) + Term \in Nat
      BY <2>2, <3>1 DEF Later
    <3> QED BY <1>0, <1>7, <3>2 DEF CommitPay, TypeOK
  <2>11. req' \in [Req -> Request]
    BY <1>0, <1>7, Requests DEF CommitPay, TypeOK
  <2> QED BY <1>0, <1>7, <2>7, <2>8, <2>9, <2>10, <2>11 DEF CommitPay, TypeOK
<1>8. ASSUME NEW r \in Req, NEW m \in Email, NEW to \in MaybeId, NEW purpose \in {"login", "link_email", "set_password"},
             Ask(r, m, purpose, to)
      PROVE  TypeOK'
  <2>1. PICK n \in 1..MaxCodes :
           req' = [req EXCEPT ![r] =
              [pc |-> "ask",
               code |-> [n |-> n, email |-> m, purpose |-> purpose, to |-> to, superseded |-> FALSE,
                         consumed |-> FALSE],
               old |-> {c.n : c \in {x \in codes : SameKey(x, m, purpose, to) /\ Usable(x)}}]]
    BY <1>8 DEF Ask
  <2> DEFINE code == [n |-> n, email |-> m, purpose |-> purpose, to |-> to, superseded |-> FALSE, consumed |-> FALSE]
             old == {c.n : c \in {x \in codes : SameKey(x, m, purpose, to) /\ Usable(x)}}
  <2>2. code \in Code
    BY DEF Code
  <2>3. old \subseteq Nat
    BY <1>0 DEF TypeOK, Code
  <2>4. [pc |-> "ask", code |-> code, old |-> old] \in Request
    BY <2>2, <2>3, Requests DEF AskRequest
  <2> HIDE DEF code, old
  <2>5. req' = [req EXCEPT ![r] = [pc |-> "ask", code |-> code, old |-> old]]
    BY <2>1 DEF code, old
  <2> QED BY <1>0, <1>8, <2>4, <2>5 DEF Ask, TypeOK
<1>9. ASSUME NEW r \in Req, NEW c \in codes, Enter(r, c) PROVE TypeOK'
  <2>1. [pc |-> "entered", code |-> c] \in Request
    BY <1>0, Requests DEF TypeOK, EnterRequest
  <2> QED BY <1>0, <1>9, <2>1 DEF Enter, TypeOK
<1>10. ASSUME NEW r \in Req, NEW i \in Id, LinkTelegram(r, i) PROVE TypeOK'
  <2>1. BeginMerge(r, 0, i, Tg) /\ UNCHANGED <<now, tables, placed, claimed, due>>
    BY <1>10 DEF LinkTelegram
  <2>2. overlap' \subseteq Id
    <3>1. overlap' \in {overlap, Overlapping({i, Tg})}
      BY <2>1 DEF BeginMerge
    <3> QED BY <1>0, <3>1, OverlappingType, Ids DEF TypeOK
  <2> QED BY <1>0, <2>1, <2>2, Begun, Ids DEF TypeOK
<1>11. ASSUME NEW r \in Req, CommitAsk(r) PROVE TypeOK'
  <2>1. req[r] \in AskRequest
    BY <1>0, <1>11, RequestKinds DEF CommitAsk, TypeOK
  <2>2. req[r].code \in Code
    BY <2>1 DEF AskRequest
  <2>3. \A c \in Code : [c EXCEPT !.superseded = c.superseded \/ c.n \in req[r].old] \in Code
    BY DEF Code
  <2>4. codes' = {[c EXCEPT !.superseded = c.superseded \/ c.n \in req[r].old] : c \in codes} \cup {req[r].code}
    BY <1>11 DEF CommitAsk
  <2>5. codes' \subseteq Code
    BY <1>0, <2>2, <2>3, <2>4 DEF TypeOK
  <2> QED BY <1>0, <1>11, <2>5, Requests DEF CommitAsk, TypeOK
<1>12. ASSUME NEW r \in Req, Verify(r) PROVE TypeOK'
  <2> DEFINE c == req[r].code
             found == UserOf(c.email)
  <2>1. req[r] \in EnterRequest /\ c \in Code /\ CodeFits(c)
    BY <1>0, <1>12, RequestKinds DEF Verify, EnterRequest, CodesFit, TypeOK
  <2>2. c.n \in Nat /\ c.to \in MaybeId /\ c.email \in Email /\ found \in MaybeId
    BY <1>0, <2>1, Helpers DEF Code
  <2>3. UNCHANGED <<now, tables, placed, claimed, due>>
    BY <1>12 DEF Verify
  <2>4. ASSUME NEW pc \in {"login", "link", "password"}, NEW id \in MaybeId,
               req' = [req EXCEPT ![r] = [pc |-> pc, code |-> c, id |-> id]], UNCHANGED refused,
               overlap' \subseteq Id
        PROVE  TypeOK'
    <3>1. [pc |-> pc, code |-> c, id |-> id] \in Request
      BY <2>1, Requests DEF RouteRequest
    <3> QED BY <1>0, <2>3, <2>4, <3>1 DEF TypeOK
  <2>5. CASE c.purpose = "login" /\ req' = [req EXCEPT ![r] = [pc |-> "login", code |-> c, id |-> found]]
             /\ UNCHANGED <<refused, overlap>>
    BY <1>0, <2>2, <2>4, <2>5 DEF TypeOK
  <2>6. CASE c.purpose = "set_password" /\ req' = [req EXCEPT ![r] = [pc |-> "password", code |-> c, id |-> c.to]]
             /\ UNCHANGED <<refused, overlap>>
    BY <1>0, <2>2, <2>4, <2>6 DEF TypeOK
  <2>7. CASE c.purpose = "link_email" /\ req' = [req EXCEPT ![r] = [pc |-> "link", code |-> c, id |-> c.to]]
             /\ UNCHANGED refused /\ overlap' = Overlapping({c.to})
    <3>1. c.to \in Id
      BY <2>1, <2>2, <2>7 DEF CodeFits, MaybeId
    <3>2. overlap' \subseteq Id
      BY <1>0, <2>7, <3>1, OverlappingType
    <3> QED BY <2>2, <2>4, <2>7, <3>2
  <2>8. CASE c.purpose = "link_email" /\ found \notin {None, c.to} /\ BeginMerge(r, c.n, found, c.to)
    <3>1. c.to \in Id /\ found \in Id
      BY <2>1, <2>2, <2>8 DEF CodeFits, MaybeId
    <3>2. overlap' \subseteq Id
      <4>1. overlap' \in {overlap, Overlapping({found, c.to})}
        BY <2>8 DEF BeginMerge
      <4> QED BY <1>0, <3>1, <4>1, OverlappingType DEF TypeOK
    <3> QED BY <1>0, <2>2, <2>3, <2>8, <3>1, <3>2, Begun DEF TypeOK
  <2> QED BY <1>12, <2>5, <2>6, <2>7, <2>8 DEF Verify
<1>13. ASSUME NEW r \in Req, CommitLogin(r) PROVE TypeOK'
  <2>1. req[r].code \in Code
    BY <1>0, <1>13, RequestKinds DEF CommitLogin, RouteRequest, TypeOK
  <2>2. Consumed(req[r].code.n) \subseteq Code
    BY <1>0 DEF Consumed, TypeOK, Code
  <2>3. [email |-> req[r].code.email, panel |-> None] \in User
    BY <2>1 DEF User, Code, MaybeEmail, MaybeId
  <2>4. row' \in [Id -> User \cup {None}] /\ claimed' \in [Email -> MaybeId]
    BY <1>0, <1>13, <2>3, Ids DEF CommitLogin, TypeOK, MaybeId
  <2> QED BY <1>0, <1>13, <2>2, <2>4, Requests DEF CommitLogin, TypeOK
<1>14. ASSUME NEW r \in Req, CommitLink(r) PROVE TypeOK'
  <2> DEFINE m == req[r].code.email
             i == req[r].id
  <2>1. req[r] \in RouteRequest /\ req[r].pc = "link"
    BY <1>0, <1>14, RequestKinds DEF CommitLink, TypeOK
  <2>2. m \in Email /\ i \in Id
    BY <1>0, <2>1 DEF RouteRequest, Code, MaybeId, CodesFit
  <2>3. Consumed(req[r].code.n) \subseteq Code
    BY <1>0 DEF Consumed, TypeOK, Code
  <2>4. row[i] \in User
    BY <1>0, <1>14, <2>2, Helpers DEF CommitLink
  <2>5. [row[i] EXCEPT !.email = m] \in User
    BY <2>2, <2>4 DEF User, MaybeEmail
  <2>6. row' = [row EXCEPT ![i] = [row[i] EXCEPT !.email = m]]
    BY <1>14 DEF CommitLink
  <2>7. row' \in [Id -> User \cup {None}]
    BY <1>0, <2>5, <2>6 DEF TypeOK
  <2>8. claimed' \in [Email -> MaybeId]
    BY <1>0, <1>14, <2>2 DEF CommitLink, TypeOK, MaybeId
  <2> QED BY <1>0, <1>14, <2>3, <2>7, <2>8, Requests DEF CommitLink, TypeOK
<1>15. ASSUME NEW r \in Req, CommitPassword(r) PROVE TypeOK'
  <2>1. Consumed(req[r].code.n) \subseteq Code
    BY <1>0 DEF Consumed, TypeOK, Code
  <2> QED BY <1>0, <1>15, <2>1, Requests, SMTT(30) DEF CommitPassword, TypeOK
<1>16. ASSUME NEW r \in Req, FlushMerge(r) PROVE TypeOK'
  <2>1. req[r] \in MergeRequest
    BY <1>0, <1>16, RequestKinds DEF FlushMerge, TypeOK
  <2>2. [req[r] EXCEPT !.pc = "flushed"] \in Request
    <3>1. [req[r] EXCEPT !.pc = "flushed"] \in MergeRequest
      BY <2>1 DEF MergeRequest
    <3> QED BY <3>1, Requests
  <2>3. req' = [req EXCEPT ![r] = [req[r] EXCEPT !.pc = "flushed"]]
    BY <1>16 DEF FlushMerge
  <2> QED BY <1>0, <1>16, <2>2, <2>3 DEF FlushMerge, TypeOK
<1>17. ASSUME NEW r \in Req, MoveRows(r) PROVE TypeOK'
  <2> DEFINE subs == SubsOf(req[r].src)
             payments == {p \in Payment : payment[p] # None /\ payment[p].user = req[r].src}
             q == [req[r] EXCEPT !.pc = "moved", !.subs = subs, !.payments = payments]
  <2>1. req[r] \in MergeRequest
    BY <1>0, <1>17, RequestKinds DEF MoveRows, TypeOK
  <2>2. subs \subseteq Id /\ payments \subseteq Payment
    BY DEF SubsOf
  <2>3. req' = [req EXCEPT ![r] = q]
    BY <1>17 DEF MoveRows
  <2> HIDE DEF subs, payments
  <2>4. q \in MergeRequest
    BY <2>1, <2>2 DEF MergeRequest
  <2> HIDE DEF q
  <2> QED BY <1>0, <1>17, <2>3, <2>4, Requests DEF MoveRows, TypeOK
<1>18. ASSUME NEW r \in Req, RefuseMerge(r) PROVE TypeOK'
  BY <1>0, <1>18, Requests DEF RefuseMerge, TypeOK
<1>19. ASSUME NEW r \in Req, CommitMerge(r) PROVE TypeOK'
  <2> DEFINE q == req[r]
  <2>1. q \in MergeRequest /\ q.pc = "moved" /\ Merging(r)
    BY <1>0, <1>19, RequestKinds DEF CommitMerge, TypeOK, Merging
  <2>2. /\ q.src \in Id /\ q.tgt \in Id /\ q.email \in MaybeEmail /\ q.at \in Nat /\ q.payments \subseteq Payment
        /\ q.n \in Nat
    BY <2>1 DEF MergeRequest
  <2>3. MergedUser(q) \in User
    BY <1>0, <2>2, Helpers DEF MergedUser, User
  <2>4. row' \in [Id -> User \cup {None}]
    BY <1>0, <1>19, <2>3 DEF CommitMerge, TypeOK
  <2>5. sub' \in [Id -> Subscription \cup {None}]
    <3>1. sub' = [i \in Id |->
                    IF sub[i] # None /\ sub[i].owner = q.src /\ i \notin q.subs THEN None
                    ELSE IF sub[i] = None THEN None ELSE MergedSub(q, i)]
      BY <1>19 DEF CommitMerge
    <3>2. /\ q.active # None => sub[q.active] # None
          /\ q.anchor # None => sub[q.anchor] # None
      BY <2>1 DEF Shape, MergesFit
    <3>3. \A i \in Id : sub[i] # None => MergedSub(q, i) \in Subscription
      BY <1>0, <2>1, <3>2, MergedSubType
    <3> HIDE DEF q
    <3> QED BY <3>1, <3>3
  <2>6. payment' \in [Payment -> Invoice \cup {None}]
    <3>1. \A p \in q.payments : payment[p] \in Invoice
      BY <1>0, <2>1, <2>2 DEF Shape, MovedAll, PaymentsKept, TypeOK
    <3>2. \A p \in q.payments : [payment[p] EXCEPT !.user = q.tgt] \in Invoice
      BY <2>2, <3>1 DEF Invoice
    <3>3. payment' = [p \in Payment |->
                        IF p \in q.payments THEN [payment[p] EXCEPT !.user = q.tgt]
                        ELSE IF payment[p] # None /\ payment[p].user = q.src THEN None ELSE payment[p]]
      BY <1>19 DEF CommitMerge
    <3> HIDE DEF q
    <3> QED BY <1>0, <3>2, <3>3 DEF TypeOK
  <2>7. due' \in [Id -> Nat]
    <3> DEFINE target == IF due[q.src] > q.at THEN Later(due[q.tgt], q.at) + due[q.src] - q.at ELSE due[q.tgt]
    <3>0. q.tgt # q.src
      BY <2>1, Ids DEF Shape, MergesFit
    <3>1. due[q.src] \in Nat /\ due[q.tgt] \in Nat
      BY <1>0, <2>2 DEF TypeOK
    <3>2. target \in Nat
      BY <2>2, <3>1 DEF Later
    <3>3. due' = [due EXCEPT ![q.src] = 0, ![q.tgt] = target]
      BY <1>0, <1>19, <3>0 DEF CommitMerge, TypeOK
    <3> HIDE DEF target
    <3> QED BY <1>0, <3>2, <3>3 DEF TypeOK
  <2>8. claimed' \in [Email -> MaybeId]
    BY <1>0, <1>19, <2>2 DEF CommitMerge, TypeOK, MaybeId
  <2>9. codes' \subseteq Code
    <3>1. Consumed(q.n) \subseteq Code
      BY <1>0 DEF Consumed, TypeOK, Code
    <3> QED BY <1>19, <3>1 DEF CommitMerge
  <2>10. overlap' \subseteq Id
    BY <1>0, <1>19, <2>2 DEF CommitMerge, TypeOK
  <2>11. req' \in [Req -> Request]
    BY <1>0, <1>19, Requests DEF CommitMerge, TypeOK
  <2> QED BY <1>0, <1>19, <2>4, <2>5, <2>6, <2>7, <2>8, <2>9, <2>10, <2>11 DEF CommitMerge, TypeOK
<1>20. ASSUME NEW r \in Req, Fail(r) PROVE TypeOK'
  BY <1>0, <1>20, Requests DEF Fail, TypeOK
<1>21. CASE UNCHANGED vars
  BY <1>0, <1>21 DEF vars, TypeOK
<1> QED
  BY <1>1, <1>2, <1>3, <1>4, <1>5, <1>6, <1>7, <1>8, <1>9, <1>10, <1>11, <1>12, <1>13, <1>14, <1>15, <1>16,
     <1>17, <1>18, <1>19, <1>20, <1>21
  DEF Next

(***************************************************************************)
(* Rows stay, and nothing new refers to a source while it is written.      *)
(***************************************************************************)

\* The transaction of a merge that commits.
LEMMA Committing ==
    ASSUME Shape, NEW r \in Req, CommitMerge(r)
    PROVE  /\ req[r] \in MergeRequest /\ req[r].pc = "moved" /\ Writing(r) /\ Merging(r)
           /\ req[r].src \in EmailId /\ req[r].tgt = Tg /\ req[r].src # Tg /\ req[r].src \in Id
           /\ \A i \in Id : sub[i] # None => /\ sub'[i] # None
                                             /\ sub'[i].owner = IF i \in req[r].subs THEN Tg ELSE sub[i].owner
           /\ \A i \in Id : sub[i] = None => sub'[i] = None
           /\ \A i \in Id : i \notin {req[r].src, Tg} => row'[i] = row[i]
           /\ row'[req[r].src] = None /\ row'[Tg] = MergedUser(req[r]) /\ row'[Tg] # None
           /\ \A p \in req[r].payments : payment'[p].user = Tg /\ payment'[p] # None
           /\ \A p \in Payment \ req[r].payments : payment'[p] = payment[p]
<1> DEFINE q == req[r]
<1>0. TypeOK
  BY DEF Shape
<1>1. q \in MergeRequest /\ q.pc = "moved" /\ Writing(r) /\ Merging(r)
  BY <1>0, RequestKinds DEF CommitMerge, TypeOK, Merging, Writing
<1>2. q.src \in EmailId /\ q.tgt = Tg /\ q.src # Tg /\ q.src \in Id
  BY <1>1, Ids DEF Shape, MergesFit
<1>3. /\ q.active # None => sub[q.active] # None
      /\ q.anchor # None => sub[q.anchor] # None
  BY <1>1 DEF Shape, MergesFit
<1>4. /\ \A i \in Id : sub[i] # None /\ sub[i].owner = q.src => i \in q.subs
      /\ \A p \in Payment : payment[p] # None /\ payment[p].user = q.src => p \in q.payments
      /\ q.payments \subseteq placed
  BY <1>1 DEF Shape, MovedAll
<1>5. \A i \in Id : sub[i] # None => MergedSub(q, i) \in Subscription
                                     /\ MergedSub(q, i).owner = IF i \in q.subs THEN Tg ELSE sub[i].owner
  BY <1>0, <1>1, <1>2, <1>3, MergedSubType
<1>6. \A i \in Id : sub'[i] = IF sub[i] # None /\ sub[i].owner = q.src /\ i \notin q.subs THEN None
                              ELSE IF sub[i] = None THEN None ELSE MergedSub(q, i)
  BY DEF CommitMerge
<1>7. None \notin Subscription /\ None \notin User /\ None \notin Invoice
  BY RowAssumption
<1>8. \A i \in Id : sub[i] # None => sub'[i] # None /\ sub'[i].owner = IF i \in q.subs THEN Tg ELSE sub[i].owner
  <2> HIDE DEF q
  <2> QED BY <1>4, <1>5, <1>6, <1>7
<1>9. \A i \in Id : sub[i] = None => sub'[i] = None
  <2> HIDE DEF q
  <2> QED BY <1>6
<1>10. /\ \A i \in Id : i \notin {q.src, Tg} => row'[i] = row[i]
       /\ row'[q.src] = None /\ row'[Tg] = MergedUser(q)
  BY <1>0, <1>2, Ids DEF CommitMerge, TypeOK
<1>11. row'[Tg] # None
  <2>1. MergedUser(q) \in User
    BY <1>0, <1>1, <1>2, Helpers, Ids DEF MergedUser, User, MergeRequest
  <2> QED BY <1>7, <1>10, <2>1
<1>12. \A p \in Payment : payment'[p] = IF p \in q.payments THEN [payment[p] EXCEPT !.user = q.tgt]
                                        ELSE IF payment[p] # None /\ payment[p].user = q.src THEN None
                                        ELSE payment[p]
  BY DEF CommitMerge
<1>13. \A p \in q.payments : p \in Payment /\ payment[p] \in Invoice
  BY <1>0, <1>1, <1>4 DEF Shape, PaymentsKept, TypeOK, MergeRequest
<1>14. \A p \in q.payments : /\ [payment[p] EXCEPT !.user = q.tgt] \in Invoice
                             /\ [payment[p] EXCEPT !.user = q.tgt].user = Tg
  BY <1>2, <1>13, Ids DEF Invoice
<1>15. /\ \A p \in q.payments : payment'[p].user = Tg /\ payment'[p] # None
       /\ \A p \in Payment \ q.payments : payment'[p] = payment[p]
  <2> HIDE DEF q
  <2>1. \A p \in q.payments : payment'[p] = [payment[p] EXCEPT !.user = q.tgt]
    BY <1>12, <1>13
  <2>2. ASSUME NEW p \in q.payments PROVE payment'[p].user = Tg /\ payment'[p] # None
    BY <1>7, <1>14, <2>1
  <2>3. ASSUME NEW p \in Payment \ q.payments PROVE payment'[p] = payment[p]
    BY <1>4, <1>12
  <2> QED BY <2>2, <2>3
<1> QED BY <1>1, <1>2, <1>8, <1>9, <1>10, <1>11, <1>15

\* What a payment writes.
LEMMA Paying ==
    ASSUME Shape, NEW r \in Req, CommitPay(r)
    PROVE  /\ \A i \in Id : sub[i] # None => sub'[i] # None
           /\ \A i \in Id : \/ sub[i] # None /\ sub'[i].owner = sub[i].owner
                            \/ sub'[i] = None
                            \/ sub'[i].owner = req[r].id /\ ~SourceLocked(req[r].id)
           /\ \A p \in Payment : payment[p] # None => payment'[p] # None /\ payment'[p].user = payment[p].user
           /\ \A p \in Payment : payment[p] = None => payment'[p] = None
           /\ \A i \in Id : Exists(i)' <=> Exists(i)
           /\ \A i \in Id : Exists(i) => row'[i].email = row[i].email
<1> DEFINE q == req[r]
           others == {i \in Id : sub[i] # None /\ sub[i].panel = q.panel /\ i # q.panel}
           paidFor == [owner |-> q.id, panel |-> q.panel, end |-> q.end, active |-> TRUE]
<1>0. TypeOK /\ TypeOK'
  BY NextTypeOK DEF Shape, Next
<1>1. q \in PayRequest /\ q.pc = "pay" /\ q.payment \in placed /\ (q.loaded => sub[q.panel] # None)
  BY <1>0, RequestKinds DEF CommitPay, TypeOK, Shape, PaysFit
<1>2. /\ q.id \in Id /\ q.panel \in Id /\ q.end \in Nat /\ q.loaded \in BOOLEAN /\ q.payment \in Payment
  BY <1>1 DEF PayRequest
<1>3. None \notin Subscription /\ None \notin User /\ None \notin Invoice
  BY RowAssumption
<1>4. \A i \in Id : sub'[i] = IF i = q.panel THEN IF q.loaded THEN [sub[i] EXCEPT !.end = q.end] ELSE paidFor
                              ELSE IF i \in others THEN [sub[i] EXCEPT !.active = FALSE] ELSE sub[i]
  BY DEF CommitPay
<1>5. paidFor \in Subscription /\ paidFor.owner = q.id
  BY <1>2 DEF Subscription
<1>6. ASSUME NEW i \in Id, sub[i] # None
      PROVE  /\ [sub[i] EXCEPT !.end = q.end] \in Subscription
             /\ [sub[i] EXCEPT !.active = FALSE] \in Subscription
             /\ [sub[i] EXCEPT !.end = q.end].owner = sub[i].owner
             /\ [sub[i] EXCEPT !.active = FALSE].owner = sub[i].owner
  <2> DEFINE s == sub[i]
             e == q.end
  <2>1. s \in Subscription /\ e \in Nat
    BY <1>0, <1>2, <1>6 DEF TypeOK
  <2> HIDE DEF s, e
  <2>2. [s EXCEPT !.end = e] \in Subscription /\ [s EXCEPT !.end = e].owner = s.owner
    BY <2>1 DEF Subscription
  <2>3. [s EXCEPT !.active = FALSE] \in Subscription /\ [s EXCEPT !.active = FALSE].owner = s.owner
    BY <2>1 DEF Subscription
  <2> QED BY <2>2, <2>3 DEF s, e
<1>7. \A i \in others : sub[i] # None
  OBVIOUS
<1>8. q.loaded \/ ~SourceLocked(q.id)
  BY DEF CommitPay
<1>9. /\ \A i \in Id : sub[i] # None => sub'[i] # None
      /\ \A i \in Id : \/ sub[i] # None /\ sub'[i].owner = sub[i].owner
                       \/ sub'[i] = None
                       \/ sub'[i].owner = q.id /\ ~SourceLocked(q.id)
  <2> HIDE DEF q, others, paidFor
  <2> SUFFICES ASSUME NEW i \in Id
               PROVE  /\ sub[i] # None => sub'[i] # None
                      /\ \/ sub[i] # None /\ sub'[i].owner = sub[i].owner
                         \/ sub'[i] = None
                         \/ sub'[i].owner = q.id /\ ~SourceLocked(q.id)
    OBVIOUS
  <2>1. CASE i = q.panel /\ q.loaded
    <3>1. sub[i] # None /\ sub'[i] = [sub[i] EXCEPT !.end = q.end]
      BY <1>1, <1>4, <2>1
    <3> QED BY <1>3, <1>6, <3>1
  <2>2. CASE i = q.panel /\ ~q.loaded
    <3>1. sub'[i] = paidFor
      BY <1>4, <2>2
    <3> QED BY <1>3, <1>5, <1>8, <2>2, <3>1
  <2>3. CASE i # q.panel /\ i \in others
    <3>1. sub[i] # None /\ sub'[i] = [sub[i] EXCEPT !.active = FALSE]
      BY <1>4, <1>7, <2>3
    <3> QED BY <1>3, <1>6, <3>1
  <2>4. CASE i # q.panel /\ i \notin others
    <3>1. sub'[i] = sub[i]
      BY <1>4, <2>4
    <3> QED BY <3>1
  <2> QED BY <2>1, <2>2, <2>3, <2>4
<1>10. /\ \A p \in Payment : payment[p] # None => payment'[p] # None /\ payment'[p].user = payment[p].user
       /\ \A p \in Payment : payment[p] = None => payment'[p] = None
  <2>1. payment[q.payment] \in Invoice
    BY <1>0, <1>1, <1>2 DEF Shape, PaymentsKept, TypeOK
  <2>2. /\ [payment[q.payment] EXCEPT !.paid = TRUE] \in Invoice
        /\ [payment[q.payment] EXCEPT !.paid = TRUE].user = payment[q.payment].user
    BY <2>1 DEF Invoice
  <2>3. payment' = [payment EXCEPT ![q.payment] = [payment[q.payment] EXCEPT !.paid = TRUE]]
    BY DEF CommitPay
  <2>4. \A p \in Payment : payment'[p] = IF p = q.payment THEN [payment[q.payment] EXCEPT !.paid = TRUE]
                                         ELSE payment[p]
    BY <1>0, <2>3 DEF TypeOK
  <2> HIDE DEF q
  <2> QED BY <1>3, <2>1, <2>2, <2>4
<1>11. /\ \A i \in Id : Exists(i)' <=> Exists(i)
       /\ \A i \in Id : Exists(i) => row'[i].email = row[i].email
  <2>1. CASE q.loaded
    BY <2>1 DEF CommitPay, Exists
  <2>2. CASE ~q.loaded
    <3>1. row[q.id] \in User /\ Exists(q.id)
      BY <1>0, <1>2, <2>2, Helpers DEF CommitPay
    <3>2. /\ [row[q.id] EXCEPT !.panel = q.panel] \in User
          /\ [row[q.id] EXCEPT !.panel = q.panel].email = row[q.id].email
      BY <1>2, <3>1 DEF User, MaybeId
    <3>3. row' = [row EXCEPT ![q.id] = [row[q.id] EXCEPT !.panel = q.panel]]
      BY <2>2 DEF CommitPay
    <3>4. \A i \in Id : row'[i] = IF i = q.id THEN [row[q.id] EXCEPT !.panel = q.panel] ELSE row[i]
      BY <1>0, <3>3 DEF TypeOK
    <3> HIDE DEF q
    <3> QED BY <1>3, <3>1, <3>2, <3>4 DEF Exists
  <2> QED BY <2>1, <2>2
<1> QED BY <1>9, <1>10, <1>11

\* Rows of subscriptions stay, and no new one or its owner is a source that is written.
LEMMA Subs ==
    ASSUME Shape, [Next]_vars
    PROVE  /\ \A i \in Id : sub[i] # None => sub'[i] # None
           /\ \A i \in Id, s \in EmailId : SourceLocked(s) /\ sub'[i] # None /\ sub'[i].owner = s
                                              => sub[i] # None /\ sub[i].owner = s
<1>0. TypeOK
  BY DEF Shape
<1>1. CASE UNCHANGED sub
  BY <1>1
<1>2. ASSUME NEW r \in Req, CommitPay(r)
      PROVE  /\ \A i \in Id : sub[i] # None => sub'[i] # None
             /\ \A i \in Id, s \in EmailId : SourceLocked(s) /\ sub'[i] # None /\ sub'[i].owner = s
                                                => sub[i] # None /\ sub[i].owner = s
  BY <1>2, Paying
<1>3. ASSUME NEW r \in Req, CommitMerge(r)
      PROVE  /\ \A i \in Id : sub[i] # None => sub'[i] # None
             /\ \A i \in Id, s \in EmailId : SourceLocked(s) /\ sub'[i] # None /\ sub'[i].owner = s
                                                => sub[i] # None /\ sub[i].owner = s
  BY <1>3, Committing, Ids
<1>4. ASSUME NEW j \in Id, Lapse(j)
      PROVE  /\ \A i \in Id : sub[i] # None => sub'[i] # None
             /\ \A i \in Id, s \in EmailId : SourceLocked(s) /\ sub'[i] # None /\ sub'[i].owner = s
                                                => sub[i] # None /\ sub[i].owner = s
  <2>1. sub[j] \in Subscription
    BY <1>0, <1>4 DEF Lapse, TypeOK
  <2>2. [sub[j] EXCEPT !.active = FALSE] \in Subscription /\ [sub[j] EXCEPT !.active = FALSE].owner = sub[j].owner
    BY <2>1 DEF Subscription
  <2>3. sub' = [sub EXCEPT ![j] = [sub[j] EXCEPT !.active = FALSE]]
    BY <1>4 DEF Lapse
  <2>4. \A i \in Id : sub'[i] = IF i = j THEN [sub[j] EXCEPT !.active = FALSE] ELSE sub[i]
    BY <1>0, <2>3 DEF TypeOK
  <2>5. None \notin Subscription
    BY RowAssumption
  <2> QED BY <2>1, <2>2, <2>4, <2>5
<1> QED
  BY <1>1, <1>2, <1>3, <1>4, ZenonT(60)
  DEF Next, vars, tables, Pass, Start, OpenTicket, Order, BeginPay, Ask, Enter, LinkTelegram, CommitAsk, Verify,
      CommitLogin, CommitLink, CommitPassword, FlushMerge, MoveRows, RefuseMerge, Fail

\* Invoices stay with their account, or come to the one of Telegram, and none is new
\* for a source that is written.
LEMMA Invoices ==
    ASSUME Shape, [Next]_vars
    PROVE  /\ \A p \in Payment : payment[p] # None => payment'[p] # None
           /\ \A p \in Payment : payment'[p] # None /\ payment[p] = None => p \in placed' /\ row'[payment'[p].user] # None
           /\ \A p \in Payment, s \in EmailId : SourceLocked(s) /\ payment'[p] # None /\ payment'[p].user = s
                                              => payment[p] # None /\ payment[p].user = s
           /\ placed \subseteq placed'
<1> DEFINE Goal == /\ \A p \in Payment : payment[p] # None => payment'[p] # None
                   /\ \A p \in Payment : payment'[p] # None /\ payment[p] = None
                                            => p \in placed' /\ row'[payment'[p].user] # None
                   /\ \A p \in Payment, s \in EmailId : SourceLocked(s) /\ payment'[p] # None /\ payment'[p].user = s
                                                      => payment[p] # None /\ payment[p].user = s
                   /\ placed \subseteq placed'
<1>0. TypeOK
  BY DEF Shape
<1>1. ASSUME UNCHANGED <<payment, placed>> PROVE Goal
  BY <1>1
<1>2. ASSUME NEW r \in Req, CommitPay(r) PROVE Goal
  BY <1>2, Paying DEF CommitPay
<1>3. ASSUME NEW r \in Req, CommitMerge(r) PROVE Goal
  <2>1. UNCHANGED placed
    BY <1>3 DEF CommitMerge
  <2>2. \A p \in req[r].payments : payment[p] # None
    BY <1>3, Committing DEF Shape, MovedAll, PaymentsKept
  <2> QED BY <1>3, <2>1, <2>2, Committing, Ids
<1>4. ASSUME NEW i \in Id, NEW p \in Payment, Order(p, i) PROVE Goal
  <2>1. p \notin placed /\ Exists(i) /\ ~SourceLocked(i) /\ UNCHANGED row /\ placed' = placed \cup {p}
    BY <1>4 DEF Order
  <2>2. payment[p] = None
    BY <2>1 DEF Shape, InvoicesPlaced
  <2>3. \A x \in Payment : payment'[x] = IF x = p THEN [user |-> i, paid |-> FALSE] ELSE payment[x]
    BY <1>0, <1>4 DEF Order, TypeOK
  <2>4. [user |-> i, paid |-> FALSE].user = i
    OBVIOUS
  <2> QED BY <2>1, <2>2, <2>3, <2>4 DEF Exists
<1> HIDE DEF Goal
<1>5. Goal
  BY <1>1, <1>2, <1>3, <1>4, ZenonT(60)
  DEF Next, vars, tables, history, Pass, Start, OpenTicket, Lapse, BeginPay, Ask, Enter, LinkTelegram, CommitAsk,
      Verify, CommitLogin, CommitLink, CommitPassword, FlushMerge, MoveRows, RefuseMerge, Fail
<1> QED BY <1>5 DEF Goal

(***************************************************************************)
(* The parts of Shape.                                                     *)
(***************************************************************************)

\* A step changes one request.
LEMMA OneRequest ==
    ASSUME TypeOK, [Next]_vars
    PROVE  \/ UNCHANGED req
           \/ \E r \in Req : \A x \in Req \ {r} : req'[x] = req[x]
<1>1. ASSUME NEW r \in Req, NEW n, NEW src, NEW tgt, BeginMerge(r, n, src, tgt)
      PROVE  \A x \in Req \ {r} : req'[x] = req[x]
  BY <1>1 DEF BeginMerge, TypeOK
<1>2. ASSUME NEW r \in Req, Verify(r) PROVE \A x \in Req \ {r} : req'[x] = req[x]
  BY <1>1, <1>2 DEF Verify, TypeOK
<1>3. ASSUME NEW r \in Req, NEW i \in Id, LinkTelegram(r, i) PROVE \A x \in Req \ {r} : req'[x] = req[x]
  BY <1>1, <1>3 DEF LinkTelegram
<1>4. ASSUME NEW r \in Req, NEW p \in Payment, BeginPay(r, p) PROVE \A x \in Req \ {r} : req'[x] = req[x]
  BY <1>4 DEF BeginPay, TypeOK
<1>5. ASSUME NEW r \in Req, NEW m \in Email, NEW to \in MaybeId, NEW purpose \in {"login", "link_email", "set_password"},
             Ask(r, m, purpose, to)
      PROVE  \A x \in Req \ {r} : req'[x] = req[x]
  BY <1>5 DEF Ask, TypeOK
<1>6. ASSUME NEW r \in Req, NEW c \in codes, Enter(r, c) PROVE \A x \in Req \ {r} : req'[x] = req[x]
  BY <1>6 DEF Enter, TypeOK
<1>7. ASSUME NEW r \in Req, CommitPay(r) \/ CommitAsk(r) \/ CommitLogin(r) \/ CommitLink(r) \/ CommitPassword(r)
                            \/ FlushMerge(r) \/ MoveRows(r) \/ RefuseMerge(r) \/ CommitMerge(r) \/ Fail(r)
      PROVE  \A x \in Req \ {r} : req'[x] = req[x]
  BY <1>7 DEF CommitPay, CommitAsk, CommitLogin, CommitLink, CommitPassword, FlushMerge, MoveRows, RefuseMerge,
              CommitMerge, Fail, TypeOK
<1> QED
  BY <1>2, <1>3, <1>4, <1>5, <1>6, <1>7
  DEF Next, vars, tables, Pass, Start, OpenTicket, Lapse, Order

\* A merge that is under way goes on.
LEMMA Moving ==
    ASSUME TypeOK, NEW r \in Req, FlushMerge(r) \/ MoveRows(r)
    PROVE  req'[r].pc \in {"flushed", "moved"} /\ \A x \in Req \ {r} : req'[x] = req[x]
<1>1. req[r] \in MergeRequest
  BY RequestKinds DEF FlushMerge, MoveRows, TypeOK
<1>2. CASE FlushMerge(r)
  <2>1. req' = [req EXCEPT ![r] = [req[r] EXCEPT !.pc = "flushed"]]
    BY <1>2 DEF FlushMerge
  <2>2. [req[r] EXCEPT !.pc = "flushed"].pc = "flushed"
    BY <1>1 DEF MergeRequest
  <2> QED BY <2>1, <2>2 DEF TypeOK
<1>3. CASE MoveRows(r)
  <2> DEFINE new == [req[r] EXCEPT !.pc = "moved", !.subs = SubsOf(req[r].src),
                       !.payments = {p \in Payment : payment[p] # None /\ payment[p].user = req[r].src}]
  <2>1. req' = [req EXCEPT ![r] = new]
    BY <1>3 DEF MoveRows
  <2>2. new.pc = "moved"
    BY <1>1 DEF MergeRequest
  <2> HIDE DEF new
  <2> QED BY <2>1, <2>2 DEF TypeOK
<1> QED BY <1>2, <1>3

\* What the bulk updates record.
LEMMA Moved ==
    ASSUME TypeOK, NEW r \in Req, MoveRows(r)
    PROVE  /\ req'[r].pc = "moved" /\ req'[r].src = req[r].src /\ req'[r].tgt = req[r].tgt
           /\ req'[r].email = req[r].email
           /\ req'[r].active = req[r].active /\ req'[r].anchor = req[r].anchor
           /\ req'[r].subs = SubsOf(req[r].src)
           /\ req'[r].payments = {p \in Payment : payment[p] # None /\ payment[p].user = req[r].src}
<1> DEFINE S == SubsOf(req[r].src)
           P == {p \in Payment : payment[p] # None /\ payment[p].user = req[r].src}
           new == [req[r] EXCEPT !.pc = "moved", !.subs = S, !.payments = P]
<1>1. req[r] \in MergeRequest
  BY RequestKinds DEF MoveRows, TypeOK
<1>2. req' = [req EXCEPT ![r] = new]
  BY DEF MoveRows
<1>3. req'[r] = new
  BY <1>2 DEF TypeOK
<1> HIDE DEF S, P
<1>4. /\ new.pc = "moved" /\ new.src = req[r].src /\ new.tgt = req[r].tgt /\ new.email = req[r].email
      /\ new.active = req[r].active /\ new.anchor = req[r].anchor /\ new.subs = S /\ new.payments = P
  BY <1>1 DEF MergeRequest
<1> HIDE DEF new
<1>5. SubsOf(req[r].src) = S /\ {p \in Payment : payment[p] # None /\ payment[p].user = req[r].src} = P
  BY DEF S, P
<1> QED BY <1>3, <1>4, <1>5

\* How a request gets to a location of a merge.
LEMMA ToMerge ==
    ASSUME Shape, [Next]_vars, NEW r \in Req, Merging(r)'
    PROVE  \/ req'[r] = req[r]
           \/ /\ req[r].pc = "read" /\ req'[r] = [req[r] EXCEPT !.pc = "flushed"] /\ FlushMerge(r)
           \/ /\ req[r].pc = "flushed" /\ MoveRows(r)
           \/ \E n \in Nat, src \in Id, tgt \in Id :
                 /\ BeginMerge(r, n, src, tgt) /\ req'[r].pc = "read"
                 /\ UNCHANGED <<row, sub>>
                 /\ Exists(src) /\ row[src].email # None
                 /\ \/ Exists(tgt) /\ src # tgt
                    \/ src \in EmailId /\ tgt = Tg
<1>0. TypeOK /\ CodesFit
  BY DEF Shape
<1>1. CASE UNCHANGED req
  BY <1>1
<1>2. ASSUME NEW x \in Req, req'[x].pc \notin {"read", "flushed", "moved"}, \A y \in Req \ {x} : req'[y] = req[y]
      PROVE  req'[r] = req[r]
  BY <1>2 DEF Merging
<1>3. ASSUME NEW x \in Req, CommitPay(x) \/ CommitAsk(x) \/ CommitLogin(x) \/ CommitLink(x) \/ CommitPassword(x)
                            \/ RefuseMerge(x) \/ CommitMerge(x) \/ Fail(x)
      PROVE  req'[r] = req[r]
  <2>1. req'[x] = Idle /\ \A y \in Req \ {x} : req'[y] = req[y]
    BY <1>0, <1>3 DEF CommitPay, CommitAsk, CommitLogin, CommitLink, CommitPassword, RefuseMerge, CommitMerge,
                      Fail, TypeOK
  <2> QED BY <1>2, <2>1, Requests
<1>4. ASSUME NEW x \in Req, NEW p \in Payment, BeginPay(x, p) PROVE req'[r] = req[r]
  <2>1. req'[x].pc = "pay" /\ \A y \in Req \ {x} : req'[y] = req[y]
    BY <1>0, <1>4 DEF BeginPay, TypeOK
  <2> QED BY <1>2, <2>1
<1>5. ASSUME NEW x \in Req, NEW m \in Email, NEW to \in MaybeId, NEW purpose \in {"login", "link_email", "set_password"},
             Ask(x, m, purpose, to)
      PROVE  req'[r] = req[r]
  <2>1. req'[x].pc = "ask" /\ \A y \in Req \ {x} : req'[y] = req[y]
    BY <1>0, <1>5 DEF Ask, TypeOK
  <2> QED BY <1>2, <2>1
<1>6. ASSUME NEW x \in Req, NEW c \in codes, Enter(x, c) PROVE req'[r] = req[r]
  <2>1. req'[x].pc = "entered" /\ \A y \in Req \ {x} : req'[y] = req[y]
    BY <1>0, <1>6 DEF Enter, TypeOK
  <2> QED BY <1>2, <2>1
<1>7. ASSUME NEW x \in Req, FlushMerge(x)
      PROVE  req'[r] = req[r] \/ (req[r].pc = "read" /\ req'[r] = [req[r] EXCEPT !.pc = "flushed"] /\ x = r)
  BY <1>0, <1>7 DEF FlushMerge, TypeOK
<1>8. ASSUME NEW x \in Req, MoveRows(x)
      PROVE  req'[r] = req[r] \/ (req[r].pc = "flushed" /\ x = r)
  BY <1>0, <1>8 DEF MoveRows, TypeOK
<1> DEFINE Begins == \E n \in Nat, src \in Id, tgt \in Id :
                        /\ BeginMerge(r, n, src, tgt) /\ req'[r].pc = "read"
                        /\ UNCHANGED <<row, sub>>
                        /\ Exists(src) /\ row[src].email # None
                        /\ \/ Exists(tgt) /\ src # tgt
                           \/ src \in EmailId /\ tgt = Tg
<1>9. ASSUME NEW x \in Req, NEW n \in Nat, NEW src \in Id, NEW tgt \in Id, BeginMerge(x, n, src, tgt)
      PROVE  req'[r] = req[r] \/ (x = r /\ req'[r].pc = "read")
  <2>1. /\ \A y \in Req \ {x} : req'[y] = req[y]
        /\ req'[x] = Idle \/ req'[x].pc = "read"
    BY <1>0, <1>9, Begun
  <2> QED BY <2>1, Requests DEF Merging
<1>10. ASSUME NEW x \in Req, NEW i \in Id, LinkTelegram(x, i) PROVE req'[r] = req[r] \/ Begins
  <2>1. /\ BeginMerge(x, 0, i, Tg) /\ i \in EmailId /\ Exists(i) /\ UNCHANGED <<row, sub>>
    BY <1>10 DEF LinkTelegram, tables
  <2>2. row[i].email # None
    BY <2>1 DEF Shape, UsersFit
  <2>3. req'[r] = req[r] \/ (x = r /\ req'[r].pc = "read")
    BY <1>9, <2>1, Ids
  <2> QED BY <2>1, <2>2, <2>3, Ids
<1>11. ASSUME NEW x \in Req, Verify(x) PROVE req'[r] = req[r] \/ Begins
  <2> DEFINE c == req[x].code
             found == UserOf(c.email)
  <2>1. c \in Code /\ CodeFits(c)
    BY <1>0, <1>11, RequestKinds DEF Verify, EnterRequest, CodesFit, TypeOK
  <2>2. c.n \in Nat /\ c.to \in MaybeId /\ c.email \in Email /\ found \in MaybeId
    BY <1>0, <2>1, Helpers DEF Code
  <2>3. CASE \E pc \in {"login", "link", "password"}, id \in MaybeId :
                req' = [req EXCEPT ![x] = [pc |-> pc, code |-> c, id |-> id]]
    <3>1. req'[x].pc \in {"login", "link", "password"} /\ \A y \in Req \ {x} : req'[y] = req[y]
      BY <1>0, <2>3 DEF TypeOK
    <3> QED BY <1>2, <3>1
  <2>4. CASE c.purpose = "link_email" /\ Exists(c.to) /\ found \notin {None, c.to} /\ BeginMerge(x, c.n, found, c.to)
    <3>1. c.to \in Id /\ found \in Id
      BY <2>1, <2>2, <2>4 DEF CodeFits, MaybeId
    <3>2. Exists(found) /\ row[found].email # None
      BY <1>0, <2>2, <2>4, Helpers, Ids
    <3>3. req'[r] = req[r] \/ (x = r /\ req'[r].pc = "read")
      BY <1>9, <2>2, <2>4, <3>1
    <3>4. UNCHANGED <<row, sub>>
      BY <1>11 DEF Verify, tables
    <3> HIDE DEF c, found
    <3> QED BY <2>2, <2>4, <3>1, <3>2, <3>3, <3>4
  <2> QED BY <1>11, <2>2, <2>3, <2>4 DEF Verify
<1> HIDE DEF Begins
<1>12. \/ req'[r] = req[r]
       \/ /\ req[r].pc = "read" /\ req'[r] = [req[r] EXCEPT !.pc = "flushed"] /\ FlushMerge(r)
       \/ /\ req[r].pc = "flushed" /\ MoveRows(r)
       \/ Begins
  BY <1>1, <1>3, <1>4, <1>5, <1>6, <1>7, <1>8, <1>10, <1>11
  DEF Next, vars, tables, Pass, Start, OpenTicket, Lapse, Order
<1> QED BY <1>12 DEF Begins

\* A merge is opened for an account by email, into the one of Telegram without an email.
LEMMA BegunFits ==
    ASSUME Shape, NEW r \in Req, NEW n \in Nat, NEW src \in Id, NEW tgt \in Id,
           BeginMerge(r, n, src, tgt), req'[r].pc = "read", Exists(src), row[src].email # None,
           (Exists(tgt) /\ src # tgt) \/ (src \in EmailId /\ tgt = Tg)
    PROVE  /\ src \in EmailId /\ tgt = Tg /\ EmailOf(tgt) = None
           /\ req'[r].email = row[src].email
<1>0. TypeOK
  BY DEF Shape
<1>1. /\ req'[r].email = EmailToMove(src, tgt)
      /\ EmailOf(src) = None \/ EmailOf(tgt) \in {None, EmailOf(src)}
  <2>1. req'[r] # Idle
    BY Requests
  <2>2. ~(EmailOf(src) # None /\ EmailOf(tgt) \notin {None, EmailOf(src)})
    BY <1>0, <2>1 DEF BeginMerge, TypeOK
  <2>3. req'[r].email = EmailToMove(src, tgt)
    BY <1>0, <2>2 DEF BeginMerge, TypeOK
  <2> QED BY <2>2, <2>3
<1>2. EmailOf(src) = row[src].email
  BY DEF EmailOf
<1>3. src # tgt
  BY Ids
<1>4. EmailOf(tgt) = None
  <2>1. CASE Exists(tgt)
    BY <1>1, <1>2, <1>3, <2>1 DEF EmailOf, Shape, UsersFit
  <2>2. CASE ~Exists(tgt)
    BY <2>2 DEF EmailOf
  <2> QED BY <2>1, <2>2
<1>5. tgt = Tg
  <2>1. CASE Exists(tgt) /\ tgt \in EmailId
    BY <1>4, <2>1 DEF EmailOf, Shape, UsersFit
  <2> QED BY <2>1 DEF Id
<1>6. src \in EmailId
  BY <1>3, <1>5 DEF Id
<1> QED BY <1>1, <1>2, <1>4, <1>5, <1>6 DEF EmailToMove

LEMMA CodesFitStep == Shape /\ [Next]_vars => CodesFit'
<1> SUFFICES ASSUME Shape, [Next]_vars PROVE CodesFit'
  OBVIOUS
<1>0. TypeOK /\ CodesFit
  BY DEF Shape
<1>1. ASSUME NEW r \in Req, \A x \in Req \ {r} : req'[x] = req[x],
             req'[r].pc \in {"ask", "entered"} => CodeFits(req'[r].code),
             req'[r].pc \in {"link", "password"} => req'[r].id # None,
             \A c \in codes' : CodeFits(c)
      PROVE  CodesFit'
  BY <1>0, <1>1 DEF CodesFit, CodeFits
<1>2. CASE UNCHANGED <<codes, req>>
  BY <1>0, <1>2 DEF CodesFit
<1>3. ASSUME NEW n PROVE \A c \in Consumed(n) : CodeFits(c)
  BY <1>0 DEF Consumed, CodesFit, CodeFits, TypeOK, Code
<1>4. ASSUME NEW r \in Req, CommitLogin(r) \/ CommitLink(r) \/ CommitPassword(r) \/ CommitMerge(r) PROVE CodesFit'
  <2>1. req'[r] = Idle /\ \A x \in Req \ {r} : req'[x] = req[x]
    BY <1>0, <1>4 DEF CommitLogin, CommitLink, CommitPassword, CommitMerge, TypeOK
  <2>2. \E n : codes' = Consumed(n)
    BY <1>4 DEF CommitLogin, CommitLink, CommitPassword, CommitMerge
  <2>3. \A c \in codes' : CodeFits(c)
    BY <1>3, <2>2
  <2> QED BY <1>1, <2>1, <2>3, Requests
<1>5. ASSUME NEW r \in Req, CommitPay(r) \/ RefuseMerge(r) \/ Fail(r) PROVE CodesFit'
  <2>1. req'[r] = Idle /\ UNCHANGED codes /\ \A x \in Req \ {r} : req'[x] = req[x]
    BY <1>0, <1>5 DEF CommitPay, RefuseMerge, Fail, tables, TypeOK
  <2> QED BY <1>0, <1>1, <2>1, Requests DEF CodesFit
<1>6. ASSUME NEW r \in Req, CommitAsk(r) PROVE CodesFit'
  <2>1. req'[r] = Idle /\ \A x \in Req \ {r} : req'[x] = req[x]
    BY <1>0, <1>6 DEF CommitAsk, TypeOK
  <2>2. CodeFits(req[r].code)
    BY <1>0, <1>6 DEF CommitAsk, CodesFit
  <2>3. \A c \in codes : CodeFits([c EXCEPT !.superseded = c.superseded \/ c.n \in req[r].old])
    BY <1>0 DEF CodesFit, CodeFits, TypeOK, Code
  <2>4. codes' = {[c EXCEPT !.superseded = c.superseded \/ c.n \in req[r].old] : c \in codes} \cup {req[r].code}
    BY <1>6 DEF CommitAsk
  <2> QED BY <1>1, <2>1, <2>2, <2>3, <2>4, Requests
<1>7. ASSUME NEW r \in Req, NEW m \in Email, NEW to \in MaybeId, NEW purpose \in {"login", "link_email", "set_password"},
             Ask(r, m, purpose, to)
      PROVE  CodesFit'
  <2>1. /\ req'[r].pc = "ask" /\ req'[r].code.purpose = purpose /\ req'[r].code.to = to
        /\ \A x \in Req \ {r} : req'[x] = req[x]
    BY <1>0, <1>7 DEF Ask, TypeOK
  <2>2. purpose # "login" => to # None
    BY <1>7 DEF Ask, MayAsk
  <2>3. UNCHANGED codes
    BY <1>7 DEF Ask, tables
  <2> QED BY <1>0, <1>1, <2>1, <2>2, <2>3 DEF CodeFits, CodesFit
<1>8. ASSUME NEW r \in Req, NEW c \in codes, Enter(r, c) PROVE CodesFit'
  <2>1. req'[r].pc = "entered" /\ req'[r].code = c /\ UNCHANGED codes /\ \A x \in Req \ {r} : req'[x] = req[x]
    BY <1>0, <1>8 DEF Enter, tables, TypeOK
  <2> QED BY <1>0, <1>1, <2>1 DEF CodesFit
<1>9. ASSUME NEW r \in Req, NEW p \in Payment, BeginPay(r, p) PROVE CodesFit'
  <2>1. req'[r].pc = "pay" /\ UNCHANGED codes /\ \A x \in Req \ {r} : req'[x] = req[x]
    BY <1>0, <1>9 DEF BeginPay, tables, TypeOK
  <2> QED BY <1>0, <1>1, <2>1 DEF CodesFit
<1>10. ASSUME NEW r \in Req, FlushMerge(r) \/ MoveRows(r) PROVE CodesFit'
  <2>1. req'[r].pc \in {"flushed", "moved"} /\ \A x \in Req \ {r} : req'[x] = req[x]
    BY <1>0, <1>10, Moving
  <2>2. UNCHANGED codes
    BY <1>10 DEF FlushMerge, MoveRows, tables
  <2> QED BY <1>0, <1>1, <2>1, <2>2 DEF CodesFit
<1>11. ASSUME NEW r \in Req, NEW n \in Nat, NEW src \in Id, NEW tgt \in Id, BeginMerge(r, n, src, tgt), UNCHANGED codes
       PROVE  CodesFit'
  <2>1. /\ \A x \in Req \ {r} : req'[x] = req[x]
        /\ req'[r].pc \in {"idle", "read"}
    BY <1>0, <1>11, Begun, Requests
  <2> QED BY <1>0, <1>1, <1>11, <2>1 DEF CodesFit
<1>12. ASSUME NEW r \in Req, NEW i \in Id, LinkTelegram(r, i) PROVE CodesFit'
  BY <1>11, <1>12, Ids DEF LinkTelegram, tables
<1>13. ASSUME NEW r \in Req, Verify(r) PROVE CodesFit'
  <2> DEFINE c == req[r].code
             found == UserOf(c.email)
  <2>1. c \in Code /\ CodeFits(c)
    BY <1>0, <1>13, RequestKinds DEF Verify, EnterRequest, CodesFit, TypeOK
  <2>2. c.n \in Nat /\ c.to \in MaybeId /\ c.email \in Email /\ found \in MaybeId
    BY <1>0, <2>1, Helpers DEF Code
  <2>3. UNCHANGED codes
    BY <1>13 DEF Verify, tables
  <2>4. CASE \E pc \in {"login", "link", "password"}, id \in MaybeId :
                /\ req' = [req EXCEPT ![r] = [pc |-> pc, code |-> c, id |-> id]]
                /\ pc # "login" => id = c.to /\ c.purpose # "login"
    <3>1. /\ req'[r].pc \in {"login", "link", "password"} /\ \A y \in Req \ {r} : req'[y] = req[y]
          /\ req'[r].pc # "login" => req'[r].id = c.to /\ c.purpose # "login"
      BY <1>0, <2>4 DEF TypeOK
    <3>2. req'[r].pc # "login" => req'[r].id # None
      BY <2>1, <3>1 DEF CodeFits
    <3> QED BY <1>0, <1>1, <2>3, <3>1, <3>2 DEF CodesFit
  <2>5. CASE c.purpose = "link_email" /\ Exists(c.to) /\ found \notin {None, c.to} /\ BeginMerge(r, c.n, found, c.to)
    <3>1. c.to \in Id /\ found \in Id
      BY <2>1, <2>2, <2>5 DEF CodeFits, MaybeId
    <3> QED BY <1>11, <2>2, <2>3, <2>5, <3>1
  <2>6. "login" # "set_password" /\ "login" # "link_email"
    OBVIOUS
  <2> QED BY <1>13, <2>2, <2>4, <2>5, <2>6 DEF Verify
<1> QED
  BY <1>2, <1>4, <1>5, <1>6, <1>7, <1>8, <1>9, <1>10, <1>12, <1>13
  DEF Next, vars, tables, Pass, Start, OpenTicket, Lapse, Order

\* How a request gets to a payment.
LEMMA ToPay ==
    ASSUME Shape, [Next]_vars, NEW r \in Req, req'[r].pc = "pay"
    PROVE  req'[r] = req[r] \/ \E p \in Payment : BeginPay(r, p)
<1>0. TypeOK
  BY DEF Shape
<1>1. ASSUME NEW x \in Req, req'[x].pc # "pay", \A y \in Req \ {x} : req'[y] = req[y]
      PROVE  req'[r] = req[r]
  BY <1>1
<1>2. ASSUME NEW x \in Req, CommitPay(x) \/ CommitAsk(x) \/ CommitLogin(x) \/ CommitLink(x) \/ CommitPassword(x)
                            \/ RefuseMerge(x) \/ CommitMerge(x) \/ Fail(x)
      PROVE  req'[r] = req[r]
  <2>1. req'[x] = Idle /\ \A y \in Req \ {x} : req'[y] = req[y]
    BY <1>0, <1>2 DEF CommitPay, CommitAsk, CommitLogin, CommitLink, CommitPassword, RefuseMerge, CommitMerge,
                      Fail, TypeOK
  <2> QED BY <1>1, <2>1, Requests
<1>3. ASSUME NEW x \in Req, FlushMerge(x) \/ MoveRows(x) PROVE req'[r] = req[r]
  <2>1. req'[x].pc \in {"flushed", "moved"} /\ \A y \in Req \ {x} : req'[y] = req[y]
    BY <1>0, <1>3, Moving
  <2> QED BY <1>1, <2>1
<1>4. ASSUME NEW x \in Req, NEW m \in Email, NEW to \in MaybeId,
             NEW purpose \in {"login", "link_email", "set_password"}, Ask(x, m, purpose, to)
      PROVE  req'[r] = req[r]
  <2>1. req'[x].pc = "ask" /\ \A y \in Req \ {x} : req'[y] = req[y]
    BY <1>0, <1>4 DEF Ask, TypeOK
  <2> QED BY <1>1, <2>1
<1>5. ASSUME NEW x \in Req, NEW c \in codes, Enter(x, c) PROVE req'[r] = req[r]
  <2>1. req'[x].pc = "entered" /\ \A y \in Req \ {x} : req'[y] = req[y]
    BY <1>0, <1>5 DEF Enter, TypeOK
  <2> QED BY <1>1, <2>1
<1>6. ASSUME NEW x \in Req, NEW n, NEW src, NEW tgt, BeginMerge(x, n, src, tgt) PROVE req'[r] = req[r]
  <2>1. (req'[x] = Idle \/ req'[x].pc = "read") /\ \A y \in Req \ {x} : req'[y] = req[y]
    BY <1>0, <1>6 DEF BeginMerge, TypeOK
  <2> QED BY <1>1, <2>1, Requests
<1>7. ASSUME NEW x \in Req, NEW i \in Id, LinkTelegram(x, i) PROVE req'[r] = req[r]
  BY <1>6, <1>7 DEF LinkTelegram
<1>8. ASSUME NEW x \in Req, Verify(x) PROVE req'[r] = req[r]
  <2>1. CASE \E pc \in {"login", "link", "password"} : \E c, id :
                req' = [req EXCEPT ![x] = [pc |-> pc, code |-> c, id |-> id]]
    <3>1. req'[x].pc \in {"login", "link", "password"} /\ \A y \in Req \ {x} : req'[y] = req[y]
      BY <1>0, <2>1 DEF TypeOK
    <3> QED BY <1>1, <3>1
  <2>2. CASE \E n, src, tgt : BeginMerge(x, n, src, tgt)
    BY <1>6, <2>2
  <2> QED BY <1>8, <2>1, <2>2 DEF Verify
<1>9. ASSUME NEW x \in Req, NEW p \in Payment, BeginPay(x, p)
      PROVE  req'[r] = req[r] \/ x = r
  BY <1>0, <1>9 DEF BeginPay, TypeOK
<1> QED
  BY <1>2, <1>3, <1>4, <1>5, <1>7, <1>8, <1>9
  DEF Next, vars, tables, Pass, Start, OpenTicket, Lapse, Order

LEMMA PaysFitStep == Shape /\ [Next]_vars => PaysFit'
<1> SUFFICES ASSUME Shape, [Next]_vars, NEW r \in Req, req'[r].pc = "pay"
             PROVE  req'[r].payment \in placed' /\ (req'[r].loaded => sub'[req'[r].panel] # None)
  BY DEF PaysFit
<1>0. TypeOK /\ TypeOK'
  BY NextTypeOK DEF Shape
<1>1. req'[r].panel \in Id
  BY <1>0, RequestKinds DEF PayRequest, TypeOK
<1>2. CASE req'[r] = req[r]
  BY <1>1, <1>2, Subs, Invoices DEF Shape, PaysFit
<1>3. ASSUME NEW p \in Payment, BeginPay(r, p)
      PROVE  req'[r].payment \in placed' /\ (req'[r].loaded => sub'[req'[r].panel] # None)
  <2> DEFINE i == payment[p].user
             panel == IF row[i].panel = None THEN i ELSE row[i].panel
             base == ActiveOf(i, panel)
  <2>1. i \in Id /\ Exists(i) /\ p \in placed
    BY <1>0, <1>3 DEF BeginPay, Shape, InvoicesPlaced, PaymentsKept, TypeOK, Invoice
  <2>2. panel \in Id
    BY <1>0, <2>1, Helpers DEF User, MaybeId
  <2>3. base \in {j \in Id : sub[j] # None} \cup {None}
    BY <1>0, <2>1, <2>2, Helpers DEF MaybeId
  <2>4. /\ req'[r].payment = p /\ req'[r].panel = panel /\ req'[r].loaded = (base = panel)
        /\ UNCHANGED <<sub, placed>>
    BY <1>0, <1>3 DEF BeginPay, tables, TypeOK
  <2> HIDE DEF base, panel
  <2> QED BY <2>1, <2>2, <2>3, <2>4, Ids
<1> QED BY <1>2, <1>3, ToPay

\* Only a merge deletes a user.
LEMMA RowsStay ==
    ASSUME Shape, [Next]_vars, \A r \in Req : ~CommitMerge(r)
    PROVE  \A i \in Id : Exists(i) => row'[i] # None
<1>0. TypeOK /\ None \notin User
  BY RowAssumption DEF Shape
<1>1. CASE UNCHANGED row
  BY <1>1 DEF Exists
<1>2. CASE Start
  BY <1>0, <1>2 DEF Start, TypeOK, Exists
<1>3. ASSUME NEW r \in Req, CommitPay(r) PROVE \A i \in Id : Exists(i) => row'[i] # None
  BY <1>3, Paying DEF Exists
<1>4. ASSUME NEW r \in Req, CommitLogin(r) PROVE \A i \in Id : Exists(i) => row'[i] # None
  <2>1. UNCHANGED row \/ \E i \in EmailId : ~Exists(i) /\ row' = [row EXCEPT ![i] = [email |-> req[r].code.email, panel |-> None]]
    BY <1>4 DEF CommitLogin
  <2> QED BY <1>0, <2>1 DEF TypeOK, Exists
<1>5. ASSUME NEW r \in Req, CommitLink(r) PROVE \A i \in Id : Exists(i) => row'[i] # None
  <2> DEFINE k == req[r].id
             m == req[r].code.email
  <2>1. req[r] \in RouteRequest /\ Exists(k) /\ k \in Id /\ m \in Email
    BY <1>0, <1>5, RequestKinds DEF CommitLink, RouteRequest, Code, TypeOK, Shape, CodesFit, MaybeId
  <2>2. row' = [row EXCEPT ![k] = [row[k] EXCEPT !.email = m]]
    BY <1>5 DEF CommitLink
  <2>3. [row[k] EXCEPT !.email = m] \in User
    BY <1>0, <2>1, Helpers DEF User, MaybeEmail
  <2> HIDE DEF k, m
  <2> QED BY <1>0, <2>2, <2>3 DEF TypeOK, Exists
<1> QED
  BY <1>1, <1>2, <1>3, <1>4, <1>5, ZenonT(60)
  DEF Next, vars, tables, Pass, OpenTicket, Lapse, Order, BeginPay, Ask, Enter, LinkTelegram, CommitAsk, Verify,
      CommitPassword, FlushMerge, MoveRows, RefuseMerge, Fail

\* An email is written for one account, of those that nobody else has.
LEMMA UsersFitStep == Shape /\ [Next]_vars => UsersFit'
<1> SUFFICES ASSUME Shape, [Next]_vars PROVE UsersFit'
  OBVIOUS
<1>0. TypeOK /\ UsersFit /\ None \notin User
  BY RowAssumption DEF Shape
<1>1. ASSUME NEW k \in Id, NEW m, row'[k].email = m, m = None => k = Tg,
             \A i \in Id \ {k} : row'[i] = row[i] \/ row'[i] = None,
             m # None => \A i \in Id \ {k} : row'[i] # None => row'[i].email # m
      PROVE  UsersFit'
  BY <1>0, <1>1, Ids DEF UsersFit, Exists
<1>2. CASE UNCHANGED row
  BY <1>0, <1>2 DEF UsersFit, Exists
<1>3. CASE Start
  <2>1. row'[Tg] = [email |-> None, panel |-> None] /\ \A i \in Id \ {Tg} : row'[i] = row[i]
    BY <1>0, <1>3, Ids DEF Start, TypeOK
  <2>2. row'[Tg].email = None
    BY <2>1
  <2> QED BY <1>1, <2>1, <2>2, Ids
<1>4. ASSUME NEW r \in Req, CommitPay(r) PROVE UsersFit'
  <2>1. \A i \in Id : (row'[i] # None <=> Exists(i)) /\ (Exists(i) => row'[i].email = row[i].email)
    BY <1>4, Paying DEF Exists
  <2> QED BY <1>0, <2>1, Ids DEF UsersFit, Exists
<1>5. ASSUME NEW r \in Req, CommitLogin(r) PROVE UsersFit'
  <2> DEFINE m == req[r].code.email
  <2>1. m \in Email /\ m # None
    BY <1>0, <1>5, RequestKinds, Ids DEF CommitLogin, RouteRequest, Code, TypeOK
  <2>2. CASE UNCHANGED row
    BY <1>2, <2>2
  <2>3. CASE UserOf(m) = None /\ \E k \in EmailId : ~Exists(k) /\ row' = [row EXCEPT ![k] = [email |-> m, panel |-> None]]
    <3>1. PICK k \in EmailId : ~Exists(k) /\ row' = [row EXCEPT ![k] = [email |-> m, panel |-> None]]
      BY <2>3
    <3>2. k \in Id /\ row'[k] = [email |-> m, panel |-> None] /\ \A i \in Id \ {k} : row'[i] = row[i]
      BY <1>0, <3>1, Ids DEF TypeOK
    <3>3. row'[k].email = m
      BY <3>2
    <3>4. \A i \in Id \ {k} : row'[i] # None => row'[i].email # m
      BY <1>0, <2>1, <2>3, <3>2, Helpers DEF Exists
    <3> HIDE DEF m
    <3> QED BY <1>1, <2>1, <3>2, <3>3, <3>4
  <2> QED BY <1>5, <2>2, <2>3 DEF CommitLogin
<1>6. ASSUME NEW r \in Req, CommitLink(r) PROVE UsersFit'
  <2> DEFINE k == req[r].id
             m == req[r].code.email
  <2>1. req[r] \in RouteRequest /\ Exists(k) /\ k \in Id /\ m \in Email /\ m # None /\ UserOf(m) \in {None, k}
    BY <1>0, <1>6, RequestKinds, Ids DEF CommitLink, RouteRequest, Code, TypeOK, Shape, CodesFit, MaybeId
  <2>2. row' = [row EXCEPT ![k] = [row[k] EXCEPT !.email = m]]
    BY <1>6 DEF CommitLink
  <2>3. [row[k] EXCEPT !.email = m].email = m
    BY <1>0, <2>1, Helpers DEF User
  <2>4. row'[k].email = m /\ \A i \in Id \ {k} : row'[i] = row[i]
    BY <1>0, <2>1, <2>2, <2>3 DEF TypeOK
  <2>5. \A i \in Id \ {k} : Exists(i) => row[i].email # m
    BY <1>0, <2>1, Helpers DEF UsersFit
  <2> HIDE DEF k, m
  <2> QED BY <1>1, <2>1, <2>4, <2>5 DEF Exists
<1>7. ASSUME NEW r \in Req, CommitMerge(r) PROVE UsersFit'
  <2> DEFINE q == req[r]
             m == row'[Tg].email
  <2>1. /\ q \in MergeRequest /\ q.src \in Id /\ q.src # Tg /\ q.tgt = Tg
        /\ \A i \in Id : i \notin {q.src, Tg} => row'[i] = row[i]
        /\ row'[q.src] = None /\ row'[Tg] = MergedUser(q)
    BY <1>7, Committing
  <2>2. m = IF q.email # None THEN q.email ELSE EmailOf(Tg)
    BY <2>1 DEF MergedUser
  <2>3. q.email \in MaybeEmail /\ (q.email # None => UserOf(q.email) \in {None, q.src, Tg})
    BY <1>7, <2>1 DEF CommitMerge, MergeRequest
  <2>4. \A i \in Id : i \notin {q.src, Tg} /\ Exists(i) /\ m # None => row[i].email # m
    <3>1. CASE q.email # None
      <4>1. m = q.email /\ m \in Email
        BY <2>2, <2>3, <3>1 DEF MaybeEmail
      <4> HIDE DEF m
      <4> QED BY <1>0, <2>1, <2>3, <4>1, Helpers, Ids DEF UsersFit
    <3>2. CASE q.email = None
      <4>1. m = EmailOf(Tg)
        BY <2>2, <3>2
      <4> HIDE DEF m
      <4> QED BY <1>0, <4>1, Ids DEF UsersFit, EmailOf
    <3> QED BY <3>1, <3>2
  <2> HIDE DEF q, m
  <2>5. \A i \in Id \ {Tg} : row'[i] = row[i] \/ row'[i] = None
    BY <2>1
  <2>6. m # None => \A i \in Id \ {Tg} : row'[i] # None => row'[i].email # m
    BY <2>1, <2>4 DEF Exists
  <2> QED BY <1>1, <2>5, <2>6, Ids DEF m
<1> QED
  BY <1>2, <1>3, <1>4, <1>5, <1>6, <1>7, ZenonT(60)
  DEF Next, vars, tables, Pass, OpenTicket, Lapse, Order, BeginPay, Ask, Enter, LinkTelegram, CommitAsk, Verify,
      CommitPassword, FlushMerge, MoveRows, RefuseMerge, Fail

\* What a merge has read of the subscriptions stays until it writes.
LEMMA MergesFitStep == Shape /\ [Next]_vars => MergesFit'
<1> SUFFICES ASSUME Shape, [Next]_vars, NEW r \in Req, Merging(r)'
             PROVE  /\ req'[r].src \in EmailId /\ req'[r].tgt = Tg
                    /\ req'[r].active # None => sub'[req'[r].active] # None
                    /\ req'[r].anchor # None => sub'[req'[r].anchor] # None
  BY DEF MergesFit
<1>0. TypeOK /\ MergesFit
  BY DEF Shape
<1>1. ASSUME Merging(r), req'[r].src = req[r].src, req'[r].tgt = req[r].tgt, req'[r].active = req[r].active,
             req'[r].anchor = req[r].anchor
      PROVE  /\ req'[r].src \in EmailId /\ req'[r].tgt = Tg
             /\ req'[r].active # None => sub'[req'[r].active] # None
             /\ req'[r].anchor # None => sub'[req'[r].anchor] # None
  <2>1. req[r].active \in MaybeId /\ req[r].anchor \in MaybeId
    BY <1>0, <1>1, RequestKinds DEF Merging, TypeOK, MergeRequest
  <2> QED BY <1>0, <1>1, <2>1, Subs DEF MergesFit, MaybeId
<1>2. CASE req'[r] = req[r]
  BY <1>1, <1>2 DEF Merging
<1>3. ASSUME req[r].pc = "read", req'[r] = [req[r] EXCEPT !.pc = "flushed"]
      PROVE  Merging(r) /\ req'[r].src = req[r].src /\ req'[r].tgt = req[r].tgt
             /\ req'[r].active = req[r].active /\ req'[r].anchor = req[r].anchor
  <2>1. req[r] \in MergeRequest
    BY <1>0, <1>3, RequestKinds DEF TypeOK
  <2> QED BY <1>3, <2>1 DEF Merging, MergeRequest
<1>4. ASSUME req[r].pc = "flushed", MoveRows(r)
      PROVE  Merging(r) /\ req'[r].src = req[r].src /\ req'[r].tgt = req[r].tgt
             /\ req'[r].active = req[r].active /\ req'[r].anchor = req[r].anchor
  BY <1>0, <1>4, Moved DEF Merging
<1>5. ASSUME NEW n \in Nat, NEW src \in Id, NEW tgt \in Id, BeginMerge(r, n, src, tgt), req'[r].pc = "read",
             UNCHANGED <<row, sub>>, Exists(src), row[src].email # None,
             (Exists(tgt) /\ src # tgt) \/ (src \in EmailId /\ tgt = Tg)
      PROVE  /\ req'[r].src \in EmailId /\ req'[r].tgt = Tg
             /\ req'[r].active # None => sub'[req'[r].active] # None
             /\ req'[r].anchor # None => sub'[req'[r].anchor] # None
  <2>1. src \in EmailId /\ tgt = Tg
    BY <1>5, BegunFits
  <2>2. /\ req'[r].src = src /\ req'[r].tgt = tgt
        /\ req'[r].active # None => sub[req'[r].active] # None
        /\ req'[r].anchor # None => sub[req'[r].anchor] # None
    BY <1>0, <1>5, BegunRead
  <2> QED BY <1>5, <2>1, <2>2
<1> QED BY <1>1, <1>2, <1>3, <1>4, <1>5, ToMerge

\* The row of a source is locked by the first that writes it.
LEMMA OneWriterStep == Shape /\ [Next]_vars => OneWriter'
<1> SUFFICES ASSUME Shape, [Next]_vars, NEW r \in Req, NEW x \in Req, Writing(r)', Writing(x)',
                    req'[r].src = req'[x].src, r # x
             PROVE  FALSE
  BY DEF OneWriter
<1>0. TypeOK /\ OneWriter
  BY DEF Shape
<1>1. ASSUME NEW y \in Req, Writing(y)'
      PROVE  req'[y].src = req[y].src /\ (Writing(y) \/ FlushMerge(y))
  <2>1. Merging(y)'
    BY <1>1 DEF Writing, Merging
  <2>2. CASE req'[y] = req[y]
    BY <1>1, <2>2 DEF Writing
  <2>3. CASE req[y].pc = "read" /\ req'[y] = [req[y] EXCEPT !.pc = "flushed"] /\ FlushMerge(y)
    <3>1. req[y] \in MergeRequest
      BY <1>0, <2>3, RequestKinds DEF TypeOK
    <3> QED BY <2>3, <3>1 DEF MergeRequest
  <2>4. CASE req[y].pc = "flushed" /\ MoveRows(y)
    BY <1>0, <2>4, Moved DEF Writing
  <2>5. CASE req'[y].pc = "read"
    BY <1>1, <2>5 DEF Writing
  <2> QED BY <2>1, <2>2, <2>3, <2>4, <2>5, ToMerge
<1>2. ASSUME NEW y \in Req, NEW z \in Req, y # z, FlushMerge(y), Writing(z)', req'[y].src = req'[z].src,
             req'[y].src = req[y].src
      PROVE  FALSE
  <2>1. req'[z] = req[z]
    BY <1>0, <1>2, Moving
  <2>2. Writing(z) /\ req[z].src = req[y].src
    BY <1>2, <2>1 DEF Writing
  <2> QED BY <1>2, <2>2 DEF FlushMerge, SourceLocked
<1>3. CASE Writing(r) /\ Writing(x)
  BY <1>0, <1>1, <1>3 DEF OneWriter
<1> QED BY <1>1, <1>2, <1>3

\* Nothing new refers to a source after the bulk updates.
LEMMA MovedAllStep == Shape /\ [Next]_vars => MovedAll'
<1> SUFFICES ASSUME Shape, [Next]_vars, NEW r \in Req, req'[r].pc = "moved"
             PROVE  /\ \A p \in Payment : payment'[p] # None /\ payment'[p].user = req'[r].src => p \in req'[r].payments
                    /\ req'[r].payments \subseteq placed'
                    /\ \A i \in Id : sub'[i] # None /\ sub'[i].owner = req'[r].src => i \in req'[r].subs
  BY DEF MovedAll
<1>0. TypeOK
  BY DEF Shape
<1>1. CASE req'[r] = req[r]
  <2>1. Merging(r) /\ Writing(r) /\ SourceLocked(req[r].src) /\ req[r].src \in EmailId
    BY <1>1 DEF Merging, Writing, SourceLocked, Shape, MergesFit
  <2>2. /\ \A p \in Payment : payment[p] # None /\ payment[p].user = req[r].src => p \in req[r].payments
        /\ req[r].payments \subseteq placed
        /\ \A i \in Id : sub[i] # None /\ sub[i].owner = req[r].src => i \in req[r].subs
    BY <1>1 DEF Shape, MovedAll
  <2> QED BY <1>1, <2>1, <2>2, Subs, Invoices
<1>2. CASE req[r].pc = "read" /\ req'[r] = [req[r] EXCEPT !.pc = "flushed"]
  <2>1. req[r] \in MergeRequest
    BY <1>0, <1>2, RequestKinds DEF TypeOK
  <2>2. req'[r].pc = "flushed"
    BY <1>2, <2>1 DEF MergeRequest
  <2> QED BY <2>2
<1>3. CASE req[r].pc = "flushed" /\ MoveRows(r)
  <2>1. /\ req'[r].src = req[r].src
        /\ req'[r].subs = SubsOf(req[r].src)
        /\ req'[r].payments = {p \in Payment : payment[p] # None /\ payment[p].user = req[r].src}
    BY <1>0, <1>3, Moved
  <2>2. UNCHANGED <<payment, sub, placed>>
    BY <1>3 DEF MoveRows, tables, history
  <2> QED BY <2>1, <2>2 DEF SubsOf, Shape, InvoicesPlaced
<1>4. Merging(r)'
  BY DEF Merging
<1> QED BY <1>1, <1>2, <1>3, <1>4, ToMerge

LEMMA InvoicesPlacedStep == Shape /\ [Next]_vars => InvoicesPlaced'
<1> SUFFICES ASSUME Shape, [Next]_vars, NEW p \in Payment, payment'[p] # None
             PROVE  p \in placed'
  BY DEF InvoicesPlaced
<1>1. CASE payment[p] = None
  BY <1>1, Invoices
<1>2. CASE payment[p] # None
  BY <1>2, Invoices DEF Shape, InvoicesPlaced
<1> QED BY <1>1, <1>2

\* The cascade finds no invoice, as all were moved to an account that is there.
LEMMA PaymentsKeptStep == Shape /\ [Next]_vars => PaymentsKept'
<1> SUFFICES ASSUME Shape, [Next]_vars, NEW p \in placed'
             PROVE  payment'[p] # None /\ row'[payment'[p].user] # None
  BY DEF PaymentsKept, Exists
<1>0. TypeOK /\ PaymentsKept
  BY DEF Shape
<1>1. \A x \in placed : /\ x \in Payment /\ payment[x] # None /\ payment[x].user \in Id /\ Exists(payment[x].user)
  BY <1>0 DEF PaymentsKept, TypeOK, Invoice
<1>2. ASSUME NEW r \in Req, CommitMerge(r) PROVE payment'[p] # None /\ row'[payment'[p].user] # None
  <2> DEFINE q == req[r]
  <2>1. /\ q.pc = "moved" /\ row'[Tg] # None
        /\ \A i \in Id : i \notin {q.src, Tg} => row'[i] = row[i]
        /\ \A x \in q.payments : payment'[x].user = Tg /\ payment'[x] # None
        /\ \A x \in Payment \ q.payments : payment'[x] = payment[x]
    BY <1>2, Committing
  <2>2. \A x \in Payment : payment[x] # None /\ payment[x].user = q.src => x \in q.payments
    BY <2>1 DEF Shape, MovedAll
  <2>3. p \in placed
    BY <1>2 DEF CommitMerge
  <2> HIDE DEF q
  <2>4. CASE p \in q.payments
    BY <2>1, <2>4
  <2>5. CASE p \notin q.payments
    BY <1>1, <2>1, <2>2, <2>3, <2>5 DEF Exists
  <2> QED BY <2>4, <2>5
<1>3. ASSUME NEW i \in Id, NEW x \in Payment, Order(x, i) PROVE payment'[p] # None /\ row'[payment'[p].user] # None
  <2>1. Exists(i) /\ UNCHANGED row /\ placed' = placed \cup {x}
    BY <1>3 DEF Order
  <2>2. \A y \in Payment : payment'[y] = IF y = x THEN [user |-> i, paid |-> FALSE] ELSE payment[y]
    BY <1>0, <1>3 DEF Order, TypeOK
  <2>3. [user |-> i, paid |-> FALSE] \in Invoice /\ [user |-> i, paid |-> FALSE].user = i
    BY DEF Invoice
  <2>4. None \notin Invoice
    BY RowAssumption
  <2> QED BY <1>1, <2>1, <2>2, <2>3, <2>4 DEF Exists
<1>4. ASSUME \A r \in Req : ~CommitMerge(r), UNCHANGED placed,
             UNCHANGED payment \/ \E r \in Req : CommitPay(r)
      PROVE  payment'[p] # None /\ row'[payment'[p].user] # None
  <2>1. payment'[p] # None /\ payment'[p].user = payment[p].user
    BY <1>1, <1>4, Paying
  <2> QED BY <1>1, <1>4, <2>1, RowsStay
<1>5. ASSUME \A r \in Req : ~CommitMerge(r) /\ ~CommitPay(r), \A i \in Id, x \in Payment : ~Order(x, i)
      PROVE  UNCHANGED <<placed, payment>>
  BY <1>5, ZenonT(60) DEF Next, vars, tables, history, Pass, Start, OpenTicket, Lapse, BeginPay, Ask, Enter, LinkTelegram,
              CommitAsk, Verify, CommitLogin, CommitLink, CommitPassword, FlushMerge, MoveRows, RefuseMerge, Fail
<1>6. \A r \in Req : CommitPay(r) => UNCHANGED placed
  BY DEF CommitPay
<1> QED BY <1>2, <1>3, <1>4, <1>5, <1>6

LEMMA InitShape == Init => Shape
<1> SUFFICES ASSUME Init PROVE Shape
  OBVIOUS
<1>1. TypeOK
  BY Requests DEF Init, TypeOK, MaybeId
<1>2. \A r \in Req : req[r].pc = "idle"
  BY Requests DEF Init
<1>3. CodesFit /\ PaysFit /\ MergesFit /\ OneWriter /\ MovedAll
  BY <1>2 DEF Init, CodesFit, PaysFit, MergesFit, OneWriter, MovedAll, Merging, Writing
<1>4. UsersFit /\ InvoicesPlaced /\ PaymentsKept
  BY Ids DEF Init, UsersFit, InvoicesPlaced, PaymentsKept, Exists
<1> QED BY <1>1, <1>3, <1>4 DEF Shape

LEMMA NextShape == Shape /\ [Next]_vars => Shape'
BY NextTypeOK, CodesFitStep, PaysFitStep, UsersFitStep, MergesFitStep, OneWriterStep, MovedAllStep,
   InvoicesPlacedStep, PaymentsKeptStep
DEF Shape

LEMMA ShapeKept == Spec => []Shape
<1>1. Init => Shape
  BY InitShape
<1>2. Shape /\ [Next]_vars => Shape'
  BY NextShape
<1> QED BY <1>1, <1>2, PTL DEF Spec

\* The variables keep their types, whatever the requests do to each other.
THEOREM Typing == Spec => []TypeOK
<1>1. Shape => TypeOK
  BY DEF Shape
<1> QED BY <1>1, ShapeKept, PTL

\* No merge loses an invoice: what was created for an account that is merged away
\* belongs to the other one when the row is deleted with its cascade.
THEOREM InvoicesKept == Spec => []PaymentsKept
<1>1. Shape => PaymentsKept
  BY DEF Shape
<1> QED BY <1>1, ShapeKept, PTL

(***************************************************************************)
(* Emails.  Where two requests are about to change one account, both of    *)
(* their accounts are in overlap; elsewhere a merge moves what it has read.*)
(***************************************************************************)

OverlapKnown ==
    \A r, x \in Req : r # x /\ Touched(r) \cap Touched(x) # {} => Touched(r) \cup Touched(x) \subseteq overlap

MergesHold ==
    \A r \in Req : Merging(r) =>
       /\ req[r].src \notin overlap => Exists(req[r].src) /\ row[req[r].src].email = req[r].email
       /\ Tg \notin overlap /\ Exists(Tg) => row[Tg].email = None

MailShape == Shape /\ OverlapKnown /\ MergesHold /\ EmailKept

LEMMA OverlapGrows ==
    ASSUME Shape, [Next]_vars
    PROVE  overlap \subseteq overlap'
<1>0. TypeOK
  BY DEF Shape
<1>1. \A ids : overlap \subseteq Overlapping(ids)
  BY DEF Overlapping
<1>2. ASSUME NEW r \in Req, NEW n, NEW src, NEW tgt, BeginMerge(r, n, src, tgt) PROVE overlap \subseteq overlap'
  BY <1>1, <1>2 DEF BeginMerge
<1>3. ASSUME NEW r \in Req, Verify(r) PROVE overlap \subseteq overlap'
  BY <1>1, <1>2, <1>3 DEF Verify
<1>4. ASSUME NEW r \in Req, NEW i \in Id, LinkTelegram(r, i) PROVE overlap \subseteq overlap'
  BY <1>2, <1>4 DEF LinkTelegram
<1>5. ASSUME NEW r \in Req, CommitMerge(r) PROVE overlap \subseteq overlap'
  BY <1>5 DEF CommitMerge
<1>6. ASSUME NEW i \in Id, Lapse(i) PROVE overlap \subseteq overlap'
  BY <1>6 DEF Lapse
<1>7. ASSUME NEW r \in Req, NEW p \in Payment, BeginPay(r, p) PROVE overlap \subseteq overlap'
  BY <1>1, <1>7 DEF BeginPay
<1> QED
  BY <1>3, <1>4, <1>5, <1>6, <1>7, ZenonT(60)
  DEF Next, vars, history, Pass, Start, OpenTicket, Order, Ask, Enter, CommitAsk, CommitPay, CommitLogin, CommitLink,
      CommitPassword, FlushMerge, MoveRows, RefuseMerge, Fail

\* A request that comes to touch accounts says which of them others touch.
LEMMA Touching ==
    ASSUME Shape, [Next]_vars, NEW r \in Req
    PROVE  \/ Touched(r)' \subseteq Touched(r)
           \/ overlap' = Overlapping(Touched(r)') /\ \A x \in Req \ {r} : req'[x] = req[x]
<1>0. TypeOK /\ CodesFit
  BY DEF Shape
<1>1. CASE req'[r] = req[r]
  BY <1>1 DEF Touched, Merging
<1>2. CASE Merging(r)'
  <2>1. CASE req[r].pc = "read" /\ req'[r] = [req[r] EXCEPT !.pc = "flushed"]
    <3>1. req[r] \in MergeRequest
      BY <1>0, <2>1, RequestKinds DEF TypeOK
    <3>2. req'[r].pc = "flushed" /\ req'[r].src = req[r].src /\ req'[r].tgt = req[r].tgt
      BY <2>1, <3>1 DEF MergeRequest
    <3> QED BY <2>1, <3>2 DEF Touched, Merging
  <2>2. CASE req[r].pc = "flushed" /\ MoveRows(r)
    <3>1. req'[r].pc = "moved" /\ req'[r].src = req[r].src /\ req'[r].tgt = req[r].tgt
      BY <1>0, <2>2, Moved
    <3> QED BY <2>2, <3>1 DEF Touched, Merging
  <2>3. ASSUME NEW n \in Nat, NEW src \in Id, NEW tgt \in Id, BeginMerge(r, n, src, tgt), req'[r].pc = "read"
        PROVE  overlap' = Overlapping(Touched(r)') /\ \A x \in Req \ {r} : req'[x] = req[x]
    <3>1. req'[r].src = src /\ req'[r].tgt = tgt /\ overlap' = Overlapping({src, tgt})
      BY <1>0, <2>3, BegunRead
    <3>2. Touched(r)' = {src, tgt}
      BY <2>3, <3>1 DEF Touched, Merging
    <3>3. \A x \in Req \ {r} : req'[x] = req[x]
      BY <1>0, <2>3 DEF BeginMerge, TypeOK
    <3> QED BY <3>1, <3>2, <3>3
  <2> QED BY <1>1, <1>2, <2>1, <2>2, <2>3, ToMerge
<1>3. CASE ~Merging(r)' /\ req'[r].pc \notin {"link", "pay"}
  BY <1>3 DEF Touched
<1>4. ASSUME NEW p \in Payment, BeginPay(r, p)
      PROVE  overlap' = Overlapping(Touched(r)') /\ \A x \in Req \ {r} : req'[x] = req[x]
  <2>1. /\ req'[r].pc = "pay" /\ req'[r].id = payment[p].user /\ overlap' = Overlapping({payment[p].user})
        /\ \A x \in Req \ {r} : req'[x] = req[x]
    BY <1>0, <1>4 DEF BeginPay, TypeOK
  <2>2. Touched(r)' = {payment[p].user}
    BY <2>1 DEF Touched, Merging
  <2> QED BY <2>1, <2>2
<1>5. ASSUME Verify(r), req'[r].pc = "link"
      PROVE  overlap' = Overlapping(Touched(r)') /\ \A x \in Req \ {r} : req'[x] = req[x]
  <2> DEFINE c == req[r].code
             found == UserOf(c.email)
  <2>1. ASSUME NEW n, NEW src, NEW tgt, BeginMerge(r, n, src, tgt) PROVE FALSE
    BY <1>0, <1>5, <2>1 DEF BeginMerge, TypeOK, Idle
  <2>2. /\ req' = [req EXCEPT ![r] = [pc |-> "link", code |-> c, id |-> c.to]]
        /\ overlap' = Overlapping({c.to})
    <3>1. CASE req' = [req EXCEPT ![r] = [pc |-> "login", code |-> c, id |-> found]]
      BY <1>0, <1>5, <3>1 DEF TypeOK
    <3>2. CASE req' = [req EXCEPT ![r] = [pc |-> "password", code |-> c, id |-> c.to]]
      BY <1>0, <1>5, <3>2 DEF TypeOK
    <3> QED BY <1>5, <2>1, <3>1, <3>2 DEF Verify
  <2>3. req'[r].id = c.to /\ \A x \in Req \ {r} : req'[x] = req[x]
    BY <1>0, <2>2 DEF TypeOK
  <2>4. Touched(r)' = {c.to}
    BY <1>5, <2>3 DEF Touched, Merging
  <2> QED BY <2>2, <2>3, <2>4
<1>6. req'[r].pc \in {"link", "pay"} => req'[r] = req[r] \/ (\E p \in Payment : BeginPay(r, p))
                                        \/ (Verify(r) /\ req'[r].pc = "link")
  <2> SUFFICES ASSUME req'[r].pc \in {"link", "pay"}, req'[r] # req[r], \A p \in Payment : ~BeginPay(r, p)
               PROVE  Verify(r) /\ req'[r].pc = "link"
    OBVIOUS
  <2>1. req'[r].pc = "link"
    BY ToPay
  <2>2. ASSUME NEW x \in Req, req'[x].pc # "link", \A y \in Req \ {x} : req'[y] = req[y] PROVE FALSE
    BY <2>1, <2>2
  <2>3. ASSUME NEW x \in Req, CommitPay(x) \/ CommitAsk(x) \/ CommitLogin(x) \/ CommitLink(x) \/ CommitPassword(x)
                              \/ RefuseMerge(x) \/ CommitMerge(x) \/ Fail(x)
        PROVE  FALSE
    <3>1. req'[x] = Idle /\ \A y \in Req \ {x} : req'[y] = req[y]
      BY <1>0, <2>3 DEF CommitPay, CommitAsk, CommitLogin, CommitLink, CommitPassword, RefuseMerge, CommitMerge,
                        Fail, TypeOK
    <3> QED BY <2>2, <3>1, Requests
  <2>4. ASSUME NEW x \in Req, FlushMerge(x) \/ MoveRows(x) PROVE FALSE
    BY <1>0, <2>2, <2>4, Moving
  <2>5. ASSUME NEW x \in Req, NEW m \in Email, NEW to \in MaybeId,
               NEW purpose \in {"login", "link_email", "set_password"}, Ask(x, m, purpose, to)
        PROVE  FALSE
    <3>1. req'[x].pc = "ask" /\ \A y \in Req \ {x} : req'[y] = req[y]
      BY <1>0, <2>5 DEF Ask, TypeOK
    <3> QED BY <2>2, <3>1
  <2>6. ASSUME NEW x \in Req, NEW c \in codes, Enter(x, c) PROVE FALSE
    <3>1. req'[x].pc = "entered" /\ \A y \in Req \ {x} : req'[y] = req[y]
      BY <1>0, <2>6 DEF Enter, TypeOK
    <3> QED BY <2>2, <3>1
  <2>7. ASSUME NEW x \in Req, NEW p \in Payment, BeginPay(x, p) PROVE FALSE
    <3>1. req'[x].pc = "pay" /\ \A y \in Req \ {x} : req'[y] = req[y]
      BY <1>0, <2>7 DEF BeginPay, TypeOK
    <3> QED BY <2>2, <3>1
  <2>8. ASSUME NEW x \in Req, NEW i \in Id, LinkTelegram(x, i) PROVE FALSE
    <3>1. (req'[x] = Idle \/ req'[x].pc = "read") /\ \A y \in Req \ {x} : req'[y] = req[y]
      BY <1>0, <2>8 DEF LinkTelegram, BeginMerge, TypeOK
    <3> QED BY <2>2, <3>1, Requests
  <2>9. ASSUME NEW x \in Req, Verify(x) PROVE x = r
    <3>1. \A y \in Req \ {x} : req'[y] = req[y]
      BY <1>0, <2>9 DEF Verify, BeginMerge, TypeOK
    <3> QED BY <3>1
  <2> QED
    BY <2>1, <2>3, <2>4, <2>5, <2>6, <2>7, <2>8, <2>9
    DEF Next, vars, tables, Pass, Start, OpenTicket, Lapse, Order
<1> QED BY <1>1, <1>2, <1>3, <1>4, <1>5, <1>6

LEMMA OverlapKnownStep == Shape /\ OverlapKnown /\ [Next]_vars => OverlapKnown'
<1> SUFFICES ASSUME Shape, OverlapKnown, [Next]_vars, NEW r \in Req, NEW x \in Req, r # x,
                    NEW i, i \in Touched(r)', i \in Touched(x)'
             PROVE  Touched(r)' \cup Touched(x)' \subseteq overlap'
  BY DEF OverlapKnown
<1>1. ASSUME NEW y \in Req, NEW z \in Req, y # z, i \in Touched(y)', i \in Touched(z)',
             overlap' = Overlapping(Touched(y)'), \A w \in Req \ {y} : req'[w] = req[w]
      PROVE  Touched(y)' \cup Touched(z)' \subseteq overlap'
  <2>1. Touched(z)' = Touched(z)
    BY <1>1 DEF Touched, Merging
  <2> DEFINE ids == Touched(y)'
  <2>2. i \in ids /\ i \in Touched(z) /\ overlap' = Overlapping(ids)
    BY <1>1, <2>1
  <2> HIDE DEF ids
  <2>3. ids \cup Touched(z) \subseteq Overlapping(ids)
    BY <2>2 DEF Overlapping
  <2> QED BY <2>1, <2>2, <2>3 DEF ids
<1>2. CASE Touched(r)' \subseteq Touched(r) /\ Touched(x)' \subseteq Touched(x)
  BY <1>2, OverlapGrows DEF OverlapKnown
<1> QED BY <1>1, <1>2, Touching

\* The email of an account changes in a link or a merge, and comes with a new account.
LEMMA EmailStays ==
    ASSUME Shape, [Next]_vars, NEW i \in Id,
           \A x \in Req : CommitLink(x) => req[x].id # i,
           \A x \in Req : CommitMerge(x) => i \notin {req[x].src, Tg}
    PROVE  /\ Exists(i) => row'[i] # None /\ row'[i].email = row[i].email
           /\ i = Tg /\ ~Exists(i) => row'[i] = None \/ row'[i].email = None
<1>0. TypeOK
  BY DEF Shape
<1>1. CASE row'[i] = row[i]
  BY <1>1 DEF Exists
<1>2. CASE Start
  <2>1. ~Exists(Tg) /\ row'[Tg] = [email |-> None, panel |-> None] /\ \A j \in Id \ {Tg} : row'[j] = row[j]
    BY <1>0, <1>2, Ids DEF Start, TypeOK
  <2>2. [email |-> None, panel |-> None].email = None
    OBVIOUS
  <2> QED BY <1>1, <2>1, <2>2
<1>3. ASSUME NEW x \in Req, CommitPay(x)
      PROVE  /\ Exists(i) => row'[i] # None /\ row'[i].email = row[i].email
             /\ i = Tg /\ ~Exists(i) => row'[i] = None \/ row'[i].email = None
  BY <1>3, Paying DEF Exists
<1>4. ASSUME NEW x \in Req, CommitLogin(x)
      PROVE  row'[i] = row[i] \/ (i \in EmailId /\ ~Exists(i))
  <2>1. UNCHANGED row \/ \E j \in EmailId : ~Exists(j) /\ row' = [row EXCEPT ![j] = [email |-> req[x].code.email, panel |-> None]]
    BY <1>4 DEF CommitLogin
  <2> QED BY <1>0, <2>1 DEF TypeOK
<1>5. ASSUME NEW x \in Req, CommitLink(x) PROVE row'[i] = row[i]
  BY <1>0, <1>5 DEF CommitLink, TypeOK
<1>6. ASSUME NEW x \in Req, CommitMerge(x) PROVE row'[i] = row[i]
  BY <1>6, Committing
<1> DEFINE Goal == /\ Exists(i) => row'[i] # None /\ row'[i].email = row[i].email
                   /\ i = Tg /\ ~Exists(i) => row'[i] = None \/ row'[i].email = None
<1>7. ASSUME NEW x \in Req, CommitLogin(x) PROVE Goal
  BY <1>1, <1>4, <1>7, Ids
<1>8. UNCHANGED row => Goal
  BY <1>1
<1>9. /\ Start => Goal
      /\ \A x \in Req : CommitPay(x) \/ CommitLink(x) \/ CommitMerge(x) \/ CommitLogin(x) => Goal
  BY <1>1, <1>2, <1>3, <1>5, <1>6, <1>7
<1> HIDE DEF Goal
<1>10. Goal
  BY <1>8, <1>9, ZenonT(60)
  DEF Next, vars, tables, Pass, OpenTicket, Lapse, Order, BeginPay, Ask, Enter, LinkTelegram, CommitAsk, Verify,
      CommitPassword, FlushMerge, MoveRows, RefuseMerge, Fail
<1> QED BY <1>10 DEF Goal

\* Two merges share the account of Telegram, and a link one of its accounts.
LEMMA MergesHoldStep == MailShape /\ [Next]_vars => MergesHold'
<1> SUFFICES ASSUME MailShape, [Next]_vars, NEW r \in Req, Merging(r)'
             PROVE  /\ req'[r].src \notin overlap' => row'[req'[r].src] # None /\ row'[req'[r].src].email = req'[r].email
                    /\ Tg \notin overlap' /\ row'[Tg] # None => row'[Tg].email = None
  BY DEF MergesHold, Exists
<1>0. Shape /\ TypeOK /\ MergesHold /\ OverlapKnown
  BY DEF MailShape, Shape
<1>1. ASSUME Merging(r), req'[r].src = req[r].src, req'[r].email = req[r].email
      PROVE  /\ req'[r].src \notin overlap' => row'[req'[r].src] # None /\ row'[req'[r].src].email = req'[r].email
             /\ Tg \notin overlap' /\ row'[Tg] # None => row'[Tg].email = None
  <2> DEFINE src == req[r].src
  <2>1. src \in Id /\ src # Tg /\ Touched(r) = {src, Tg}
    BY <1>0, <1>1, Ids DEF Shape, MergesFit, Touched
  <2>2. ASSUME NEW i \in {src, Tg}, i \notin overlap
        PROVE  /\ \A x \in Req : CommitLink(x) => req[x].id # i
               /\ \A x \in Req : CommitMerge(x) => i \notin {req[x].src, Tg}
    <3>1. ASSUME NEW x \in Req, CommitLink(x), req[x].id = i PROVE FALSE
      <4>1. x # r /\ Touched(x) = {i}
        BY <1>1, <3>1 DEF CommitLink, Touched, Merging
      <4> QED BY <1>0, <2>1, <2>2, <4>1 DEF OverlapKnown
    <3>2. ASSUME NEW x \in Req, CommitMerge(x) PROVE FALSE
      <4>1. Merging(x) /\ Touched(x) = {req[x].src, Tg}
        BY <1>0, <3>2, Committing DEF Touched
      <4>2. req'[x] = Idle
        BY <1>0, <3>2 DEF CommitMerge, TypeOK
      <4>3. x # r
        BY <4>2, Requests DEF Merging
      <4> QED BY <1>0, <2>1, <2>2, <4>1, <4>3 DEF OverlapKnown
    <3> QED BY <3>1, <3>2
  <2>3. overlap \subseteq overlap'
    BY <1>0, OverlapGrows
  <2>4. src \notin overlap' => row'[src] # None /\ row'[src].email = req[r].email
    <3> SUFFICES ASSUME src \notin overlap' PROVE row'[src] # None /\ row'[src].email = req[r].email
      OBVIOUS
    <3>1. src \notin overlap
      BY <2>3
    <3>2. Exists(src) /\ row[src].email = req[r].email
      BY <1>0, <1>1, <3>1 DEF MergesHold
    <3>3. row'[src] # None /\ row'[src].email = row[src].email
      BY <1>0, <2>1, <2>2, <3>1, <3>2, EmailStays
    <3> QED BY <3>2, <3>3
  <2>5. Tg \notin overlap' /\ row'[Tg] # None => row'[Tg].email = None
    <3> SUFFICES ASSUME Tg \notin overlap', row'[Tg] # None PROVE row'[Tg].email = None
      OBVIOUS
    <3>1. Tg \notin overlap
      BY <2>3
    <3>2. Exists(Tg) => row[Tg].email = None
      BY <1>0, <1>1, <3>1 DEF MergesHold
    <3>3. /\ Exists(Tg) => row'[Tg].email = row[Tg].email
          /\ ~Exists(Tg) => row'[Tg] = None \/ row'[Tg].email = None
      BY <1>0, <2>2, <3>1, EmailStays, Ids
    <3> QED BY <3>2, <3>3
  <2> HIDE DEF src
  <2> QED BY <1>1, <2>4, <2>5 DEF src
<1>2. ASSUME req[r].pc = "read", req'[r] = [req[r] EXCEPT !.pc = "flushed"]
      PROVE  Merging(r) /\ req'[r].src = req[r].src /\ req'[r].email = req[r].email
  <2>1. req[r] \in MergeRequest
    BY <1>0, <1>2, RequestKinds DEF TypeOK
  <2> QED BY <1>2, <2>1 DEF Merging, MergeRequest
<1>3. ASSUME req[r].pc = "flushed", MoveRows(r)
      PROVE  Merging(r) /\ req'[r].src = req[r].src /\ req'[r].email = req[r].email
  BY <1>0, <1>3, Moved DEF Merging
<1>4. ASSUME NEW n \in Nat, NEW src \in Id, NEW tgt \in Id, BeginMerge(r, n, src, tgt), req'[r].pc = "read",
             UNCHANGED <<row, sub>>, Exists(src), row[src].email # None,
             (Exists(tgt) /\ src # tgt) \/ (src \in EmailId /\ tgt = Tg)
      PROVE  /\ req'[r].src \notin overlap' => row'[req'[r].src] # None /\ row'[req'[r].src].email = req'[r].email
             /\ Tg \notin overlap' /\ row'[Tg] # None => row'[Tg].email = None
  <2>1. tgt = Tg /\ EmailOf(Tg) = None /\ req'[r].email = row[src].email
    BY <1>0, <1>4, BegunFits
  <2>2. req'[r].src = src
    BY <1>0, <1>4, BegunRead
  <2> QED BY <1>4, <2>1, <2>2 DEF EmailOf, Exists
<1>5. CASE req'[r] = req[r]
  BY <1>1, <1>5 DEF Merging
<1> QED BY <1>0, <1>1, <1>2, <1>3, <1>4, <1>5, ToMerge

LEMMA EmailKeptStep == MailShape /\ [Next]_vars => EmailKept'
<1> SUFFICES ASSUME MailShape, [Next]_vars, NEW m \in Email, claimed'[m] # None, claimed'[m] \notin overlap'
             PROVE  row'[claimed'[m]] # None /\ row'[claimed'[m]].email = m
  BY DEF EmailKept, Exists
<1>0. Shape /\ TypeOK /\ MergesHold /\ EmailKept /\ overlap \subseteq overlap' /\ m # None
  BY OverlapGrows, Ids DEF MailShape, Shape
<1>1. claimed[m] # None /\ claimed[m] \notin overlap =>
         claimed[m] \in Id /\ Exists(claimed[m]) /\ row[claimed[m]].email = m
  BY <1>0 DEF EmailKept, TypeOK, MaybeId
<1>2. ASSUME NEW r \in Req, CommitMerge(r) PROVE row'[claimed'[m]] # None /\ row'[claimed'[m]].email = m
  <2> DEFINE q == req[r]
  <2>1. /\ Merging(r) /\ q.src \in Id /\ q.src # Tg /\ q.tgt = Tg
        /\ \A i \in Id : i \notin {q.src, Tg} => row'[i] = row[i]
        /\ row'[Tg] = MergedUser(q) /\ row'[Tg] # None
    BY <1>0, <1>2, Committing
  <2>2. /\ q.src \notin overlap => Exists(q.src) /\ row[q.src].email = q.email
        /\ Tg \notin overlap /\ Exists(Tg) => row[Tg].email = None
    BY <1>0, <2>1 DEF MergesHold
  <2>3. /\ claimed'[m] = IF claimed[m] = q.src THEN Tg ELSE claimed[m]
        /\ q.src \in overlap => Tg \in overlap'
    BY <1>2, <2>1 DEF CommitMerge
  <2>4. q.email # None => row'[Tg].email = q.email
    BY <2>1 DEF MergedUser
  <2> HIDE DEF q
  <2>5. CASE claimed[m] = q.src
    <3>1. claimed'[m] = Tg /\ q.src \notin overlap /\ q.src # None
      BY <2>1, <2>3, <2>5, Ids
    <3>2. row[q.src].email = m
      BY <1>1, <2>5, <3>1
    <3>3. row'[Tg].email = m
      BY <1>0, <2>2, <2>4, <3>1, <3>2
    <3> QED BY <2>1, <3>1, <3>3
  <2>6. CASE claimed[m] # q.src /\ claimed[m] = Tg
    BY <1>0, <1>1, <2>2, <2>3, <2>6
  <2>7. CASE claimed[m] # q.src /\ claimed[m] # Tg
    BY <1>0, <1>1, <2>1, <2>3, <2>7 DEF Exists
  <2> QED BY <2>5, <2>6, <2>7
<1>3. ASSUME NEW r \in Req, CommitLink(r) PROVE row'[claimed'[m]] # None /\ row'[claimed'[m]].email = m
  <2> DEFINE k == req[r].id
             e == req[r].code.email
  <2>1. req[r] \in RouteRequest /\ Exists(k) /\ k \in Id /\ e \in Email
    BY <1>0, <1>3, RequestKinds DEF CommitLink, RouteRequest, Code, TypeOK, Shape, CodesFit, MaybeId
  <2>2. row' = [row EXCEPT ![k] = [row[k] EXCEPT !.email = e]]
    BY <1>3 DEF CommitLink
  <2>3. [row[k] EXCEPT !.email = e].email = e /\ [row[k] EXCEPT !.email = e] \in User /\ None \notin User
    BY <1>0, <2>1, Helpers, RowAssumption DEF User, MaybeEmail
  <2>4. claimed'[m] = IF m = e THEN k ELSE IF claimed[m] = k THEN None ELSE claimed[m]
    BY <1>3 DEF CommitLink
  <2> HIDE DEF k, e
  <2>5. row'[k] = [row[k] EXCEPT !.email = e] /\ \A i \in Id \ {k} : row'[i] = row[i]
    BY <1>0, <2>1, <2>2 DEF TypeOK
  <2>6. CASE m = e
    BY <2>3, <2>4, <2>5, <2>6
  <2>7. CASE m # e
    BY <1>0, <1>1, <2>4, <2>5, <2>7 DEF Exists
  <2> QED BY <2>6, <2>7
<1>4. ASSUME NEW r \in Req, CommitLogin(r), claimed' # claimed
      PROVE  row'[claimed'[m]] # None /\ row'[claimed'[m]].email = m
  <2> DEFINE e == req[r].code.email
  <2>1. PICK k \in EmailId : /\ ~Exists(k)
                             /\ row' = [row EXCEPT ![k] = [email |-> e, panel |-> None]]
                             /\ claimed' = [claimed EXCEPT ![e] = k]
    BY <1>4 DEF CommitLogin
  <2>2. k \in Id /\ row'[k] = [email |-> e, panel |-> None] /\ \A i \in Id \ {k} : row'[i] = row[i]
    BY <1>0, <2>1, Ids DEF TypeOK
  <2>3. e \in Email
    BY <1>0, <1>4, RequestKinds DEF CommitLogin, RouteRequest, Code, TypeOK
  <2>4. [email |-> e, panel |-> None] \in User /\ None \notin User /\ [email |-> e, panel |-> None].email = e
    BY <2>3, RowAssumption DEF User, MaybeId, MaybeEmail
  <2>5. claimed'[m] = IF m = e THEN k ELSE claimed[m]
    BY <1>0, <2>1 DEF TypeOK
  <2> HIDE DEF e
  <2>6. CASE m = e
    BY <2>2, <2>4, <2>5, <2>6
  <2>7. CASE m # e
    BY <1>0, <1>1, <2>1, <2>2, <2>5, <2>7 DEF Exists
  <2> QED BY <2>6, <2>7
<1>5. ASSUME claimed' = claimed, \A r \in Req : ~CommitMerge(r) /\ ~CommitLink(r)
      PROVE  row'[claimed'[m]] # None /\ row'[claimed'[m]].email = m
  <2>1. claimed[m] \in Id /\ Exists(claimed[m]) /\ row[claimed[m]].email = m
    BY <1>0, <1>1, <1>5
  <2> QED BY <1>0, <1>5, <2>1, EmailStays
<1>6. ASSUME \A r \in Req : ~CommitMerge(r) /\ ~CommitLink(r) /\ ~CommitLogin(r)
      PROVE  claimed' = claimed
  BY <1>6, ZenonT(60) DEF Next, vars, tables, history, Pass, Start, OpenTicket, Lapse, Order, BeginPay, Ask, Enter, LinkTelegram,
              CommitAsk, CommitPay, Verify, CommitPassword, FlushMerge, MoveRows, RefuseMerge, Fail
<1> QED BY <1>2, <1>3, <1>4, <1>5, <1>6

LEMMA InitMail == Init => MailShape
<1> SUFFICES ASSUME Init PROVE MailShape
  OBVIOUS
<1>1. \A r \in Req : req[r].pc = "idle"
  BY Requests DEF Init
<1>2. \A r \in Req : Touched(r) = {} /\ ~Merging(r)
  BY <1>1 DEF Touched, Merging
<1> QED BY <1>2, InitShape DEF MailShape, OverlapKnown, MergesHold, EmailKept, Init

LEMMA NextMail == MailShape /\ [Next]_vars => MailShape'
BY NextShape, OverlapKnownStep, MergesHoldStep, EmailKeptStep DEF MailShape

\* An email that was proved for an account stays with it through the requests of
\* others, and through a merge it goes to the account that remains, unless two
\* transactions changed the account at a time.
THEOREM EmailsFollow == Spec => []EmailKept
<1>1. Init => MailShape
  BY InitMail
<1>2. MailShape /\ [Next]_vars => MailShape'
  BY NextMail
<1>3. MailShape => EmailKept
  BY DEF MailShape
<1> QED BY <1>1, <1>2, <1>3, PTL DEF Spec

(***************************************************************************)
(* Days.  A panel user belongs to one account, and a subscription is kept  *)
(* by the panel user it was made for, so an account runs on the row of its *)
(* own panel user; what a merge has brought along runs no longer.  Outside *)
(* of overlap that row ends when the account's days do, and a payment or a *)
(* merge that has read it finds it as it was.                              *)
(***************************************************************************)

Own(i) == sub[i] # None /\ sub[i].owner = i

PanelsFit ==
    /\ \A i \in Id : Exists(i) => row[i].panel \in {None, i}
    /\ Exists(Tg) /\ row[Tg].panel # None => sub[Tg] # None
    /\ \A i \in Id : sub[i] # None =>
          \/ sub[i].owner = i /\ sub[i].panel = i
          \/ i # Tg /\ sub[i].owner = Tg /\ sub[i].panel \in {i, Tg}
    /\ \A i \in EmailId : sub[i] # None /\ sub[i].owner = Tg => Exists(Tg) /\ row[Tg].email # None

PayFits(r) ==
    /\ req[r].panel = req[r].id
    /\ req[r].loaded => sub[req[r].id].owner = req[r].id \/ Tg \in overlap

MergeFits(r) ==
    /\ req[r].email # None /\ req[r].active \in {None, req[r].src} /\ req[r].anchor \in {None, Tg}
    /\ req[r].from \in {None, req[r].src} /\ req[r].onto \in {None, Tg}
    /\ req[r].subs \subseteq {req[r].src}

RequestsFit == \A r \in Req : (req[r].pc = "pay" => PayFits(r)) /\ (Merging(r) => MergeFits(r))

Runs(i) ==
    /\ Own(i) => /\ Exists(i) /\ row[i].panel = i /\ sub[i].end = due[i]
                 /\ due[i] > now => sub[i].active
    /\ due[i] > now => Own(i)

DaysRun ==
    /\ \A i \in Id \ overlap : Runs(i)
    /\ Tg \notin overlap =>
          \A i \in EmailId : sub[i] # None /\ sub[i].owner = Tg /\ sub[i].active => sub[i].end <= now

PayHolds(r) ==
    /\ req[r].at <= now /\ req[r].end = Later(due[req[r].id], req[r].at) + Term
    /\ req[r].loaded => Own(req[r].id) /\ sub[req[r].id].active

MergeHolds(r) ==
    /\ req[r].at <= now
    /\ req[r].from = PanelOf(req[r].src) /\ req[r].onto = PanelOf(Tg)
    /\ req[r].onto # None => req[r].anchor = Tg
    /\ req[r].active = None => due[req[r].src] <= req[r].at
    /\ req[r].active # None => due[req[r].src] > req[r].at /\ Own(req[r].src)

RequestsHold ==
    \A r \in Req :
       /\ req[r].pc = "pay" /\ req[r].id \notin overlap => PayHolds(r)
       /\ Merging(r) /\ req[r].src \notin overlap /\ Tg \notin overlap => MergeHolds(r)

DaysShape == MailShape /\ PanelsFit /\ RequestsFit /\ DaysRun /\ RequestsHold

\* What is left of a row of subscriptions that is written.
LEMMA EndWritten ==
    ASSUME NEW s \in Subscription, NEW e \in Nat, NEW t, t = [s EXCEPT !.end = e]
    PROVE  t \in Subscription /\ t.owner = s.owner /\ t.panel = s.panel /\ t.end = e /\ t.active = s.active
BY DEF Subscription

LEMMA Closed ==
    ASSUME NEW s \in Subscription, NEW t, t = [s EXCEPT !.active = FALSE]
    PROVE  t \in Subscription /\ t.owner = s.owner /\ t.panel = s.panel /\ t.end = s.end /\ ~t.active
BY DEF Subscription

Extend(s, e) == [s EXCEPT !.end = e, !.active = TRUE]

LEMMA Extended ==
    ASSUME NEW s \in Subscription, NEW e \in Nat
    PROVE  /\ Extend(s, e) \in Subscription
           /\ Extend(s, e).owner = s.owner /\ Extend(s, e).panel = s.panel /\ Extend(s, e).end = e
           /\ Extend(s, e).active
BY DEF Subscription, Extend

Reown(s, o, p) == [s EXCEPT !.owner = o, !.panel = p]

LEMMA Reowned ==
    ASSUME NEW s \in Subscription, NEW o \in Id, NEW p \in Id
    PROVE  /\ Reown(s, o, p) \in Subscription
           /\ Reown(s, o, p).owner = o /\ Reown(s, o, p).panel = p /\ Reown(s, o, p).end = s.end
           /\ Reown(s, o, p).active = s.active
BY DEF Subscription, Reown

\* Of one row the last is that one, of none there is none.
LEMMA LastOfOne ==
    ASSUME TypeOK, NEW S, S \subseteq Id, NEW i \in Id, sub[i] # None, S \subseteq {i}
    PROVE  LastOf(S) = IF i \in S THEN i ELSE None
<1>1. CASE i \in S
  <2>1. S = {i} /\ sub[i].end \in Nat
    BY <1>1 DEF TypeOK, Subscription
  <2>2. sub[i].end <= sub[i].end
    BY <2>1
  <2>3. Last(i, S)
    BY <2>1, <2>2 DEF Last
  <2> QED BY <1>1, <2>1, <2>3 DEF LastOf
<1>2. CASE i \notin S
  BY <1>2 DEF LastOf
<1> QED BY <1>1, <1>2

\* The parts of a payment and of a merge.
LEMMA PayTypes ==
    ASSUME Shape, NEW r \in Req, req[r].pc = "pay"
    PROVE  /\ req[r] \in PayRequest /\ Touched(r) = {req[r].id}
           /\ req[r].id \in Id /\ req[r].panel \in Id /\ req[r].end \in Nat /\ req[r].loaded \in BOOLEAN
           /\ req[r].at \in Nat
BY RequestKinds DEF Shape, TypeOK, PayRequest, Touched, Merging

LEMMA MergeTypes ==
    ASSUME Shape, NEW r \in Req, Merging(r)
    PROVE  /\ req[r] \in MergeRequest /\ Touched(r) = {req[r].src, Tg}
           /\ req[r].src \in EmailId /\ req[r].src \in Id /\ req[r].src # Tg /\ req[r].src # None /\ req[r].tgt = Tg
           /\ req[r].at \in Nat
BY RequestKinds, Ids DEF Shape, TypeOK, MergeRequest, Touched, Merging, MergesFit

\* What a payment writes, by the panel user of its account.
LEMMA PayWrites ==
    ASSUME Shape, PanelsFit, RequestsFit, NEW r \in Req, CommitPay(r), NEW i, i = req[r].id
    PROVE  /\ i \in Id /\ req[r].pc = "pay" /\ sub'[i] # None /\ sub'[i].end = req[r].end
           /\ req[r].loaded => /\ sub[i] # None /\ sub'[i].owner = sub[i].owner /\ sub'[i].panel = sub[i].panel
                               /\ sub'[i].active = sub[i].active /\ row' = row
           /\ ~req[r].loaded => /\ sub'[i].owner = i /\ sub'[i].panel = i /\ sub'[i].active
                                /\ Exists(i) /\ row'[i] # None /\ row'[i].panel = i
                                /\ \A k \in Id \ {i} : row'[k] = row[k]
           /\ \A k \in Id \ {i} :
                 \/ sub'[k] = sub[k]
                 \/ /\ i = Tg /\ sub[k] # None /\ sub[k].owner = Tg
                    /\ sub'[k] # None /\ sub'[k].owner = Tg /\ sub'[k].panel = sub[k].panel /\ ~sub'[k].active
           /\ due'[i] = Later(due[i], req[r].at) + Term
           /\ \A k \in Id \ {i} : due'[k] = due[k]
           /\ UNCHANGED <<now, overlap>>
<1> DEFINE q == req[r]
           others == {k \in Id : sub[k] # None /\ sub[k].panel = q.panel /\ k # q.panel}
           paidFor == [owner |-> q.id, panel |-> q.panel, end |-> q.end, active |-> TRUE]
<1>0. TypeOK /\ None \notin Subscription /\ None \notin User
  BY RowAssumption DEF Shape
<1>1. q.pc = "pay" /\ q.panel = i /\ i \in Id /\ q.end \in Nat /\ q.loaded \in BOOLEAN
  BY PayTypes DEF CommitPay, RequestsFit, PayFits
<1>2. q.loaded => sub[i] # None
  BY <1>1 DEF Shape, PaysFit
<1>3. \A k \in Id : sub'[k] = IF k = q.panel THEN IF q.loaded THEN [sub[k] EXCEPT !.end = q.end] ELSE paidFor
                              ELSE IF k \in others THEN [sub[k] EXCEPT !.active = FALSE] ELSE sub[k]
  BY DEF CommitPay
<1>4. \A k \in others : k # i /\ sub[k] # None /\ i = Tg /\ sub[k].owner = Tg
  BY <1>1 DEF PanelsFit
<1>5. \A k \in Id : sub[k] # None => sub[k] \in Subscription
  BY <1>0 DEF TypeOK
<1>6. /\ paidFor.owner = i /\ paidFor.panel = i /\ paidFor.end = q.end /\ paidFor.active = TRUE
      /\ paidFor \in Subscription
  BY <1>1 DEF Subscription
<1>7. /\ sub'[i] # None /\ sub'[i].end = q.end
      /\ q.loaded => sub[i] # None /\ sub'[i].owner = sub[i].owner /\ sub'[i].panel = sub[i].panel
                     /\ sub'[i].active = sub[i].active
      /\ ~q.loaded => sub'[i].owner = i /\ sub'[i].panel = i /\ sub'[i].active
  <2>1. CASE q.loaded
    <3>1. sub'[i] = [sub[i] EXCEPT !.end = q.end] /\ sub[i] \in Subscription
      BY <1>1, <1>2, <1>3, <1>5, <2>1
    <3>2. /\ sub'[i] \in Subscription /\ sub'[i].owner = sub[i].owner /\ sub'[i].panel = sub[i].panel
          /\ sub'[i].end = q.end /\ sub'[i].active = sub[i].active
      BY <1>1, <3>1, EndWritten
    <3> QED BY <1>0, <1>2, <2>1, <3>2
  <2>2. CASE ~q.loaded
    <3>1. sub'[i] = paidFor
      BY <1>1, <1>3, <2>2
    <3> HIDE DEF paidFor
    <3> QED BY <1>0, <1>6, <2>2, <3>1
  <2> QED BY <2>1, <2>2
<1>8. ASSUME NEW k \in Id \ {i}
      PROVE  \/ sub'[k] = sub[k]
             \/ /\ i = Tg /\ sub[k] # None /\ sub[k].owner = Tg
                /\ sub'[k] # None /\ sub'[k].owner = Tg /\ sub'[k].panel = sub[k].panel /\ ~sub'[k].active
  <2>1. CASE k \in others
    <3>1. sub'[k] = [sub[k] EXCEPT !.active = FALSE] /\ sub[k] \in Subscription
      BY <1>1, <1>3, <1>4, <1>5, <2>1
    <3>2. /\ sub'[k] \in Subscription /\ sub'[k].owner = sub[k].owner /\ sub'[k].panel = sub[k].panel
          /\ ~sub'[k].active
      BY <3>1, Closed
    <3>3. i = Tg /\ sub[k] # None /\ sub[k].owner = Tg
      BY <1>4, <2>1
    <3> QED BY <1>0, <3>2, <3>3
  <2>2. CASE k \notin others
    BY <1>1, <1>3, <2>2
  <2> QED BY <2>1, <2>2
<1>9. /\ q.loaded => row' = row
      /\ ~q.loaded => /\ Exists(i) /\ row'[i] # None /\ row'[i].panel = i
                      /\ \A k \in Id \ {i} : row'[k] = row[k]
  <2>1. CASE ~q.loaded
    <3>1. Exists(i) /\ row[i] \in User
      BY <1>0, <1>1, <2>1, Helpers DEF CommitPay
    <3>2. [row[i] EXCEPT !.panel = i] \in User /\ [row[i] EXCEPT !.panel = i].panel = i
      BY <1>1, <3>1 DEF User, MaybeId
    <3>3. row' = [row EXCEPT ![i] = [row[i] EXCEPT !.panel = i]]
      BY <1>1, <2>1 DEF CommitPay
    <3> QED BY <1>0, <1>1, <2>1, <3>1, <3>2, <3>3 DEF TypeOK
  <2>2. CASE q.loaded
    BY <2>2 DEF CommitPay
  <2> QED BY <2>1, <2>2
<1>10. /\ due'[i] = Later(due[i], q.at) + Term
       /\ \A k \in Id \ {i} : due'[k] = due[k]
       /\ UNCHANGED <<now, overlap>>
  BY <1>0, <1>1 DEF CommitPay, TypeOK
<1> QED BY <1>1, <1>7, <1>8, <1>9, <1>10

\* What a merge writes, by the panel users of its accounts.
LEMMA MergeWrites ==
    ASSUME Shape, PanelsFit, RequestsFit, NEW r \in Req, CommitMerge(r), NEW q, q = req[r], NEW src, src = q.src
    PROVE  /\ Merging(r) /\ src \in EmailId /\ src \in Id /\ src # Tg
           /\ \A k \in Id \ {src, Tg} : sub'[k] = sub[k]
           /\ sub[src] = None => sub'[src] = None
           /\ sub[src] # None => /\ sub'[src] # None /\ sub'[src].owner = Tg /\ sub'[src].panel \in {src, Tg}
                                 /\ sub'[src].end = sub[src].end
                                 /\ sub'[src].active => sub[src].active /\ ~Adds(q)
           /\ ~Adds(q) => sub'[Tg] = sub[Tg]
           /\ Adds(q) => /\ sub[Tg] # None /\ sub[src] # None
                         /\ sub'[Tg] # None /\ sub'[Tg].owner = Tg /\ sub'[Tg].panel = Tg /\ sub'[Tg].active
                         /\ sub'[Tg].end = Sum(q, sub[Tg].end, sub[src].end)
           /\ \A k \in Id \ {src, Tg} : row'[k] = row[k]
           /\ row'[src] = None /\ row'[Tg] # None /\ row'[Tg].panel = PanelOf(Tg) /\ row'[Tg].email # None
           /\ \A k \in Id \ {src, Tg} : due'[k] = due[k]
           /\ due'[src] = 0
           /\ due'[Tg] = IF due[src] > q.at THEN Later(due[Tg], q.at) + due[src] - q.at ELSE due[Tg]
           /\ src \in overlap => Tg \in overlap'
           /\ UNCHANGED now
<1>0. TypeOK /\ None \notin Subscription /\ Tg \in Id /\ None \notin Id
  BY RowAssumption, Ids DEF Shape
<1>1. /\ q \in MergeRequest /\ Merging(r) /\ q.tgt = Tg /\ src \in EmailId /\ src \in Id /\ src # Tg /\ q.at \in Nat
      /\ q.pc = "moved"
  BY Committing, MergeTypes
<1>2. /\ q.email # None /\ q.active \in {None, src} /\ q.anchor \in {None, Tg} /\ q.from \in {None, src}
      /\ q.onto \in {None, Tg} /\ q.subs \subseteq {src}
  BY <1>1 DEF RequestsFit, MergeFits
<1>3. \A k \in Id : sub[k] # None /\ sub[k].owner = src => k \in q.subs
  BY <1>1 DEF Shape, MovedAll
<1>4. \A k \in Id : sub'[k] = IF sub[k] # None /\ sub[k].owner = src /\ k \notin q.subs THEN None
                              ELSE IF sub[k] = None THEN None ELSE MergedSub(q, k)
  BY DEF CommitMerge
<1>5. \A k \in Id : sub'[k] = IF sub[k] = None THEN None ELSE MergedSub(q, k)
  BY <1>3, <1>4
<1>6. Adds(q) => q.active = src /\ q.anchor = Tg /\ q.onto = Tg /\ sub[src] # None /\ sub[Tg] # None
  BY <1>1, <1>2 DEF Adds, Shape, MergesFit
<1>7. \A k \in Id : sub[k] # None => sub[k] \in Subscription
  BY <1>0 DEF TypeOK
<1>8. ASSUME NEW k \in Id \ {src, Tg} PROVE sub'[k] = sub[k]
  <2>1. k \notin q.subs /\ (Adds(q) => k # q.active /\ k # q.anchor)
    BY <1>2, <1>6
  <2>2. MergedSub(q, k) = sub[k]
    BY <2>1 DEF MergedSub
  <2> QED BY <1>5, <2>2
<1>9. ASSUME sub[src] # None
      PROVE  /\ sub'[src] # None /\ sub'[src].owner = Tg /\ sub'[src].panel \in {src, Tg}
             /\ sub'[src].end = sub[src].end
             /\ sub'[src].active => sub[src].active /\ ~Adds(q)
  <2> DEFINE p == IF q.onto # None THEN q.onto ELSE IF q.from # None THEN q.from ELSE sub[src].panel
             s == IF src \in q.subs THEN [sub[src] EXCEPT !.owner = Tg, !.panel = p] ELSE sub[src]
  <2>1. sub[src] \in Subscription /\ sub[src].panel \in {src, Tg} /\ (src \notin q.subs => sub[src].owner = Tg)
    BY <1>1, <1>3, <1>7, <1>9 DEF PanelsFit
  <2>2. p \in {src, Tg} /\ p \in Id
    BY <1>0, <1>1, <1>2, <2>1
  <2>3. /\ s \in Subscription /\ s.owner = Tg /\ s.panel \in {src, Tg} /\ s.end = sub[src].end
        /\ s.active = sub[src].active
    <3> HIDE DEF p
    <3>1. CASE src \in q.subs
      <4>1. s = Reown(sub[src], Tg, p)
        BY <3>1 DEF Reown
      <4> HIDE DEF s
      <4>2. /\ s \in Subscription /\ s.owner = Tg /\ s.panel = p /\ s.end = sub[src].end
            /\ s.active = sub[src].active
        BY <1>0, <2>1, <2>2, <4>1, Reowned
      <4> QED BY <2>2, <4>2
    <3>2. CASE src \notin q.subs
      BY <2>1, <3>2
    <3> QED BY <3>1, <3>2
  <2>4. sub'[src] = IF Adds(q) THEN [s EXCEPT !.active = FALSE] ELSE s
    BY <1>1, <1>5, <1>6, <1>9 DEF MergedSub
  <2> HIDE DEF s
  <2>5. CASE Adds(q)
    <3>1. sub'[src] = [s EXCEPT !.active = FALSE]
      BY <2>4, <2>5
    <3>2. /\ sub'[src] \in Subscription /\ sub'[src].owner = s.owner /\ sub'[src].panel = s.panel
          /\ sub'[src].end = s.end /\ ~sub'[src].active
      BY <2>3, <3>1, Closed
    <3> QED BY <1>0, <2>3, <3>2
  <2>6. CASE ~Adds(q)
    BY <1>0, <2>3, <2>4, <2>6
  <2> QED BY <2>5, <2>6
<1>10. Tg \notin q.subs
  BY <1>1, <1>2
<1>11. ~Adds(q) => sub'[Tg] = sub[Tg]
  BY <1>0, <1>5, <1>10 DEF MergedSub
<1>12. ASSUME Adds(q)
       PROVE  /\ sub'[Tg] # None /\ sub'[Tg].owner = Tg /\ sub'[Tg].panel = Tg /\ sub'[Tg].active
              /\ sub'[Tg].end = Sum(q, sub[Tg].end, sub[src].end)
  <2> DEFINE e == Sum(q, sub[Tg].end, sub[src].end)
  <2>1. sub[Tg] \in Subscription /\ sub[src] \in Subscription /\ sub[Tg].owner = Tg /\ sub[Tg].panel = Tg
    BY <1>0, <1>1, <1>6, <1>7, <1>12 DEF PanelsFit
  <2>2. e \in Nat
    <3>1. sub[Tg].end \in Nat /\ sub[src].end \in Nat
      BY <2>1 DEF Subscription
    <3> QED BY <1>1, <3>1 DEF Sum, Later
  <2>3. sub'[Tg] = Extend(sub[Tg], e)
    <3>1. sub'[Tg] = MergedSub(q, Tg)
      BY <1>0, <1>5, <1>6, <1>12
    <3>2. Tg # q.active /\ Tg = q.anchor /\ q.active = src
      BY <1>1, <1>6, <1>12
    <3> QED BY <1>10, <1>12, <3>1, <3>2 DEF MergedSub, Extend
  <2> HIDE DEF e
  <2>4. /\ sub'[Tg] \in Subscription /\ sub'[Tg].owner = sub[Tg].owner /\ sub'[Tg].panel = sub[Tg].panel
        /\ sub'[Tg].end = e /\ sub'[Tg].active
    BY <2>1, <2>2, <2>3, Extended
  <2> QED BY <1>0, <2>1, <2>4 DEF e
<1>13. /\ \A k \in Id \ {src, Tg} : row'[k] = row[k]
       /\ row'[src] = None /\ row'[Tg] # None /\ row'[Tg] = MergedUser(q)
  BY Committing
<1>14. MergedUser(q).panel = PanelOf(Tg) /\ MergedUser(q).email = q.email
  BY <1>1, <1>2 DEF MergedUser
<1>15. /\ \A k \in Id \ {src, Tg} : due'[k] = due[k]
       /\ due'[src] = 0
       /\ due'[Tg] = IF due[src] > q.at THEN Later(due[Tg], q.at) + due[src] - q.at ELSE due[Tg]
  BY <1>0, <1>1 DEF CommitMerge, TypeOK
<1>16. (src \in overlap => Tg \in overlap') /\ UNCHANGED now
  BY <1>1 DEF CommitMerge
<1>17. sub[src] = None => sub'[src] = None
  BY <1>1, <1>5
<1>18. row'[Tg].panel = PanelOf(Tg) /\ row'[Tg].email # None
  BY <1>2, <1>13, <1>14
<1> QED BY <1>1, <1>6, <1>8, <1>9, <1>11, <1>12, <1>13, <1>15, <1>16, <1>17, <1>18

\* Every other step leaves the days, and of the rows all but what has run out.
LEMMA Quiet ==
    ASSUME Shape, [Next]_vars, \A r \in Req : ~CommitPay(r) /\ ~CommitMerge(r)
    PROVE  /\ due' = due /\ now' \in Nat /\ now <= now'
           /\ \A k \in Id :
                 \/ sub'[k] = sub[k]
                 \/ /\ sub[k] # None /\ sub'[k] # None /\ sub'[k].owner = sub[k].owner /\ sub'[k].panel = sub[k].panel
                    /\ sub'[k].end = sub[k].end /\ sub[k].end < now' /\ ~sub'[k].active
                    /\ \A r \in Req : sub[k].owner \in Touched(r) => sub[k].owner \in overlap'
           /\ \A k \in Id : Exists(k) => row'[k] # None /\ row'[k].panel = row[k].panel
           /\ \A k \in Id : ~Exists(k) => row'[k] = None \/ row'[k].panel = None
           /\ \A k \in Id : Exists(k) /\ row[k].email # None => row'[k].email # None
<1>0. TypeOK /\ None \notin Subscription /\ None \notin User
  BY RowAssumption DEF Shape
<1> DEFINE DueStays == due' = due /\ now' \in Nat /\ now <= now'
           SubStays == \A k \in Id :
                 \/ sub'[k] = sub[k]
                 \/ /\ sub[k] # None /\ sub'[k] # None /\ sub'[k].owner = sub[k].owner /\ sub'[k].panel = sub[k].panel
                    /\ sub'[k].end = sub[k].end /\ sub[k].end < now' /\ ~sub'[k].active
                    /\ \A r \in Req : sub[k].owner \in Touched(r) => sub[k].owner \in overlap'
           RowStays == /\ \A k \in Id : Exists(k) => row'[k] # None /\ row'[k].panel = row[k].panel
                       /\ \A k \in Id : ~Exists(k) => row'[k] = None \/ row'[k].panel = None
                       /\ \A k \in Id : Exists(k) /\ row[k].email # None => row'[k].email # None
<1>1. DueStays
  <2>1. Pass => DueStays
    BY <1>0 DEF Pass, history, TypeOK
  <2>2. due' = due /\ now' = now => DueStays
    BY <1>0 DEF TypeOK
  <2> HIDE DEF DueStays
  <2>3. ASSUME NEW r \in Req, Verify(r) PROVE due' = due /\ now' = now
    BY <2>3 DEF Verify
  <2> QED
    BY <2>1, <2>2, <2>3, ZenonT(60)
    DEF Next, vars, history, Start, OpenTicket, Lapse, Order, BeginPay, Ask, Enter, LinkTelegram, CommitAsk,
        CommitLogin, CommitLink, CommitPassword, FlushMerge, MoveRows, RefuseMerge, Fail
<1>2. SubStays
  <2>1. UNCHANGED sub => SubStays
    OBVIOUS
  <2>2. ASSUME NEW i \in Id, Lapse(i) PROVE SubStays
    <3>1. sub[i] \in Subscription /\ sub[i] # None /\ sub[i].end < now /\ now' = now
      BY <1>0, <2>2 DEF Lapse, TypeOK
    <3>2. sub'[i] = [sub[i] EXCEPT !.active = FALSE] /\ \A k \in Id \ {i} : sub'[k] = sub[k]
      BY <1>0, <2>2 DEF Lapse, TypeOK
    <3>3. /\ sub'[i] \in Subscription /\ sub'[i].owner = sub[i].owner /\ sub'[i].panel = sub[i].panel
          /\ sub'[i].end = sub[i].end /\ ~sub'[i].active
      BY <3>1, <3>2, Closed
    <3>4. \A r \in Req : sub[i].owner \in Touched(r) => sub[i].owner \in overlap'
      BY <2>2 DEF Lapse
    <3> QED BY <1>0, <3>1, <3>2, <3>3, <3>4
  <2> HIDE DEF SubStays
  <2> QED
    BY <2>1, <2>2, ZenonT(60)
    DEF Next, vars, tables, Pass, Start, OpenTicket, Order, BeginPay, Ask, Enter, LinkTelegram, CommitAsk, Verify,
        CommitLogin, CommitLink, CommitPassword, FlushMerge, MoveRows, RefuseMerge, Fail
<1>3. RowStays
  <2>1. UNCHANGED row => RowStays
    BY DEF Exists
  <2>2. ASSUME NEW i \in Id, NEW m \in MaybeEmail, ~Exists(i), row' = [row EXCEPT ![i] = [email |-> m, panel |-> None]]
        PROVE  RowStays
    <3>1. row'[i].panel = None /\ \A k \in Id \ {i} : row'[k] = row[k]
      BY <1>0, <2>2 DEF TypeOK
    <3> QED BY <2>2, <3>1 DEF Exists
  <2>3. Start => RowStays
    BY <2>2, Ids DEF Start, MaybeEmail
  <2>4. ASSUME NEW r \in Req, CommitLogin(r) PROVE RowStays
    <3>1. req[r].code.email \in MaybeEmail
      BY <1>0, <2>4, RequestKinds DEF CommitLogin, RouteRequest, Code, TypeOK, MaybeEmail
    <3> HIDE DEF RowStays
    <3> QED BY <2>1, <2>2, <2>4, <3>1, Ids DEF CommitLogin
  <2>5. ASSUME NEW r \in Req, CommitLink(r) PROVE RowStays
    <3> DEFINE i == req[r].id
               m == req[r].code.email
    <3>1. req[r] \in RouteRequest /\ Exists(i) /\ i \in Id /\ m \in Email
      BY <1>0, <2>5, RequestKinds DEF CommitLink, RouteRequest, Code, TypeOK, Shape, CodesFit, MaybeId
    <3>2. row' = [row EXCEPT ![i] = [row[i] EXCEPT !.email = m]]
      BY <2>5 DEF CommitLink
    <3> HIDE DEF i, m
    <3>3. row'[i] = [row[i] EXCEPT !.email = m] /\ \A k \in Id \ {i} : row'[k] = row[k]
      BY <1>0, <3>1, <3>2 DEF TypeOK
    <3>4. row[i] \in User
      BY <1>0, <3>1, Helpers
    <3>5. row'[i] \in User /\ row'[i].panel = row[i].panel /\ row'[i].email = m
      BY <3>1, <3>3, <3>4 DEF User, MaybeEmail
    <3> QED BY <1>0, <3>1, <3>3, <3>5, Ids DEF Exists
  <2> HIDE DEF RowStays
  <2> QED
    BY <2>1, <2>3, <2>4, <2>5, ZenonT(60)
    DEF Next, vars, tables, Pass, OpenTicket, Lapse, Order, BeginPay, Ask, Enter, LinkTelegram, CommitAsk, Verify,
        CommitPassword, FlushMerge, MoveRows, RefuseMerge, Fail
<1> QED BY <1>1, <1>2, <1>3

\* What an account runs on is found when it has days, and nothing when it has none.
LEMMA Running ==
    ASSUME DaysShape, NEW i \in Id, i \notin overlap, NEW panel \in {None, i}
    PROVE  /\ due[i] > now => ActiveOf(i, panel) = i /\ Own(i) /\ sub[i].active /\ sub[i].end = due[i]
           /\ ~(due[i] > now) => ActiveOf(i, panel) = None
<1> DEFINE S == {k \in OnPanel(i, panel) : sub[k].active /\ sub[k].end > now}
<1>0. TypeOK /\ PanelsFit /\ DaysRun /\ Runs(i) /\ i # None /\ now \in Nat
  BY Ids DEF DaysShape, MailShape, Shape, DaysRun, TypeOK
<1>1. ASSUME NEW k \in S PROVE k = i /\ Own(i) /\ due[i] > now
  <2>1. k \in Id /\ sub[k] # None /\ sub[k].owner = i /\ sub[k].active /\ sub[k].end > now
    BY DEF OnPanel, SubsOf
  <2>2. k = i
    <3>1. CASE k # i
      <4>1. k # Tg /\ i = Tg
        BY <1>0, <2>1, <3>1 DEF PanelsFit
      <4>2. k \in EmailId
        BY <2>1, <4>1 DEF Id
      <4>3. sub[k].end <= now /\ sub[k].end \in Nat
        BY <1>0, <2>1, <4>1, <4>2 DEF DaysRun, TypeOK, Subscription
      <4> QED BY <1>0, <2>1, <4>3
    <3> QED BY <3>1
  <2> QED BY <1>0, <2>1, <2>2 DEF Own, Runs
<1>2. ASSUME due[i] > now PROVE Own(i) /\ sub[i].active /\ sub[i].end = due[i] /\ i \in S
  <2>1. Own(i) /\ sub[i].active /\ sub[i].end = due[i]
    BY <1>0, <1>2 DEF Runs
  <2>2. i \in OnPanel(i, panel)
    BY <1>0, <2>1 DEF OnPanel, SubsOf, Own, PanelsFit
  <2> QED BY <1>2, <2>1, <2>2
<1>3. ActiveOf(i, panel) = LastOf(S)
  BY DEF ActiveOf
<1>4. S \subseteq Id /\ S \subseteq {i}
  BY <1>1
<1> HIDE DEF S
<1>5. CASE due[i] > now
  BY <1>0, <1>2, <1>3, <1>4, <1>5, LastOfOne DEF Own
<1>6. CASE ~(due[i] > now)
  <2>1. S = {}
    BY <1>1, <1>6
  <2> QED BY <1>3, <1>6, <2>1 DEF LastOf
<1> QED BY <1>5, <1>6

\* What a payment has read.
LEMMA BegunPay ==
    ASSUME Shape, PanelsFit, NEW r \in Req, NEW p \in Payment, BeginPay(r, p)
    PROVE  LET i == payment[p].user
           IN  /\ i \in Id /\ Exists(i)
               /\ req'[r].id = i /\ req'[r].panel = i /\ req'[r].at = now
               /\ req'[r].loaded <=> ActiveOf(i, i) = i
               /\ req'[r].end = Term + (IF ActiveOf(i, i) = None THEN now ELSE sub[ActiveOf(i, i)].end)
               /\ UNCHANGED <<now, row, sub, due>>
<1> DEFINE i == payment[p].user
           base == ActiveOf(i, i)
<1>0. TypeOK
  BY DEF Shape
<1>1. i \in Id /\ Exists(i)
  BY <1>0 DEF BeginPay, Shape, InvoicesPlaced, PaymentsKept, TypeOK, Invoice
<1>2. (IF row[i].panel = None THEN i ELSE row[i].panel) = i
  BY <1>1 DEF PanelsFit
<1>3. req' = [req EXCEPT ![r] =
          [pc |-> "pay", payment |-> p, id |-> i, panel |-> i, loaded |-> base = i,
           end |-> Term + (IF base = None THEN now ELSE sub[base].end), at |-> now]]
  BY <1>2 DEF BeginPay
<1> HIDE DEF i, base
<1>4. /\ req'[r].id = i /\ req'[r].panel = i /\ req'[r].at = now /\ (req'[r].loaded <=> base = i)
      /\ req'[r].end = Term + (IF base = None THEN now ELSE sub[base].end)
  BY <1>0, <1>3 DEF TypeOK
<1>5. UNCHANGED <<now, row, sub, due>>
  BY DEF BeginPay, tables
<1> QED BY <1>1, <1>4, <1>5 DEF i, base

\* What a merge has read of the days.
LEMMA BegunMerge ==
    ASSUME TypeOK, NEW r \in Req, NEW n \in Nat, NEW src \in Id, NEW tgt \in Id,
           BeginMerge(r, n, src, tgt), req'[r].pc = "read"
    PROVE  /\ req'[r].from = PanelOf(src) /\ req'[r].onto = PanelOf(tgt)
           /\ req'[r].active = ActiveOf(src, PanelOf(src)) /\ req'[r].anchor = AnchorOf(tgt, PanelOf(tgt))
           /\ req'[r].at = now /\ req'[r].subs = {}
<1> DEFINE active == ActiveOf(src, PanelOf(src))
           anchor == AnchorOf(tgt, PanelOf(tgt))
           q == [pc |-> "read", n |-> n, src |-> src, tgt |-> tgt, new |-> ~Exists(tgt),
                 email |-> EmailToMove(src, tgt), from |-> PanelOf(src), onto |-> PanelOf(tgt),
                 active |-> active, anchor |-> anchor, at |-> now, subs |-> {}, payments |-> {}]
<1>1. req'[r] # Idle
  BY Requests
<1>2. ~(EmailOf(src) # None /\ EmailOf(tgt) \notin {None, EmailOf(src)})
  BY <1>1 DEF BeginMerge, TypeOK
<1>3. req'[r] = q
  BY <1>2 DEF BeginMerge, TypeOK
<1> HIDE DEF active, anchor
<1>4. /\ q.from = PanelOf(src) /\ q.onto = PanelOf(tgt) /\ q.active = active /\ q.anchor = anchor
      /\ q.at = now /\ q.subs = {}
  OBVIOUS
<1> HIDE DEF q
<1> QED BY <1>3, <1>4 DEF active, anchor

\* The target has brought nothing along yet, and its anchor is its own row.
LEMMA Anchored ==
    ASSUME Shape, PanelsFit, EmailOf(Tg) = None
    PROVE  /\ \A panel \in {None, Tg} : AnchorOf(Tg, panel) \in {None, Tg}
           /\ PanelOf(Tg) # None => AnchorOf(Tg, PanelOf(Tg)) = Tg
<1>0. TypeOK /\ Tg \in Id /\ Tg # None
  BY Ids DEF Shape
<1>1. \A k \in EmailId : ~(sub[k] # None /\ sub[k].owner = Tg)
  BY DEF PanelsFit, EmailOf
<1>2. \A panel : OnPanel(Tg, panel) \subseteq {Tg}
  BY <1>1 DEF OnPanel, SubsOf, Id
<1>3. \A panel : ActiveOf(Tg, panel) \in {None, Tg}
  <2> SUFFICES ASSUME NEW panel PROVE ActiveOf(Tg, panel) \in {None, Tg}
    OBVIOUS
  <2> DEFINE S == {k \in OnPanel(Tg, panel) : sub[k].active /\ sub[k].end > now}
  <2>1. S \subseteq {Tg} /\ S \subseteq Id /\ ActiveOf(Tg, panel) = LastOf(S)
    BY <1>0, <1>2 DEF ActiveOf
  <2> HIDE DEF S
  <2> QED BY <2>1, FoundSub
<1>4. \A panel : LastOf(OnPanel(Tg, panel)) \in {None, Tg}
  BY <1>0, <1>2, FoundSub
<1>5. ASSUME PanelOf(Tg) # None PROVE AnchorOf(Tg, PanelOf(Tg)) = Tg
  <2>1. Exists(Tg) /\ PanelOf(Tg) = Tg /\ sub[Tg] # None /\ sub[Tg].owner = Tg /\ sub[Tg].panel = Tg
    BY <1>0, <1>5 DEF PanelOf, PanelsFit
  <2>2. Tg \in OnPanel(Tg, Tg)
    BY <1>0, <2>1 DEF OnPanel, SubsOf
  <2>3. LastOf(OnPanel(Tg, Tg)) = Tg
    <3> DEFINE S == OnPanel(Tg, Tg)
    <3>1. S \subseteq Id /\ S \subseteq {Tg} /\ Tg \in S
      BY <1>0, <1>2, <2>2
    <3> HIDE DEF S
    <3>2. LastOf(S) = Tg
      BY <1>0, <2>1, <3>1, LastOfOne
    <3> QED BY <3>2 DEF S
  <2> QED BY <1>3, <2>1, <2>3 DEF AnchorOf
<1> QED BY <1>3, <1>4, <1>5 DEF AnchorOf

\* A panel user gets one account and keeps it; only a merge gives a row to another.
LEMMA PanelsFitStep == Shape /\ PanelsFit /\ RequestsFit /\ [Next]_vars => PanelsFit'
<1> SUFFICES ASSUME Shape, PanelsFit, RequestsFit, [Next]_vars PROVE PanelsFit'
  OBVIOUS
<1>0. Tg \in Id /\ Tg # None /\ EmailId \subseteq Id /\ Tg \notin EmailId
  BY Ids
<1>1. CASE \A r \in Req : ~CommitPay(r) /\ ~CommitMerge(r)
  <2>1. \A k \in Id : (sub'[k] # None <=> sub[k] # None)
                      /\ (sub[k] # None => sub'[k].owner = sub[k].owner /\ sub'[k].panel = sub[k].panel)
    BY <1>1, Quiet
  <2>2. /\ \A k \in Id : Exists(k) => row'[k] # None /\ row'[k].panel = row[k].panel
        /\ \A k \in Id : ~Exists(k) => row'[k] = None \/ row'[k].panel = None
        /\ \A k \in Id : Exists(k) /\ row[k].email # None => row'[k].email # None
    BY <1>1, Quiet
  <2> QED BY <1>0, <2>1, <2>2 DEF PanelsFit, Exists
<1>2. ASSUME NEW r \in Req, CommitPay(r) PROVE PanelsFit'
  <2> DEFINE i == req[r].id
  <2>1. /\ i \in Id /\ sub'[i] # None
        /\ req[r].loaded => /\ sub[i] # None /\ sub'[i].owner = sub[i].owner /\ sub'[i].panel = sub[i].panel
                            /\ row' = row
        /\ ~req[r].loaded => /\ sub'[i].owner = i /\ sub'[i].panel = i
                             /\ Exists(i) /\ row'[i] # None /\ row'[i].panel = i
                             /\ \A k \in Id \ {i} : row'[k] = row[k]
        /\ \A k \in Id \ {i} :
              \/ sub'[k] = sub[k]
              \/ /\ sub[k] # None /\ sub[k].owner = Tg
                 /\ sub'[k] # None /\ sub'[k].owner = Tg /\ sub'[k].panel = sub[k].panel
    BY <1>2, PayWrites
  <2>2. /\ \A k \in Id : Exists(k)' <=> Exists(k)
        /\ \A k \in Id : Exists(k) => row'[k].email = row[k].email
    BY <1>2, Paying
  <2> HIDE DEF i
  <2>3. \A k \in Id : Exists(k)' => row'[k].panel \in {None, k}
    BY <2>1, <2>2 DEF PanelsFit, Exists
  <2>4. row'[Tg] # None /\ row'[Tg].panel # None => sub'[Tg] # None
    BY <1>0, <2>1, <2>2 DEF PanelsFit, Exists
  <2>5. ASSUME NEW k \in Id, sub'[k] # None
        PROVE  \/ sub'[k].owner = k /\ sub'[k].panel = k
               \/ k # Tg /\ sub'[k].owner = Tg /\ sub'[k].panel \in {k, Tg}
    BY <1>0, <2>1, <2>5 DEF PanelsFit
  <2>6. ASSUME NEW k \in EmailId, sub'[k] # None, sub'[k].owner = Tg
        PROVE  Exists(Tg) /\ row[Tg].email # None
    BY <1>0, <2>1, <2>6 DEF PanelsFit
  <2> QED BY <1>0, <2>2, <2>3, <2>4, <2>5, <2>6 DEF PanelsFit, Exists
<1>3. ASSUME NEW r \in Req, CommitMerge(r) PROVE PanelsFit'
  <2> DEFINE q == req[r]
             src == q.src
  <2>1. /\ src \in EmailId /\ src \in Id /\ src # Tg
        /\ \A k \in Id \ {src, Tg} : sub'[k] = sub[k]
        /\ sub[src] = None => sub'[src] = None
        /\ sub[src] # None => sub'[src] # None /\ sub'[src].owner = Tg /\ sub'[src].panel \in {src, Tg}
        /\ ~Adds(q) => sub'[Tg] = sub[Tg]
        /\ Adds(q) => sub'[Tg] # None /\ sub'[Tg].owner = Tg /\ sub'[Tg].panel = Tg
        /\ \A k \in Id \ {src, Tg} : row'[k] = row[k]
        /\ row'[src] = None /\ row'[Tg] # None /\ row'[Tg].panel = PanelOf(Tg) /\ row'[Tg].email # None
    BY <1>3, MergeWrites
  <2> HIDE DEF q, src
  <2>2. PanelOf(Tg) \in {None, Tg} /\ (PanelOf(Tg) # None => sub[Tg] # None)
    BY <1>0 DEF PanelOf, PanelsFit
  <2> QED BY <1>0, <2>1, <2>2 DEF PanelsFit, Exists
<1> QED BY <1>1, <1>2, <1>3

\* A merge under way keeps what it has read; one that begins reads two accounts.
LEMMA MergeGoesOn ==
    ASSUME Shape, [Next]_vars, NEW r \in Req, Merging(r)'
    PROVE  \/ /\ Merging(r)
              /\ req'[r].src = req[r].src /\ req'[r].email = req[r].email
              /\ req'[r].from = req[r].from /\ req'[r].onto = req[r].onto
              /\ req'[r].active = req[r].active /\ req'[r].anchor = req[r].anchor /\ req'[r].at = req[r].at
              /\ req'[r].subs = req[r].subs \/ req'[r].subs = SubsOf(req[r].src)
           \/ \E n \in Nat, src \in EmailId :
                 /\ BeginMerge(r, n, src, Tg) /\ req'[r].pc = "read"
                 /\ req'[r].src = src /\ req'[r].email # None
                 /\ Exists(src) /\ EmailOf(Tg) = None /\ UNCHANGED <<row, sub>>
                 /\ \A x \in Req : ~CommitPay(x) /\ ~CommitMerge(x)
<1>0. TypeOK
  BY DEF Shape
<1>1. CASE req'[r] = req[r]
  BY <1>1 DEF Merging
<1>2. CASE req[r].pc = "read" /\ req'[r] = [req[r] EXCEPT !.pc = "flushed"]
  <2>1. req[r] \in MergeRequest
    BY <1>0, <1>2, RequestKinds DEF TypeOK
  <2> QED BY <1>2, <2>1 DEF Merging, MergeRequest
<1>3. CASE req[r].pc = "flushed" /\ MoveRows(r)
  <2> DEFINE S == SubsOf(req[r].src)
             P == {p \in Payment : payment[p] # None /\ payment[p].user = req[r].src}
             new == [req[r] EXCEPT !.pc = "moved", !.subs = S, !.payments = P]
  <2>1. req[r] \in MergeRequest /\ req'[r] = new
    BY <1>0, <1>3, RequestKinds DEF TypeOK, MoveRows
  <2> HIDE DEF S, P
  <2>2. /\ new.src = req[r].src /\ new.email = req[r].email /\ new.from = req[r].from /\ new.onto = req[r].onto
        /\ new.active = req[r].active /\ new.anchor = req[r].anchor /\ new.at = req[r].at /\ new.subs = S
    BY <2>1 DEF MergeRequest
  <2> HIDE DEF new
  <2> QED BY <1>3, <2>1, <2>2 DEF Merging, S
<1>4. ASSUME NEW n \in Nat, NEW src \in Id, NEW tgt \in Id, BeginMerge(r, n, src, tgt), req'[r].pc = "read",
             UNCHANGED <<row, sub>>, Exists(src), row[src].email # None,
             (Exists(tgt) /\ src # tgt) \/ (src \in EmailId /\ tgt = Tg)
      PROVE  /\ src \in EmailId /\ BeginMerge(r, n, src, Tg) /\ req'[r].src = src /\ req'[r].email # None
             /\ EmailOf(Tg) = None
             /\ \A x \in Req : ~CommitPay(x) /\ ~CommitMerge(x)
  <2>1. src \in EmailId /\ tgt = Tg /\ EmailOf(Tg) = None /\ req'[r].email = row[src].email
    BY <1>4, BegunFits
  <2>2. req'[r].src = src
    BY <1>0, <1>4, BegunRead
  <2>3. ASSUME NEW x \in Req, CommitPay(x) \/ CommitMerge(x) PROVE FALSE
    <3>1. req[x] # Idle /\ req'[x] = Idle
      BY <1>0, <2>3, Requests DEF CommitPay, CommitMerge, TypeOK
    <3>2. req'[x] = req[x] \/ x = r
      BY <1>0, <1>4 DEF BeginMerge, TypeOK
    <3> QED BY <1>4, <3>1, <3>2, Requests
  <2> QED BY <1>4, <2>1, <2>2, <2>3
<1> QED BY <1>1, <1>2, <1>3, <1>4, ToMerge

\* What payments and merges have read names the panel users of their accounts.
LEMMA RequestsFitStep ==
    Shape /\ OverlapKnown /\ PanelsFit /\ RequestsFit /\ [Next]_vars => RequestsFit'
<1> SUFFICES ASSUME Shape, OverlapKnown, PanelsFit, RequestsFit, [Next]_vars, NEW r \in Req
             PROVE  (req'[r].pc = "pay" => PayFits(r)') /\ (Merging(r)' => MergeFits(r)')
  BY DEF RequestsFit
<1>0. TypeOK /\ Tg \in Id /\ Tg # None /\ Tg \notin EmailId /\ EmailId \subseteq Id /\ overlap \subseteq overlap'
  BY OverlapGrows, Ids DEF Shape
<1>1. ASSUME req'[r].pc = "pay", req'[r] = req[r] PROVE PayFits(r)'
  <2> DEFINE i == req[r].id
  <2>1. i \in Id /\ Touched(r) = {i} /\ PayFits(r)
    BY <1>1, PayTypes DEF RequestsFit
  <2>2. ASSUME req[r].loaded PROVE sub'[i].owner = i \/ Tg \in overlap'
    <3>1. sub[i] # None /\ (sub[i].owner = i \/ Tg \in overlap)
      BY <1>1, <2>1, <2>2 DEF PayFits, Shape, PaysFit
    <3>2. CASE \A x \in Req : ~CommitPay(x) /\ ~CommitMerge(x)
      BY <1>0, <2>1, <3>1, <3>2, Quiet
    <3>3. ASSUME NEW x \in Req, CommitPay(x) PROVE sub'[i].owner = i \/ Tg \in overlap'
      <4> DEFINE k == req[x].id
      <4>1. /\ k \in Id
            /\ req[x].loaded => sub'[k].owner = sub[k].owner
            /\ ~req[x].loaded => sub'[k].owner = k
            /\ \A j \in Id \ {k} : sub'[j] = sub[j] \/ (sub[j].owner = Tg /\ sub'[j].owner = Tg)
        BY <3>3, PayWrites
      <4> HIDE DEF i, k
      <4> QED BY <1>0, <2>1, <3>1, <4>1
    <3>4. ASSUME NEW x \in Req, CommitMerge(x) PROVE sub'[i].owner = i \/ Tg \in overlap'
      <4> DEFINE src == req[x].src
      <4>1. /\ Merging(x) /\ src \in Id /\ src # Tg
            /\ \A k \in Id \ {src, Tg} : sub'[k] = sub[k]
            /\ ~Adds(req[x]) => sub'[Tg] = sub[Tg]
            /\ Adds(req[x]) => sub'[Tg].owner = Tg
        BY <3>4, MergeWrites
      <4>2. Touched(x) = {src, Tg} /\ x # r
        BY <1>1, <4>1, MergeTypes DEF Merging
      <4>3. i = src => Tg \in overlap
        BY <2>1, <4>2 DEF OverlapKnown
      <4> HIDE DEF i, src
      <4> QED BY <1>0, <2>1, <3>1, <4>1, <4>3
    <3> QED BY <3>2, <3>3, <3>4
  <2> QED BY <1>1, <2>1, <2>2 DEF PayFits
<1>2. ASSUME NEW p \in Payment, BeginPay(r, p) PROVE PayFits(r)'
  <2> DEFINE i == payment[p].user
  <2>1. /\ i \in Id /\ req'[r].id = i /\ req'[r].panel = i /\ (req'[r].loaded <=> ActiveOf(i, i) = i)
        /\ UNCHANGED sub
    BY <1>2, BegunPay
  <2>2. ActiveOf(i, i) = i => sub[i].owner = i
    <3> DEFINE S == {k \in OnPanel(i, i) : sub[k].active /\ sub[k].end > now}
    <3>1. S \subseteq Id /\ (\A k \in S : sub[k].owner = i) /\ ActiveOf(i, i) = LastOf(S)
      BY DEF OnPanel, SubsOf, ActiveOf
    <3> HIDE DEF S, i
    <3> QED BY <2>1, <3>1, FoundSub, Ids
  <2> HIDE DEF i
  <2> QED BY <2>1, <2>2 DEF PayFits
<1>3. ASSUME Merging(r)' PROVE MergeFits(r)'
  <2>1. ASSUME Merging(r), req'[r].src = req[r].src, req'[r].email = req[r].email,
               req'[r].from = req[r].from, req'[r].onto = req[r].onto,
               req'[r].active = req[r].active, req'[r].anchor = req[r].anchor,
               req'[r].subs = req[r].subs \/ req'[r].subs = SubsOf(req[r].src)
        PROVE  MergeFits(r)'
    <3>1. MergeFits(r) /\ req[r].src \in EmailId
      BY <2>1, MergeTypes DEF RequestsFit
    <3>2. SubsOf(req[r].src) \subseteq {req[r].src}
      BY <1>0, <3>1 DEF SubsOf, PanelsFit
    <3> QED BY <2>1, <3>1, <3>2 DEF MergeFits
  <2>2. ASSUME NEW n \in Nat, NEW src \in EmailId, BeginMerge(r, n, src, Tg), req'[r].pc = "read",
               req'[r].src = src, req'[r].email # None, EmailOf(Tg) = None
        PROVE  MergeFits(r)'
    <3>1. /\ req'[r].from = PanelOf(src) /\ req'[r].onto = PanelOf(Tg)
          /\ req'[r].active = ActiveOf(src, PanelOf(src)) /\ req'[r].anchor = AnchorOf(Tg, PanelOf(Tg))
          /\ req'[r].subs = {}
      BY <1>0, <2>2, BegunMerge
    <3>2. PanelOf(src) \in {None, src} /\ PanelOf(Tg) \in {None, Tg}
      BY <1>0 DEF PanelOf, PanelsFit
    <3>3. AnchorOf(Tg, PanelOf(Tg)) \in {None, Tg}
      BY <2>2, <3>2, Anchored
    <3>4. ActiveOf(src, PanelOf(src)) \in {None, src}
      <4> DEFINE S == {k \in OnPanel(src, PanelOf(src)) : sub[k].active /\ sub[k].end > now}
      <4>1. S \subseteq {src} /\ S \subseteq Id /\ ActiveOf(src, PanelOf(src)) = LastOf(S)
        BY <1>0 DEF OnPanel, SubsOf, ActiveOf, PanelsFit
      <4> HIDE DEF S
      <4> QED BY <4>1, FoundSub
    <3> QED BY <2>2, <3>1, <3>2, <3>3, <3>4 DEF MergeFits
  <2> QED BY <1>3, <2>1, <2>2, MergeGoesOn
<1> QED BY <1>1, <1>2, <1>3, ToPay

\* What an account runs on lapses with its days, is extended with them by a payment,
\* and with those of the source by a merge.
LEMMA DaysRunStep == DaysShape /\ [Next]_vars => DaysRun'
<1> SUFFICES ASSUME DaysShape, [Next]_vars PROVE DaysRun'
  OBVIOUS
<1>0. /\ Shape /\ OverlapKnown /\ PanelsFit /\ RequestsFit /\ DaysRun /\ RequestsHold /\ TypeOK
      /\ Tg \in Id /\ Tg # None /\ EmailId \subseteq Id /\ Tg \notin EmailId
      /\ overlap \subseteq overlap' /\ None \notin Subscription
  BY OverlapGrows, Ids, RowAssumption DEF DaysShape, MailShape, Shape
<1>a. TypeOK'
  BY <1>0, NextTypeOK
<1>b. /\ now \in Nat /\ now' \in Nat
      /\ \A k \in Id : due[k] \in Nat /\ due'[k] \in Nat
      /\ \A k \in Id : sub[k] # None => sub[k].end \in Nat /\ sub[k].active \in BOOLEAN
      /\ \A k \in Id : sub'[k] # None => sub'[k].end \in Nat /\ sub'[k].active \in BOOLEAN
  BY <1>0, <1>a DEF TypeOK, Subscription
<1>c. /\ \A i \in Id \ overlap' : Runs(i)
      /\ Tg \notin overlap' =>
            \A i \in EmailId : sub[i] # None /\ sub[i].owner = Tg /\ sub[i].active => sub[i].end <= now
  BY <1>0 DEF DaysRun
<1>1. CASE \A r \in Req : ~CommitPay(r) /\ ~CommitMerge(r)
  <2>1. /\ due' = due /\ now <= now'
        /\ \A k \in Id :
              \/ sub'[k] = sub[k]
              \/ /\ sub[k] # None /\ sub'[k] # None /\ sub'[k].owner = sub[k].owner
                 /\ sub'[k].end = sub[k].end /\ sub[k].end < now' /\ ~sub'[k].active
        /\ \A k \in Id : Exists(k) => row'[k] # None /\ row'[k].panel = row[k].panel
    BY <1>0, <1>1, Quiet
  <2>2. ASSUME NEW i \in Id \ overlap' PROVE Runs(i)'
    BY <1>b, <1>c, <2>1, <2>2 DEF Runs, Own, Exists
  <2>3. ASSUME Tg \notin overlap', NEW i \in EmailId, sub'[i] # None, sub'[i].owner = Tg, sub'[i].active
        PROVE  sub'[i].end <= now'
    BY <1>0, <1>b, <1>c, <2>1, <2>3
  <2> QED BY <2>2, <2>3 DEF DaysRun
<1>2. ASSUME NEW x \in Req, CommitPay(x) PROVE DaysRun'
  <2> DEFINE q == req[x]
  <2>0. PICK i \in Id : i = q.id
    BY <1>0, <1>2, PayWrites
  <2>1. /\ q.pc = "pay" /\ sub'[i] # None /\ sub'[i].end = q.end
        /\ q.loaded => /\ sub[i] # None /\ sub'[i].owner = sub[i].owner
                       /\ sub'[i].active = sub[i].active /\ row' = row
        /\ ~q.loaded => /\ sub'[i].owner = i /\ sub'[i].active
                        /\ Exists(i) /\ row'[i] # None /\ row'[i].panel = i
                        /\ \A k \in Id \ {i} : row'[k] = row[k]
        /\ \A k \in Id \ {i} :
              \/ sub'[k] = sub[k]
              \/ /\ i = Tg /\ sub[k] # None /\ sub[k].owner = Tg
                 /\ sub'[k] # None /\ sub'[k].owner = Tg /\ ~sub'[k].active
        /\ due'[i] = Later(due[i], q.at) + Term
        /\ \A k \in Id \ {i} : due'[k] = due[k]
        /\ UNCHANGED <<now, overlap>>
    BY <1>0, <1>2, <2>0, PayWrites
  <2>2. /\ i \notin overlap => PayHolds(x)
        /\ PayFits(x)
    BY <1>0, <2>0, <2>1 DEF RequestsHold, RequestsFit
  <2>3. i \notin overlap => Runs(i)'
    <3> SUFFICES ASSUME i \notin overlap PROVE Runs(i)'
      OBVIOUS
    <3>1. q.end = due'[i] /\ (q.loaded => Own(i) /\ sub[i].active)
      BY <2>0, <2>1, <2>2 DEF PayHolds
    <3>2. Runs(i)
      BY <1>c, <2>1
    <3> HIDE DEF q
    <3>3. CASE q.loaded
      <4>1. Own(i) /\ sub[i].active /\ Exists(i) /\ row[i].panel = i
        BY <3>1, <3>2, <3>3 DEF Runs
      <4>2. sub'[i].active
        BY <2>1, <3>3, <4>1, Zenon
      <4>3. sub'[i] # None /\ sub'[i].owner = i /\ row'[i] # None /\ row'[i].panel = i /\ sub'[i].end = due'[i]
        BY <2>1, <3>1, <3>3, <4>1 DEF Own, Exists
      <4> QED BY <4>2, <4>3, Zenon DEF Runs, Own, Exists
    <3>4. CASE ~q.loaded
      <4>1. sub'[i].active /\ sub'[i] # None /\ sub'[i].owner = i /\ row'[i] # None /\ row'[i].panel = i
        BY <2>1, <3>4, Zenon
      <4>2. sub'[i].end = due'[i]
        BY <2>1, <3>1, Zenon
      <4> QED BY <4>1, <4>2, Zenon DEF Runs, Own, Exists
    <3> QED BY <3>3, <3>4
  <2> HIDE DEF q
  <2>4. ASSUME NEW k \in Id \ overlap', k # i PROVE Runs(k)'
    <3>1. Runs(k) /\ due'[k] = due[k] /\ now' = now
      BY <1>c, <2>1, <2>4
    <3>2. sub'[k] = sub[k] \/ (~Own(k) /\ ~Own(k)')
      BY <2>1, <2>4 DEF Own
    <3>3. row'[k] = row[k]
      BY <2>1, <2>4
    <3> QED BY <3>1, <3>2, <3>3 DEF Runs, Own, Exists
  <2>5. ASSUME Tg \notin overlap', NEW k \in EmailId, sub'[k] # None, sub'[k].owner = Tg, sub'[k].active
        PROVE  sub'[k].end <= now'
    <3>1. CASE k = i
      <4>1. sub[i].owner # i /\ q.loaded
        BY <1>0, <2>1, <2>5, <3>1
      <4>2. Tg \in overlap
        BY <2>0, <2>2, <4>1 DEF PayFits, q
      <4> QED BY <1>0, <2>5, <4>2
    <3>2. CASE k # i
      BY <1>0, <1>c, <2>1, <2>5, <3>2
    <3> QED BY <3>1, <3>2
  <2> QED BY <2>1, <2>3, <2>4, <2>5 DEF DaysRun
<1>3. ASSUME NEW x \in Req, CommitMerge(x) PROVE DaysRun'
  <2> DEFINE q == req[x]
             src == q.src
  <2>1. /\ Merging(x) /\ src \in EmailId /\ src \in Id /\ src # Tg
        /\ \A k \in Id \ {src, Tg} : sub'[k] = sub[k]
        /\ sub[src] = None => sub'[src] = None
        /\ sub[src] # None => /\ sub'[src] # None /\ sub'[src].owner = Tg
                              /\ sub'[src].end = sub[src].end
                              /\ sub'[src].active => sub[src].active /\ ~Adds(q)
        /\ ~Adds(q) => sub'[Tg] = sub[Tg]
        /\ Adds(q) => /\ sub[Tg] # None /\ sub[src] # None
                      /\ sub'[Tg] # None /\ sub'[Tg].owner = Tg /\ sub'[Tg].active
                      /\ sub'[Tg].end = Sum(q, sub[Tg].end, sub[src].end)
        /\ \A k \in Id \ {src, Tg} : row'[k] = row[k]
        /\ row'[src] = None /\ row'[Tg] # None /\ row'[Tg].panel = PanelOf(Tg)
        /\ \A k \in Id \ {src, Tg} : due'[k] = due[k]
        /\ due'[src] = 0
        /\ due'[Tg] = IF due[src] > q.at THEN Later(due[Tg], q.at) + due[src] - q.at ELSE due[Tg]
        /\ src \in overlap => Tg \in overlap'
        /\ UNCHANGED now
    BY <1>0, <1>3, MergeWrites
  <2>2. q.at \in Nat /\ ~PanelTwice(q) /\ MergeFits(x)
    BY <1>0, <1>3, <2>1, MergeTypes DEF CommitMerge, RequestsFit
  <2>3. Tg \notin overlap' =>
           /\ src \notin overlap /\ Tg \notin overlap /\ MergeHolds(x)
           /\ Runs(src) /\ Runs(Tg)
    BY <1>0, <1>c, <2>1 DEF RequestsHold, DaysRun
  <2> HIDE DEF src, q
  <2>4. ASSUME Tg \notin overlap'
        PROVE  \/ /\ Adds(q) /\ PanelOf(Tg) = Tg /\ due[src] > q.at /\ q.at <= now
                  /\ sub[src].end = due[src] /\ Own(Tg)
               \/ ~Adds(q) /\ due[src] <= q.at /\ q.at <= now
    <3>1. /\ q.from = PanelOf(src) /\ q.onto = PanelOf(Tg) /\ q.at <= now
          /\ q.onto # None => q.anchor = Tg
          /\ q.active = None => due[src] <= q.at
          /\ q.active # None => due[src] > q.at /\ Own(src)
      BY <2>3, <2>4 DEF MergeHolds, src, q
    <3>2. CASE q.active = None
      BY <3>1, <3>2 DEF Adds
    <3>3. CASE q.active # None
      <4>1. Own(src) /\ Exists(src) /\ row[src].panel = src /\ sub[src].end = due[src] /\ src # None
        BY <1>0, <2>1, <2>3, <2>4, <3>1, <3>3, Ids DEF Runs
      <4>2. q.from # None
        BY <3>1, <4>1 DEF PanelOf
      <4>3. q.onto # None
        BY <2>2, <4>2 DEF PanelTwice
      <4>4. Adds(q) /\ PanelOf(Tg) = Tg
        BY <1>0, <3>1, <3>3, <4>2, <4>3 DEF Adds, PanelOf, PanelsFit
      <4>5. Own(Tg)
        BY <1>0, <2>1, <4>4 DEF PanelsFit, Own
      <4> QED BY <3>1, <3>3, <4>1, <4>4, <4>5
    <3> QED BY <3>2, <3>3
  <2>5. ASSUME Tg \notin overlap' PROVE Runs(Tg)'
    <3>1. Runs(Tg) /\ now' = now /\ Exists(Tg)' /\ row'[Tg].panel = PanelOf(Tg)
      BY <2>1, <2>3, <2>5 DEF Exists
    <3>2. CASE Adds(q)
      <4>1. /\ Own(Tg) /\ sub[Tg].end = due[Tg] /\ sub[src].end = due[src] /\ due[src] > q.at
            /\ PanelOf(Tg) = Tg
        BY <2>4, <2>5, <3>1, <3>2 DEF Runs
      <4>2. due'[Tg] = Later(due[Tg], q.at) + due[src] - q.at /\ sub'[Tg].end = Sum(q, due[Tg], due[src])
        BY <2>1, <3>2, <4>1
      <4>3. sub'[Tg].end = due'[Tg]
        BY <1>0, <1>b, <2>1, <2>2, <4>2 DEF Sum, Later
      <4> QED BY <2>1, <3>1, <3>2, <4>1, <4>3 DEF Runs, Own
    <3>3. CASE ~Adds(q)
      <4>1. due'[Tg] = due[Tg] /\ sub'[Tg] = sub[Tg]
        BY <1>0, <1>b, <2>1, <2>2, <2>4, <2>5, <3>3
      <4> QED BY <3>1, <4>1 DEF Runs, Own, PanelOf
    <3> QED BY <3>2, <3>3
  <2>6. ASSUME Tg \notin overlap', sub'[src] # None, sub'[src].active PROVE sub'[src].end <= now'
    <3>1. sub[src] # None /\ sub[src].active /\ sub'[src].end = sub[src].end /\ ~Adds(q)
      BY <2>1, <2>6
    <3>2. due[src] <= now
      BY <1>b, <2>1, <2>2, <2>4, <2>6, <3>1
    <3>3. CASE Own(src)
      BY <2>1, <2>3, <2>6, <3>1, <3>2, <3>3 DEF Runs
    <3>4. CASE ~Own(src)
      <4>1. sub[src].owner = Tg
        BY <1>0, <2>1, <3>1, <3>4 DEF PanelsFit, Own
      <4> QED BY <1>c, <2>1, <2>6, <3>1, <4>1
    <3> QED BY <3>3, <3>4
  <2>7. ASSUME NEW k \in Id \ overlap', k # Tg PROVE Runs(k)'
    <3>1. CASE k = src
      BY <1>b, <2>1, <3>1 DEF Runs, Own
    <3>2. CASE k # src
      <4>1. Runs(k) /\ due'[k] = due[k] /\ now' = now /\ sub'[k] = sub[k] /\ row'[k] = row[k]
        BY <1>c, <2>1, <2>7, <3>2
      <4> QED BY <4>1 DEF Runs, Own, Exists
    <3> QED BY <3>1, <3>2
  <2>8. ASSUME Tg \notin overlap', NEW k \in EmailId, sub'[k] # None, sub'[k].owner = Tg, sub'[k].active
        PROVE  sub'[k].end <= now'
    <3>1. CASE k = src
      BY <2>6, <2>8, <3>1
    <3>2. CASE k # src
      BY <1>0, <1>c, <2>1, <2>8, <3>2
    <3> QED BY <3>1, <3>2
  <2> QED BY <1>0, <2>5, <2>7, <2>8 DEF DaysRun
<1> QED BY <1>1, <1>2, <1>3

\* An account that one request alone is about to change is changed by no other.
LEMMA Aside ==
    ASSUME Shape, OverlapKnown, PanelsFit, RequestsFit, [Next]_vars, NEW r \in Req, req'[r].pc # "idle",
           NEW i \in Id, i \in Touched(r), i \notin overlap'
    PROVE  /\ due'[i] = due[i] /\ now \in Nat /\ now' \in Nat /\ now <= now'
           /\ PanelOf(i)' = PanelOf(i) /\ (Own(i)' <=> Own(i))
           /\ Own(i) => sub'[i] = sub[i]
<1>0. TypeOK /\ Tg \in Id /\ Tg # None /\ overlap \subseteq overlap' /\ now \in Nat
  BY OverlapGrows, Ids DEF Shape, TypeOK
<1>1. CASE \A x \in Req : ~CommitPay(x) /\ ~CommitMerge(x)
  <2>1. /\ due' = due /\ now' \in Nat /\ now <= now'
        /\ \/ sub'[i] = sub[i]
           \/ /\ sub[i] # None /\ sub'[i] # None /\ sub'[i].owner = sub[i].owner
              /\ sub[i].owner \in Touched(r) => sub[i].owner \in overlap'
        /\ Exists(i) => row'[i] # None /\ row'[i].panel = row[i].panel
        /\ ~Exists(i) => row'[i] = None \/ row'[i].panel = None
    BY <1>0, <1>1, Quiet
  <2> QED BY <1>0, <2>1 DEF PanelOf, Exists, Own
<1>2. ASSUME NEW x \in Req, CommitPay(x) \/ CommitMerge(x) PROVE i \notin Touched(x)
  <2>1. req'[x] = Idle
    BY <1>0, <1>2 DEF CommitPay, CommitMerge, TypeOK
  <2> QED BY <1>0, <2>1, Requests DEF OverlapKnown
<1>3. ASSUME row'[i] = row[i], sub'[i] = sub[i] \/ (~Own(i) /\ ~Own(i)'), due'[i] = due[i], now' = now
      PROVE  /\ due'[i] = due[i] /\ now \in Nat /\ now' \in Nat /\ now <= now'
             /\ PanelOf(i)' = PanelOf(i) /\ (Own(i)' <=> Own(i))
             /\ Own(i) => sub'[i] = sub[i]
  BY <1>0, <1>3 DEF PanelOf, Exists, Own
<1>4. ASSUME NEW x \in Req, CommitPay(x)
      PROVE  row'[i] = row[i] /\ (sub'[i] = sub[i] \/ (~Own(i) /\ ~Own(i)')) /\ due'[i] = due[i] /\ now' = now
  <2>1. PICK k \in Id : k = req[x].id /\ Touched(x) = {k}
    BY <1>0, <1>4, PayTypes DEF CommitPay
  <2>2. i # k
    BY <1>2, <1>4, <2>1
  <2>3. /\ req[x].loaded => row' = row
        /\ ~req[x].loaded => \A j \in Id \ {k} : row'[j] = row[j]
        /\ \A j \in Id \ {k} :
              sub'[j] = sub[j] \/ (k = Tg /\ sub[j].owner = Tg /\ sub'[j].owner = Tg)
        /\ \A j \in Id \ {k} : due'[j] = due[j]
        /\ now' = now
    BY <1>4, <2>1, PayWrites
  <2> QED BY <2>2, <2>3 DEF Own
<1>5. ASSUME NEW x \in Req, CommitMerge(x)
      PROVE  row'[i] = row[i] /\ sub'[i] = sub[i] /\ due'[i] = due[i] /\ now' = now
  <2>1. /\ Merging(x) /\ now' = now
        /\ \A k \in Id \ {req[x].src, Tg} : sub'[k] = sub[k] /\ row'[k] = row[k] /\ due'[k] = due[k]
    BY <1>0, <1>5, MergeWrites
  <2>2. i \notin {req[x].src, Tg}
    BY <1>0, <1>2, <1>5, <2>1, MergeTypes
  <2> QED BY <2>1, <2>2
<1>6. CASE \E x \in Req : CommitPay(x)
  BY <1>3, <1>4, <1>6
<1>7. CASE \E x \in Req : CommitMerge(x)
  BY <1>3, <1>5, <1>7
<1> QED BY <1>1, <1>6, <1>7

\* A payment and a merge find what they have read of an account that no other request
\* is about to change.
LEMMA RequestsHoldStep == DaysShape /\ [Next]_vars => RequestsHold'
<1> SUFFICES ASSUME DaysShape, [Next]_vars, NEW r \in Req
             PROVE  /\ req'[r].pc = "pay" /\ req'[r].id \notin overlap' => PayHolds(r)'
                    /\ Merging(r)' /\ req'[r].src \notin overlap' /\ Tg \notin overlap' => MergeHolds(r)'
  BY DEF RequestsHold
<1>0. /\ Shape /\ OverlapKnown /\ PanelsFit /\ RequestsFit /\ RequestsHold /\ TypeOK /\ TypeOK'
      /\ Tg \in Id /\ Tg # None /\ EmailId \subseteq Id /\ Tg \notin EmailId /\ overlap \subseteq overlap'
      /\ now \in Nat
  BY OverlapGrows, NextTypeOK, Ids DEF DaysShape, MailShape, Shape, TypeOK
<1>1. ASSUME NEW i \in Id, req'[r].pc = "pay", req'[r] = req[r], i = req[r].id, i \notin overlap' PROVE PayHolds(r)'
  <2>1. Touched(r) = {i} /\ PayHolds(r)
    BY <1>0, <1>1, PayTypes DEF RequestsHold
  <2>2. /\ due'[i] = due[i] /\ now \in Nat /\ now' \in Nat /\ now <= now'
        /\ (Own(i)' <=> Own(i)) /\ (Own(i) => sub'[i] = sub[i])
    BY <1>0, <1>1, <2>1, Aside
  <2>3. req[r].at \in Nat
    BY <1>0, <1>1, PayTypes
  <2> QED BY <1>1, <2>1, <2>2, <2>3 DEF PayHolds
<1>2. ASSUME NEW p \in Payment, BeginPay(r, p), req'[r].id \notin overlap' PROVE PayHolds(r)'
  <2>1. PICK i \in Id :
           /\ req'[r].id = i /\ req'[r].at = now
           /\ req'[r].loaded <=> ActiveOf(i, i) = i
           /\ req'[r].end = Term + (IF ActiveOf(i, i) = None THEN now ELSE sub[ActiveOf(i, i)].end)
           /\ UNCHANGED <<now, row, sub, due>>
    BY <1>0, <1>2, BegunPay
  <2>2. i \notin overlap /\ i # None /\ due[i] \in Nat
    BY <1>0, <1>2, <2>1, Ids DEF TypeOK
  <2>3. /\ due[i] > now => ActiveOf(i, i) = i /\ Own(i) /\ sub[i].active /\ sub[i].end = due[i]
        /\ ~(due[i] > now) => ActiveOf(i, i) = None
    BY <2>2, Running
  <2>4. req'[r].end = Later(due[i], now) + Term
    BY <1>0, <2>1, <2>2, <2>3, BoundAssumption DEF Later
  <2> QED BY <1>0, <2>1, <2>2, <2>3, <2>4 DEF PayHolds, Own
<1>3. ASSUME Merging(r)', req'[r].src \notin overlap', Tg \notin overlap' PROVE MergeHolds(r)'
  <2>1. ASSUME Merging(r), req'[r].src = req[r].src,
               req'[r].from = req[r].from, req'[r].onto = req[r].onto,
               req'[r].active = req[r].active, req'[r].anchor = req[r].anchor, req'[r].at = req[r].at
        PROVE  MergeHolds(r)'
    <3>1. PICK src \in Id : src = req[r].src /\ Touched(r) = {src, Tg} /\ req[r].at \in Nat
      BY <1>0, <2>1, MergeTypes
    <3>2. MergeHolds(r)
      BY <1>0, <1>3, <2>1, <3>1 DEF RequestsHold
    <3>3. req'[r].pc # "idle"
      BY <1>3 DEF Merging
    <3>4. /\ due'[src] = due[src] /\ now \in Nat /\ now' \in Nat /\ now <= now'
          /\ PanelOf(src)' = PanelOf(src) /\ PanelOf(Tg)' = PanelOf(Tg) /\ (Own(src)' <=> Own(src))
      BY <1>0, <1>3, <2>1, <3>1, <3>3, Aside
    <3> QED BY <2>1, <3>1, <3>2, <3>4 DEF MergeHolds
  <2>2. ASSUME NEW n \in Nat, NEW src \in EmailId, BeginMerge(r, n, src, Tg), req'[r].pc = "read",
               req'[r].src = src, EmailOf(Tg) = None, UNCHANGED <<row, sub>>,
               \A x \in Req : ~CommitPay(x) /\ ~CommitMerge(x)
        PROVE  MergeHolds(r)'
    <3>1. /\ req'[r].from = PanelOf(src) /\ req'[r].onto = PanelOf(Tg)
          /\ req'[r].active = ActiveOf(src, PanelOf(src)) /\ req'[r].anchor = AnchorOf(Tg, PanelOf(Tg))
          /\ req'[r].at = now
      BY <1>0, <2>2, BegunMerge
    <3>2. PanelOf(src) \in {None, src} /\ (PanelOf(Tg) # None => AnchorOf(Tg, PanelOf(Tg)) = Tg)
      BY <1>0, <2>2, Anchored DEF PanelOf, PanelsFit
    <3>3. src \in Id /\ src \notin overlap /\ src # None /\ due[src] \in Nat /\ due' = due /\ now <= now'
      BY <1>0, <1>3, <2>2, Quiet, Ids DEF TypeOK
    <3>4. /\ due[src] > now => ActiveOf(src, PanelOf(src)) = src /\ Own(src)
          /\ ~(due[src] > now) => ActiveOf(src, PanelOf(src)) = None
      BY <3>2, <3>3, Running
    <3>5. PanelOf(src)' = PanelOf(src) /\ PanelOf(Tg)' = PanelOf(Tg) /\ (Own(src)' <=> Own(src))
      BY <2>2 DEF PanelOf, Exists, Own
    <3> QED BY <1>0, <2>2, <3>1, <3>2, <3>3, <3>4, <3>5 DEF MergeHolds
  <2> QED BY <1>3, <2>1, <2>2, MergeGoesOn, <1>0
<1> QED BY <1>0, <1>1, <1>2, <1>3, ToPay, PayTypes

LEMMA InitDays == Init => DaysShape
<1> SUFFICES ASSUME Init PROVE DaysShape
  OBVIOUS
<1>1. \A r \in Req : req[r].pc = "idle"
  BY Requests DEF Init
<1>2. RequestsFit /\ RequestsHold
  BY <1>1 DEF RequestsFit, RequestsHold, Merging
<1>3. PanelsFit /\ DaysRun
  BY Ids DEF Init, PanelsFit, DaysRun, Runs, Own, Exists
<1> QED BY <1>2, <1>3, InitMail DEF DaysShape

LEMMA NextDays == DaysShape /\ [Next]_vars => DaysShape'
<1> SUFFICES ASSUME DaysShape, [Next]_vars PROVE DaysShape'
  OBVIOUS
<1>1. MailShape /\ Shape /\ OverlapKnown /\ PanelsFit /\ RequestsFit
  BY DEF DaysShape, MailShape
<1> QED BY <1>1, NextMail, PanelsFitStep, RequestsFitStep, DaysRunStep, RequestsHoldStep DEF DaysShape

\* The days that an account has paid for, before merges and after them, run to their
\* end on a row that the account's panel user is found by, unless two transactions
\* changed the account at a time: payments extend the row that merges and the workers
\* leave it, and a merge adds the days of both.
THEOREM DaysFollow == Spec => []DaysKept
<1>1. ASSUME DaysShape PROVE DaysKept
  <2> SUFFICES ASSUME NEW i \in Id \ overlap, due[i] > now
               PROVE  /\ Exists(i)
                      /\ \E j \in OnPanel(i, row[i].panel) : sub[j].active /\ sub[j].end = due[i]
    BY DEF DaysKept
  <2>1. Runs(i) /\ PanelsFit /\ Tg \in Id
    BY <1>1, Ids DEF DaysShape, DaysRun
  <2>2. Own(i) /\ Exists(i) /\ row[i].panel = i /\ sub[i].active /\ sub[i].end = due[i]
    BY <2>1 DEF Runs
  <2>3. sub[i].panel = i
    BY <2>1, <2>2 DEF PanelsFit, Own
  <2>4. i \in OnPanel(i, row[i].panel)
    BY <2>2, <2>3 DEF OnPanel, SubsOf, Own
  <2> QED BY <2>2, <2>4
<1> QED BY <1>1, InitDays, NextDays, PTL DEF Spec

================================================================================
