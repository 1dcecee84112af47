---------------------------- MODULE AccountLinking ----------------------------
(***************************************************************************)
(* One person with accounts by email and one by Telegram: codes mailed for *)
(* a login, a link or a password, an email linked to an account, Telegram  *)
(* linked to an account, and the merge of two rows of users that a link    *)
(* ends in when the identity already belongs to another row.               *)
(*                                                                         *)
(* A merge is one transaction of many statements.  It reads both users and *)
(* their subscriptions, writes the days it moves and clears the identities *)
(* of the source (which locks the row of the source against inserts that   *)
(* refer to it), moves what refers to the source with bulk updates, and    *)
(* deletes the row, with a cascade to whatever still refers to it.         *)
(* Payments, invoices, codes and tickets of both accounts go on meanwhile. *)
(*                                                                         *)
(* The lifetime of a code, the pause between two of them, the attempts and *)
(* the throttle only refuse requests; a request may always not be made.    *)
(***************************************************************************)
EXTENDS Integers, FiniteSets

CONSTANTS
    Tg,             \* the account whose user_id is the person's Telegram ID
    EmailId,        \* user_ids for accounts by email, below zero
    Email,
    Payment,
    Req,            \* requests under way at a time
    None,           \* NULL
    EmailPanels,    \* the panel makes a user for an account without Telegram
    Term,           \* days of a payment
    MaxTime,        \* bound on the clock
    MaxCodes        \* bound on codes

Id == EmailId \cup {Tg}

ASSUME IdAssumption == Tg \notin EmailId /\ EmailPanels \in BOOLEAN

ASSUME NoneAssumption == None \notin Id \cup Email

ASSUME BoundAssumption ==
    Term \in Nat \ {0} /\ MaxTime \in Nat /\ MaxCodes \in Nat

VARIABLES
    now,
    row,        \* users
    sub,        \* subscriptions, by the panel user they were made for
    payment,    \* payments
    ticket,     \* users with a row of support_tickets
    codes,      \* email_verification_codes
    req,
    placed,     \* invoices that have been created
    claimed,    \* the account that proved an email last
    due,        \* the end of what an account has paid for and got by merges
    overlap,    \* accounts that two transactions have changed at a time
    refused     \* why merges were refused

tables == <<row, sub, payment, ticket, codes>>
history == <<placed, claimed, due, overlap, refused>>
vars == <<now, tables, req, history>>

MaybeId == Id \cup {None}

MaybeEmail == Email \cup {None}

User == [email : MaybeEmail, panel : MaybeId]

Subscription == [owner : Id, panel : Id, end : Nat, active : BOOLEAN]

Invoice == [user : Id, paid : BOOLEAN]

ASSUME RowAssumption == None \notin User \cup Subscription \cup Invoice

Code == [n : Nat, email : Email, purpose : {"login", "link_email", "set_password"},
         to : MaybeId, superseded : BOOLEAN, consumed : BOOLEAN]

Idle == [pc |-> "idle"]

Request ==
    {Idle}
    \cup [pc : {"ask"}, code : Code, old : SUBSET Nat]
    \cup [pc : {"entered"}, code : Code]
    \cup [pc : {"login", "link", "password"}, code : Code, id : MaybeId]
    \cup [pc : {"read", "flushed", "moved"}, n : Nat, src : Id, tgt : Id, new : BOOLEAN,
          email : MaybeEmail, from : MaybeId, onto : MaybeId, active : MaybeId,
          anchor : MaybeId, at : Nat, subs : SUBSET Id, payments : SUBSET Payment]
    \cup [pc : {"pay"}, payment : Payment, id : Id, panel : Id, end : Nat,
          loaded : BOOLEAN, at : Nat]

TypeOK ==
    /\ now \in Nat
    /\ row \in [Id -> User \cup {None}]
    /\ sub \in [Id -> Subscription \cup {None}]
    /\ payment \in [Payment -> Invoice \cup {None}]
    /\ ticket \subseteq Id /\ codes \subseteq Code
    /\ req \in [Req -> Request]
    /\ placed \subseteq Payment
    /\ claimed \in [Email -> MaybeId]
    /\ due \in [Id -> Nat] /\ overlap \subseteq Id
    /\ refused \subseteq {"conflict", "constraint"}

Init ==
    /\ now = 0
    /\ row = [i \in Id |-> None] /\ sub = [i \in Id |-> None]
    /\ payment = [p \in Payment |-> None]
    /\ ticket = {} /\ codes = {}
    /\ req = [r \in Req |-> Idle]
    /\ placed = {} /\ claimed = [m \in Email |-> None]
    /\ due = [i \in Id |-> 0] /\ overlap = {} /\ refused = {}

Later(a, b) == IF a > b THEN a ELSE b

Exists(i) == row[i] # None

\* get_user_by_email
UserOf(email) ==
    IF \E i \in Id : Exists(i) /\ row[i].email = email
    THEN CHOOSE i \in Id : Exists(i) /\ row[i].email = email ELSE None

\* Of a set of subscriptions the one that ends last.
Last(i, S) == \A j \in S : sub[j].end <= sub[i].end

LastOf(S) == IF \E i \in S : Last(i, S) THEN CHOOSE i \in S : Last(i, S) ELSE None

SubsOf(id) == {i \in Id : sub[i] # None /\ sub[i].owner = id}

OnPanel(id, panel) == {i \in SubsOf(id) : panel = None \/ sub[i].panel = panel}

\* get_active_subscription_by_user_id
ActiveOf(id, panel) == LastOf({i \in OnPanel(id, panel) : sub[i].active /\ sub[i].end > now})

(***************************************************************************)
(* Rows under locks, and transactions that overlap.                        *)
(***************************************************************************)

Merging(r) == req[r].pc \in {"read", "flushed", "moved"}

Writing(r) == req[r].pc \in {"flushed", "moved"}

\* Mutant: the source's identities are not cleared first, and its row is not locked.
SourceLockedNever(i) == FALSE

\* The UPDATE of a unique column keeps out rows that refer to the user.
SourceLocked(i) == \E r \in Req : Writing(r) /\ req[r].src = i

\* A row not committed yet that refers to the user, and a panel user just made for
\* it, keep out that UPDATE.
Referred(i) ==
    \E r \in Req :
       \/ req[r].pc = "ask" /\ req[r].code.to = i
       \/ req[r].pc = "pay" /\ req[r].id = i /\ Exists(i) /\ row[i].panel = None

\* The row of the Telegram user, not committed yet.
Appearing(i) == \E r \in Req : Merging(r) /\ req[r].new /\ req[r].tgt = i

SubLocked(i) == \E r \in Req : Writing(r) /\ i \in {req[r].active, req[r].anchor} \cup req[r].subs

CodeLocked(n) ==
    \E r \in Req : \/ req[r].pc \in {"login", "link", "password"} /\ req[r].code.n = n
                   \/ Merging(r) /\ req[r].n = n

\* Accounts whose email or days a request is about to change.
Touched(r) ==
    IF Merging(r) THEN {req[r].src, req[r].tgt}
    ELSE IF req[r].pc \in {"link", "pay"} THEN {req[r].id} ELSE {}

Overlapping(ids) ==
    LET others == {r \in Req : Touched(r) \cap ids # {}}
    IN  IF others = {} THEN overlap ELSE overlap \cup ids \cup UNION {Touched(r) : r \in others}

(***************************************************************************)
(* Accounts, invoices, payments and tickets.                               *)
(***************************************************************************)

Pass ==
    /\ now < MaxTime
    /\ now' = now + 1
    /\ UNCHANGED <<tables, req, history>>

\* /start, and a login with Telegram: ON CONFLICT DO NOTHING waits for the other.
Start ==
    /\ ~Exists(Tg) /\ ~Appearing(Tg)
    /\ row' = [row EXCEPT ![Tg] = [email |-> None, panel |-> None]]
    /\ UNCHANGED <<now, sub, payment, ticket, codes, req, history>>

\* Of accounts that may be merged away; an account by email has an email, and so
\* is never merged into one by email or with Telegram's as the source.
OpenTicket(i) ==
    /\ i \in EmailId /\ Exists(i) /\ ~SourceLocked(i)
    /\ ticket' = ticket \cup {i}
    /\ UNCHANGED <<now, row, sub, payment, codes, req, history>>

\* create_base_payment_record
Order(p, i) ==
    /\ p \notin placed
    /\ Exists(i) /\ ~SourceLocked(i)
    /\ payment' = [payment EXCEPT ![p] = [user |-> i, paid |-> FALSE]]
    /\ placed' = placed \cup {p}
    /\ UNCHANGED <<now, row, sub, ticket, codes, req, claimed, due, overlap, refused>>

\* activate_subscription, up to its first write to subscriptions.
BeginPay(r, p) ==
    /\ req[r] = Idle
    /\ payment[p] # None /\ ~payment[p].paid
    /\ \A x \in Req : req[x].pc = "pay" => req[x].payment # p
    /\ LET i == payment[p].user
           panel == IF row[i].panel = None THEN i ELSE row[i].panel
           base == ActiveOf(i, panel)
       IN  /\ row[i].panel = None => (i = Tg \/ EmailPanels) /\ ~SourceLocked(i)
           /\ req' = [req EXCEPT ![r] =
                 [pc |-> "pay", payment |-> p, id |-> i, panel |-> panel, loaded |-> base = panel,
                  end |-> Term + (IF base = None THEN now ELSE sub[base].end), at |-> now]]
           /\ overlap' = Overlapping({i})
    /\ UNCHANGED <<now, tables, placed, claimed, due, refused>>

\* A row that was loaded as running is only given its new end.
CommitPay(r) ==
    /\ req[r].pc = "pay"
    /\ LET q == req[r]
           paidFor == [owner |-> q.id, panel |-> q.panel, end |-> q.end, active |-> TRUE]
           others == {i \in Id : sub[i] # None /\ sub[i].panel = q.panel /\ i # q.panel}
       IN  /\ Exists(q.id) \/ q.loaded
           /\ \A i \in others \cup {q.panel} : ~SubLocked(i)
           /\ ~SourceLocked(q.id) \/ q.loaded
           /\ sub' = [i \in Id |->
                 IF i = q.panel THEN IF q.loaded THEN [sub[i] EXCEPT !.end = q.end] ELSE paidFor
                 ELSE IF i \in others THEN [sub[i] EXCEPT !.active = FALSE] ELSE sub[i]]
           /\ row' = IF q.loaded THEN row ELSE [row EXCEPT ![q.id].panel = q.panel]
           /\ payment' = [payment EXCEPT ![q.payment].paid = TRUE]
           /\ due' = [due EXCEPT ![q.id] = Later(@, q.at) + Term]
    /\ req' = [req EXCEPT ![r] = Idle]
    /\ UNCHANGED <<now, ticket, codes, placed, claimed, overlap, refused>>

\* The workers clear is_active when a term is over.
Lapse(i) ==
    /\ sub[i] # None /\ sub[i].active /\ sub[i].end < now /\ ~SubLocked(i)
    /\ sub' = [sub EXCEPT ![i].active = FALSE]
    /\ overlap' = overlap \cup {j \in {sub[i].owner} : \E r \in Req : j \in Touched(r)}
    /\ UNCHANGED <<now, row, payment, ticket, codes, req, placed, claimed, due, refused>>

(***************************************************************************)
(* Codes.                                                                  *)
(***************************************************************************)

SameKey(c, email, purpose, to) == c.email = email /\ c.purpose = purpose /\ c.to = to

Usable(c) == ~c.superseded /\ ~c.consumed

\* _get_latest_code
Latest(c) ==
    /\ Usable(c)
    /\ \A d \in codes : SameKey(d, c.email, c.purpose, c.to) /\ Usable(d) => d.n <= c.n

Numbers == {c.n : c \in codes} \cup {req[r].code.n : r \in {x \in Req : req[x].pc = "ask"}}

\* The routes that mail a code.
MayAsk(email, purpose, to) ==
    \/ purpose = "login" /\ to = None
    \/ purpose = "link_email" /\ to # None /\ Exists(to) /\ row[to].email # email
    \/ purpose = "set_password" /\ to # None /\ Exists(to) /\ row[to].email = email

\* request_code: the codes before are superseded, the new one is inserted, and the
\* mail is sent before the commit.
Ask(r, email, purpose, to) ==
    /\ req[r] = Idle
    /\ MayAsk(email, purpose, to)
    /\ to # None => ~SourceLocked(to)
    /\ \E n \in 1..MaxCodes :
          /\ Numbers = 1..n - 1
          /\ req' = [req EXCEPT ![r] =
                [pc |-> "ask",
                 code |-> [n |-> n, email |-> email, purpose |-> purpose, to |-> to,
                           superseded |-> FALSE, consumed |-> FALSE],
                 old |-> {c.n : c \in {x \in codes : SameKey(x, email, purpose, to) /\ Usable(x)}}]]
    /\ UNCHANGED <<now, tables, history>>

CommitAsk(r) ==
    /\ req[r].pc = "ask"
    /\ codes' = {[c EXCEPT !.superseded = @ \/ c.n \in req[r].old] : c \in codes} \cup {req[r].code}
    /\ req' = [req EXCEPT ![r] = Idle]
    /\ UNCHANGED <<now, row, sub, payment, ticket, history>>

\* verify_code takes the newest code, verify_magic_token the one of the link.
Enter(r, c) ==
    /\ req[r] = Idle
    /\ Latest(c) \/ (c.purpose = "login" /\ Usable(c))
    /\ req' = [req EXCEPT ![r] = [pc |-> "entered", code |-> c]]
    /\ UNCHANGED <<now, tables, history>>

Consumed(n) == {IF c.n = n THEN [c EXCEPT !.consumed = TRUE] ELSE c : c \in codes}

(***************************************************************************)
(* merge_users                                                             *)
(***************************************************************************)

\* The anchor of the target's days.
AnchorOf(id, panel) == IF ActiveOf(id, panel) # None THEN ActiveOf(id, panel) ELSE LastOf(OnPanel(id, panel))

EmailOf(i) == IF Exists(i) THEN row[i].email ELSE None

PanelOf(i) == IF Exists(i) THEN row[i].panel ELSE None

\* Mutant: the source's email is not moved.
EmailToMoveNever(src, tgt) == None

\* email_to_move
EmailToMove(src, tgt) == IF EmailOf(tgt) = None THEN EmailOf(src) ELSE None

\* What is read before the first write; or 409.
BeginMerge(r, n, src, tgt) ==
    IF EmailOf(src) # None /\ EmailOf(tgt) \notin {None, EmailOf(src)}
    THEN /\ req' = [req EXCEPT ![r] = Idle]
         /\ refused' = refused \cup {"conflict"}
         /\ UNCHANGED overlap
    ELSE /\ req' = [req EXCEPT ![r] =
               [pc |-> "read", n |-> n, src |-> src, tgt |-> tgt, new |-> ~Exists(tgt),
                email |-> EmailToMove(src, tgt),
                from |-> PanelOf(src), onto |-> PanelOf(tgt),
                active |-> ActiveOf(src, PanelOf(src)), anchor |-> AnchorOf(tgt, PanelOf(tgt)),
                at |-> now, subs |-> {}, payments |-> {}]]
         /\ overlap' = Overlapping({src, tgt})
         /\ UNCHANGED refused

\* The days, and the source without its identities.
FlushMerge(r) ==
    /\ req[r].pc = "read"
    /\ LET q == req[r]
       IN  /\ Exists(q.src)
           /\ ~SourceLocked(q.src) /\ ~Referred(q.src)
           /\ ~SubLocked(q.active) /\ ~SubLocked(q.anchor)
    /\ req' = [req EXCEPT ![r].pc = "flushed"]
    /\ UNCHANGED <<now, tables, history>>

\* The bulk updates.
MoveRows(r) ==
    /\ req[r].pc = "flushed"
    /\ LET q == req[r]
       IN  req' = [req EXCEPT ![r] =
              [q EXCEPT !.pc = "moved", !.subs = SubsOf(q.src),
                        !.payments = {p \in Payment : payment[p] # None /\ payment[p].user = q.src}]]
    /\ UNCHANGED <<now, tables, history>>

\* Unique panel_user_uuid: the target's row is updated before the source's is deleted.
PanelTwice(q) == q.onto = None /\ q.from # None

\* Foreign keys of the tables that are not moved.
StillReferred(q) == q.src \in ticket \/ \E c \in codes : c.to = q.src

RefuseMerge(r) ==
    /\ req[r].pc = "moved"
    /\ PanelTwice(req[r]) \/ StillReferred(req[r])
    /\ req' = [req EXCEPT ![r] = Idle]
    /\ refused' = refused \cup {"constraint"}
    /\ UNCHANGED <<now, tables, placed, claimed, due, overlap>>

\* Both run on the panel: the source's days are added and its row is closed.
Adds(q) == q.active # None /\ q.anchor # None /\ q.from # None /\ q.onto # None

\* Mutant: the target's days are counted from its old end.
SumFromEnd(q, target, source) == target + (source - q.at)

Sum(q, target, source) == Later(target, q.at) + (source - q.at)

MergedSub(q, i) ==
    LET s == IF i \in q.subs
             THEN [sub[i] EXCEPT !.owner = q.tgt,
                                 !.panel = IF q.onto # None THEN q.onto
                                           ELSE IF q.from # None THEN q.from ELSE @]
             ELSE sub[i]
    IN  IF ~Adds(q) THEN s
        ELSE IF i = q.active THEN [s EXCEPT !.active = FALSE]
        ELSE IF i = q.anchor
             THEN [s EXCEPT !.end = Sum(q, sub[i].end, sub[q.active].end), !.active = TRUE]
        ELSE s

\* Of the target's columns the email alone is written, if there was none; both users
\* have a panel user, or the source has none.
MergedUser(q) ==
    [email |-> IF q.email # None THEN q.email ELSE EmailOf(q.tgt), panel |-> PanelOf(q.tgt)]

\* The row is deleted, with what still refers to it by an ORM cascade.
CommitMerge(r) ==
    /\ req[r].pc = "moved"
    /\ ~PanelTwice(req[r]) /\ ~StillReferred(req[r])
    /\ LET q == req[r]
       IN  /\ Exists(q.tgt) \/ q.new
           /\ q.email # None => UserOf(q.email) \in {None, q.src, q.tgt}
           /\ row' = [row EXCEPT ![q.src] = None, ![q.tgt] = MergedUser(q)]
           /\ sub' = [i \in Id |->
                 IF sub[i] # None /\ sub[i].owner = q.src /\ i \notin q.subs THEN None
                 ELSE IF sub[i] = None THEN None ELSE MergedSub(q, i)]
           /\ payment' = [p \in Payment |->
                 IF p \in q.payments THEN [payment[p] EXCEPT !.user = q.tgt]
                 ELSE IF payment[p] # None /\ payment[p].user = q.src THEN None ELSE payment[p]]
           /\ codes' = Consumed(q.n)
           /\ due' = [due EXCEPT ![q.src] = 0,
                         ![q.tgt] = IF due[q.src] > q.at THEN Later(@, q.at) + due[q.src] - q.at ELSE @]
           /\ overlap' = IF q.src \in overlap THEN overlap \cup {q.tgt} ELSE overlap
           /\ claimed' = [m \in Email |-> IF claimed[m] = q.src THEN q.tgt ELSE claimed[m]]
    /\ req' = [req EXCEPT ![r] = Idle]
    /\ UNCHANGED <<now, ticket, placed, refused>>

(***************************************************************************)
(* The routes that a code opens, and Telegram.                             *)
(***************************************************************************)

\* consumed_at is flushed, which waits for another verification, and users are read.
Verify(r) ==
    /\ req[r].pc = "entered"
    /\ ~CodeLocked(req[r].code.n)
    /\ LET c == req[r].code
           found == UserOf(c.email)
           Go(pc, id) == /\ req' = [req EXCEPT ![r] = [pc |-> pc, code |-> c, id |-> id]]
                         /\ UNCHANGED refused
       IN  \/ c.purpose = "login" /\ Go("login", found) /\ UNCHANGED overlap
           \/ c.purpose = "set_password" /\ Exists(c.to) /\ Go("password", c.to) /\ UNCHANGED overlap
           \/ /\ c.purpose = "link_email" /\ Exists(c.to)
              /\ IF found \in {None, c.to}
                 THEN Go("link", c.to) /\ overlap' = Overlapping({c.to})
                 ELSE BeginMerge(r, c.n, found, c.to)
    /\ UNCHANGED <<now, tables, placed, claimed, due>>

\* email_auth_verify_route, email_auth_magic_route
CommitLogin(r) ==
    /\ req[r].pc = "login"
    /\ LET m == req[r].code.email
       IN  \/ req[r].id # None /\ UNCHANGED <<row, claimed>>
           \/ /\ req[r].id = None /\ UserOf(m) = None
              /\ \E i \in EmailId :
                    /\ ~Exists(i)
                    /\ row' = [row EXCEPT ![i] = [email |-> m, panel |-> None]]
                    /\ claimed' = [claimed EXCEPT ![m] = i]
    /\ codes' = Consumed(req[r].code.n)
    /\ req' = [req EXCEPT ![r] = Idle]
    /\ UNCHANGED <<now, sub, payment, ticket, placed, due, overlap, refused>>

\* account_email_verify_route, for an email of nobody else.
CommitLink(r) ==
    /\ req[r].pc = "link"
    /\ LET m == req[r].code.email
           i == req[r].id
       IN  /\ Exists(i) /\ ~SourceLocked(i) /\ UserOf(m) \in {None, i}
           /\ row' = [row EXCEPT ![i].email = m]
           /\ claimed' = [x \in Email |-> IF x = m THEN i ELSE IF claimed[x] = i THEN None ELSE claimed[x]]
    /\ codes' = Consumed(req[r].code.n)
    /\ req' = [req EXCEPT ![r] = Idle]
    /\ UNCHANGED <<now, sub, payment, ticket, placed, due, overlap, refused>>

\* account_password_confirm_route
CommitPassword(r) ==
    /\ req[r].pc = "password"
    /\ Exists(req[r].id) /\ ~SourceLocked(req[r].id)
    /\ codes' = Consumed(req[r].code.n)
    /\ req' = [req EXCEPT ![r] = Idle]
    /\ UNCHANGED <<now, row, sub, payment, ticket, history>>

\* account_telegram_link_route, for an account by email.  A row for the Telegram
\* user is inserted if there is none.
LinkTelegram(r, i) ==
    /\ req[r] = Idle
    /\ i \in EmailId /\ Exists(i)
    /\ ~Exists(Tg) => ~Appearing(Tg)
    /\ BeginMerge(r, 0, i, Tg)
    /\ UNCHANGED <<now, tables, placed, claimed, due>>

\* Mutant: the transaction ends with its rows in hand.
FailKeepsRows(r) ==
    /\ req[r] # Idle
    /\ req' = [req EXCEPT ![r].pc = "idle"]
    /\ UNCHANGED <<now, tables, history>>

\* The transaction is rolled back: what it had read is gone, a unique column is taken
\* meanwhile, any exception, the end of the process.  A code it used is still good.
Fail(r) ==
    /\ req[r] # Idle
    /\ req' = [req EXCEPT ![r] = Idle]
    /\ UNCHANGED <<now, tables, history>>

Next ==
    \/ Pass \/ Start
    \/ \E i \in Id : OpenTicket(i) \/ Lapse(i) \/ \E p \in Payment : Order(p, i)
    \/ \E r \in Req :
          \/ \E p \in Payment : BeginPay(r, p)
          \/ \E m \in Email, to \in MaybeId, purpose \in {"login", "link_email", "set_password"} :
                Ask(r, m, purpose, to)
          \/ \E c \in codes : Enter(r, c)
          \/ \E i \in Id : LinkTelegram(r, i)
          \/ CommitPay(r) \/ CommitAsk(r) \/ Verify(r)
          \/ CommitLogin(r) \/ CommitLink(r) \/ CommitPassword(r)
          \/ FlushMerge(r) \/ MoveRows(r) \/ RefuseMerge(r) \/ CommitMerge(r)
          \/ Fail(r)

Spec == Init /\ [][Next]_vars

(***************************************************************************)
(* Properties.                                                             *)
(***************************************************************************)

\* An invoice that was created is never lost and belongs to an account, though the
\* row it refers to is deleted with a cascade.
PaymentsKept == \A p \in placed : payment[p] # None /\ Exists(payment[p].user)

\* What an account has paid for, before merges and after them, it runs to the end,
\* unless two transactions changed it at a time.
DaysKept ==
    \A i \in Id \ overlap :
       due[i] > now => /\ Exists(i)
                       /\ \E j \in OnPanel(i, row[i].panel) : sub[j].active /\ sub[j].end = due[i]

\* An email that was proved for an account stays with it, or with the account it was
\* merged into, until another is linked, unless two transactions changed it at a time.
EmailKept ==
    \A m \in Email :
       claimed[m] # None /\ claimed[m] \notin overlap =>
          Exists(claimed[m]) /\ row[claimed[m]].email = m

\* A link that does not bring two different emails together is carried out.
RefusedForConflict == "constraint" \notin refused

================================================================================
