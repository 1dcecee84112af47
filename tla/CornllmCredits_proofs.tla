------------------------- MODULE CornllmCredits_proofs -------------------------
(***************************************************************************)
(* Proofs about CornllmCredits, for every set of rows, clients and tariffs *)
(* and every value of the credits, the month and the bounds.               *)
(***************************************************************************)
EXTENDS CornllmCredits, TLAPS

USE DEF history, counters

Position == {"select", "open", "flushed", "granted", "refused"}

LEMMA Requests == /\ Request = {Idle} \cup Charge \cup Gift
                  /\ \A r \in Charge \cup Gift : r # Idle /\ r.pc # "idle"
                  /\ Idle.pc = "idle"
<1>1. \A r \in Charge \cup Gift : r # Idle /\ r.pc # "idle"
  BY DEF Charge, Gift, Change, Idle
<1> QED BY <1>1 DEF Request, Idle

\* A transaction that holds a lock or has granted is a payment or a switch.
LEMMA RequestOpen ==
    ASSUME TypeOK, NEW c \in Client, req[c].pc # "idle"
    PROVE  /\ req[c] \in Charge \cup Gift /\ req[c] # Idle
           /\ req[c].pc \notin {"select", "open"} => req[c] \in Charge
           /\ req[c].kind # "gift" => req[c] \in Charge
<1>1. req[c] \in Charge \cup Gift /\ req[c] # Idle
  BY Requests DEF TypeOK
<1>2. \A r \in Gift : r.pc \in {"select", "open"} /\ r.kind = "gift"
  BY DEF Gift, Change
<1> QED BY <1>1, <1>2

\* What a transaction holds.
LEMMA RequestTyped ==
    ASSUME TypeOK, NEW c \in Client, req[c].pc # "idle"
    PROVE  /\ req[c].sub \in Sub /\ req[c].tariff \in Tariff \cup {NoTariff}
           /\ req[c].end \in Date /\ req[c].at \in Date
           /\ req[c].kind \in {"payment", "switch", "gift"}
           /\ req[c].pc \in Position
           /\ req[c].pc \notin {"select", "open"} =>
                 req[c].tariff \in Tariff /\ req[c].kind \in {"payment", "switch"}
<1>1. req[c] \in Charge \cup Gift /\ (req[c].pc \notin {"select", "open"} => req[c] \in Charge)
  BY RequestOpen
<1>2. \A r \in Charge : /\ r.sub \in Sub /\ r.tariff \in Tariff /\ r.end \in Date /\ r.at \in Date
                        /\ r.kind \in {"payment", "switch"} /\ r.pc \in Position
  BY DEF Charge, Change, Position
<1>3. \A r \in Gift : /\ r.sub \in Sub /\ r.tariff \in Tariff \cup {NoTariff} /\ r.end \in Date
                      /\ r.at \in Date /\ r.kind = "gift" /\ r.pc \in Position
  BY DEF Gift, Change, Position
<1> QED BY <1>1, <1>2, <1>3

LEMMA Dates == /\ \A d \in Date : d # Never => d \in Nat
               /\ \A d \in Nat : d \in Date /\ d # Never
               /\ Never \in Date
BY DEF Date, Never

LEMMA Credits == /\ \A t \in Tariff : Credit[t] \in Nat /\ t # NoTariff
                 /\ Month \in Nat /\ Month > 0
BY CreditAssumption, TimeAssumption

LEMMA InitTypeOK == Init => TypeOK
<1> SUFFICES ASSUME Init PROVE TypeOK
  OBVIOUS
<1>1. [end |-> 1, active |-> TRUE, tariff |-> NoTariff, at |-> Never, amount |-> Never] \in Row
  BY Dates DEF Row
<1>2. row \in [Sub -> Row]
  BY <1>1 DEF Init
<1> QED BY <1>2, CreditAssumption, Requests DEF Init, TypeOK

LEMMA NextAtType ==
    ASSUME NEW start \in Nat, NEW months, NEW t \in Tariff
    PROVE  NextAt(start, months, t) \in Date
<1>1. start + Month \in Nat
  BY Credits
<1> QED BY <1>1, Dates DEF NextAt

LEMMA CalledType ==
    ASSUME TypeOK, NEW c \in Client, req[c].pc = "flushed", NEW p \in {"granted", "refused"}, Called(c, p)
    PROVE  req' \in [Client -> Request]
<1> DEFINE at == IF req[c].kind = "payment" THEN req[c].at
                 ELSE IF Credit[req[c].tariff] > 0 THEN now + Month ELSE Never
<1>1. req[c] \in Charge
  BY RequestOpen
<1>2. at \in Date
  <2>1. now + Month \in Nat
    BY Credits DEF TypeOK
  <2> QED BY <1>1, <2>1, Dates DEF Charge, Change
<1>3. [req[c] EXCEPT !.pc = p, !.at = at] \in Charge
  BY <1>1, <1>2 DEF Charge, Change
<1> QED BY <1>3, Requests DEF Called, TypeOK

LEMMA FlushedType ==
    ASSUME TypeOK, NEW c \in Client, req[c].pc # "idle"
    PROVE  /\ Flushed(req[c]) \in Row
           /\ Flushed(req[c]).at = row[req[c].sub].at /\ Flushed(req[c]).amount = row[req[c].sub].amount
           /\ Flushed(req[c]).end = IF req[c].end = Never THEN row[req[c].sub].end ELSE req[c].end
           /\ Flushed(req[c]).tariff \in {row[req[c].sub].tariff, req[c].tariff}
<1> DEFINE r == req[c]
           old == row[r.sub]
           end == IF r.end = Never THEN old.end ELSE r.end
           active == IF r.was.active THEN old.active ELSE TRUE
           tariff == IF TariffStays(r) THEN old.tariff ELSE r.tariff
<1>1. old \in Row /\ r.end \in Date /\ r.tariff \in Tariff \cup {NoTariff}
  BY RequestTyped DEF TypeOK
<1>2. Flushed(r) = [old EXCEPT !.end = end, !.active = active, !.tariff = tariff]
  BY DEF Flushed
<1>3. end \in Nat /\ active \in BOOLEAN /\ tariff \in Tariff \cup {NoTariff}
      /\ tariff \in {old.tariff, r.tariff}
  BY <1>1, Dates DEF Row
<1>4. end = IF r.end = Never THEN old.end ELSE r.end
  OBVIOUS
<1> HIDE DEF r, old, end, active, tariff
<1>5. /\ Flushed(r) \in Row /\ Flushed(r).at = old.at /\ Flushed(r).amount = old.amount
      /\ Flushed(r).end = end /\ Flushed(r).tariff = tariff
  BY <1>1, <1>2, <1>3 DEF Row
<1>6. Flushed(r).tariff \in {old.tariff, r.tariff}
  BY <1>3, <1>5
<1> QED BY <1>4, <1>5, <1>6 DEF r, old

\* What a commit leaves in the row.
LEMMA CommitRow ==
    ASSUME TypeOK, NEW c \in Client, Commit(c)
    PROVE  /\ row' \in [Sub -> Row]
           /\ \A s \in Sub : s # req[c].sub => row'[s] = row[s]
           /\ row'[req[c].sub].at = req[c].at
           /\ row'[req[c].sub].amount = IF req[c].at = Never THEN Never ELSE Credit[req[c].tariff]
           /\ row'[req[c].sub].end = IF req[c].end = Never THEN row[req[c].sub].end ELSE req[c].end
           /\ req[c].sub \notin torn' => row'[req[c].sub].tariff = req[c].tariff
<1> DEFINE r == req[c]
           s == r.sub
           new == Flushed(r)
           amount == IF r.at = Never THEN Never ELSE Credit[r.tariff]
<1>1. s \in Sub /\ r.at \in Date /\ r.tariff \in Tariff
  BY RequestTyped DEF Commit
<1>2. amount \in Date
  BY <1>1, Credits, Dates
<1>3. new \in Row /\ new.end = IF r.end = Never THEN row[s].end ELSE r.end
  BY FlushedType DEF Commit
<1>4. /\ row' = [row EXCEPT ![s] = [new EXCEPT !.at = r.at, !.amount = amount]]
      /\ torn' = IF new.tariff = r.tariff THEN torn \ {s} ELSE torn \cup {s}
  BY DEF Commit
<1>5. amount = IF r.at = Never THEN Never ELSE Credit[r.tariff]
  OBVIOUS
<1> HIDE DEF r, s, new, amount
<1>6. [new EXCEPT !.at = r.at, !.amount = amount] \in Row
  BY <1>1, <1>2, <1>3 DEF Row
<1>7. /\ row'[s] = [new EXCEPT !.at = r.at, !.amount = amount]
      /\ row' \in [Sub -> Row] /\ \A x \in Sub : x # s => row'[x] = row[x]
  BY <1>1, <1>4, <1>6 DEF TypeOK
<1>8. /\ row'[s].at = r.at /\ row'[s].amount = amount /\ row'[s].end = new.end
      /\ row'[s].tariff = new.tariff
  BY <1>3, <1>7 DEF Row
<1>9. s \notin torn' => new.tariff = r.tariff
  BY <1>4
<1>10. /\ row'[s].amount = IF r.at = Never THEN Never ELSE Credit[r.tariff]
       /\ row'[s].end = IF r.end = Never THEN row[s].end ELSE r.end
       /\ s \notin torn' => row'[s].tariff = r.tariff
  BY <1>3, <1>5, <1>8, <1>9
<1> QED BY <1>7, <1>8, <1>10 DEF r, s

\* What given days leave in the row.
LEMMA GiftRow ==
    ASSUME TypeOK, NEW c \in Client, GiveDays(c)
    PROVE  /\ row' \in [Sub -> Row]
           /\ \A s \in Sub : s # req[c].sub => row'[s] = row[s]
           /\ \A s \in Sub : row'[s].at = row[s].at /\ row'[s].amount = row[s].amount
           /\ \A s \in Sub : s \in torn' \/ row'[s].tariff \in {row[s].tariff, NoTariff}
           /\ torn \subseteq torn' /\ torn' \subseteq Sub /\ moved' = moved \cup {req[c].sub}
           /\ req[c].sub \in Sub
<1> DEFINE s == req[c].sub
           new == Flushed(req[c])
<1>1. s \in Sub
  BY RequestTyped DEF GiveDays
<1>2. new \in Row /\ new.at = row[s].at /\ new.amount = row[s].amount
  BY FlushedType DEF GiveDays
<1>3. /\ row' = [row EXCEPT ![s] = new] /\ moved' = moved \cup {s}
      /\ torn' = IF new.tariff \in {row[s].tariff, NoTariff} THEN torn ELSE torn \cup {s}
  BY DEF GiveDays
<1> HIDE DEF s, new
<1>4. row'[s] = new /\ row' \in [Sub -> Row] /\ \A x \in Sub : x # s => row'[x] = row[x]
  BY <1>1, <1>2, <1>3 DEF TypeOK
<1>5. \A x \in Sub : row'[x].at = row[x].at /\ row'[x].amount = row[x].amount
  BY <1>2, <1>4
<1>6. \A x \in Sub : x \in torn' \/ row'[x].tariff \in {row[x].tariff, NoTariff}
  BY <1>3, <1>4
<1>7. torn \subseteq torn' /\ torn' \subseteq Sub
  BY <1>1, <1>3 DEF TypeOK
<1> QED BY <1>1, <1>3, <1>4, <1>5, <1>6, <1>7 DEF s

(***************************************************************************)
(* Steps of a transaction before its grant.                                *)
(***************************************************************************)

Begins(c) ==
    \/ \E s \in Sub, t \in Tariff, m \in Months : BeginPayment(c, s, t, m)
    \/ \E s \in Sub, t \in Tariff : \E end \in {Never, now, row[s].end + 1} : BeginSwitch(c, s, t, end)
    \/ \E s \in Sub, t \in Tariff \cup {NoTariff} : BeginGift(c, s, t)

\* What a transaction is when it begins.
LEMMA Begun ==
    ASSUME TypeOK, NEW c \in Client, Begins(c)
    PROVE  /\ \A d \in Client \ {c} : req'[d] = req[d]
           /\ req[c].pc = "idle" /\ req'[c].pc \in {"select", "open"}
           /\ req'[c] \in Charge \cup Gift
           /\ UNCHANGED <<now, row, granted, grantedAt, worker, batch, bumps, history, faults>>
           /\ changes' \in Nat
<1>1. req[c] = Idle /\ req[c].pc = "idle" /\ changes' \in Nat
      /\ UNCHANGED <<now, row, granted, grantedAt, worker, batch, bumps, history, faults>>
  BY Requests DEF Begins, BeginPayment, BeginSwitch, BeginGift, TypeOK
<1>2. PICK r : req' = [req EXCEPT ![c] = r] /\ r \in Charge \cup Gift /\ r.pc \in {"select", "open"}
  <2>1. ASSUME NEW s \in Sub PROVE /\ Loading(s) \in {"select", "open"} /\ Live(s) \in BOOLEAN
                                    /\ Loaded(s) \in [active : BOOLEAN, tariff : Tariff \cup {NoTariff}]
                                    /\ row[s].end \in Nat /\ now \in Nat
    BY DEF Loading, Live, Loaded, TypeOK, Row
  <2>2. ASSUME NEW s \in Sub, NEW t \in Tariff, NEW m \in Months, BeginPayment(c, s, t, m)
        PROVE  \E r \in Charge \cup Gift : req' = [req EXCEPT ![c] = r] /\ r.pc \in {"select", "open"}
    <3> DEFINE start == IF Live(s) THEN row[s].end ELSE now
               new == [pc |-> Loading(s), kind |-> "payment", sub |-> s, was |-> Loaded(s), tariff |-> t,
                       end |-> start + m * Month, at |-> NextAt(start, m, t), early |-> Live(s)]
    <3>1. start \in Nat
      BY <2>1
    <3>2. req' = [req EXCEPT ![c] = new]
      BY <2>2 DEF BeginPayment
    <3> HIDE DEF start
    <3>3. start + m * Month \in Date
      <4>1. m \in Nat /\ Month \in Nat
        BY TimeAssumption
      <4>2. m * Month \in Nat
        BY <4>1
      <4> QED BY <3>1, <4>2, Dates
    <3>4. NextAt(start, m, t) \in Date
      BY <3>1, NextAtType
    <3>5. new \in Charge /\ new.pc \in {"select", "open"}
      BY <2>1, <3>3, <3>4 DEF Charge, Change
    <3> QED BY <3>2, <3>5
  <2>3. ASSUME NEW s \in Sub, NEW t \in Tariff, NEW end \in {Never, now, row[s].end + 1},
               BeginSwitch(c, s, t, end)
        PROVE  \E r \in Charge \cup Gift : req' = [req EXCEPT ![c] = r] /\ r.pc \in {"select", "open"}
    <3> DEFINE new == [pc |-> "open", kind |-> "switch", sub |-> s, was |-> Loaded(s), tariff |-> t,
                       end |-> end, at |-> Never, early |-> FALSE]
    <3>1. end \in Date
      BY <2>1, Dates
    <3>2. new \in Charge /\ new.pc = "open"
      BY <2>1, <3>1, Dates DEF Charge, Change
    <3> QED BY <2>3, <3>2 DEF BeginSwitch
  <2>4. ASSUME NEW s \in Sub, NEW t \in Tariff \cup {NoTariff}, BeginGift(c, s, t)
        PROVE  \E r \in Charge \cup Gift : req' = [req EXCEPT ![c] = r] /\ r.pc \in {"select", "open"}
    <3> DEFINE end == 1 + (IF Live(s) THEN row[s].end ELSE now)
               new == [pc |-> Loading(s), kind |-> "gift", sub |-> s, was |-> Loaded(s), tariff |-> t,
                       end |-> end, at |-> Never, early |-> Live(s)]
    <3>1. end \in Date
      <4>1. end \in Nat
        BY <2>1
      <4> QED BY <4>1, Dates
    <3>2. req' = [req EXCEPT ![c] = new]
      BY <2>4 DEF BeginGift
    <3> HIDE DEF end
    <3>3. new \in Gift /\ new.pc \in {"select", "open"}
      BY <2>1, <3>1, Dates DEF Gift, Change
    <3> QED BY <3>2, <3>3
  <2> QED BY <2>2, <2>3, <2>4 DEF Begins
<1> QED BY <1>1, <1>2 DEF TypeOK

\* Select and Flush keep what the transaction will write.
LEMMA Moved ==
    ASSUME TypeOK, NEW c \in Client, Select(c) \/ Flush(c)
    PROVE  /\ \A d \in Client \ {c} : req'[d] = req[d]
           /\ req[c].pc \in {"select", "open"}
           /\ req'[c].pc = IF req[c].pc = "select" THEN "open" ELSE "flushed"
           /\ req'[c].pc = "flushed" => \A d \in Client : ~Holds(d, req[c].sub)
           /\ req'[c] \in Charge \cup Gift
           /\ req'[c].sub = req[c].sub /\ req'[c].kind = req[c].kind /\ req'[c].tariff = req[c].tariff
           /\ req'[c].end = req[c].end /\ req'[c].at = req[c].at /\ req'[c].early = req[c].early
           /\ UNCHANGED <<now, row, granted, grantedAt, worker, batch, bumps, history, counters>>
<1>1. req[c] \in Charge \cup Gift /\ req[c].sub \in Sub
  BY RequestOpen, RequestTyped DEF Select, Flush
<1>2. CASE Select(c)
  <2>1. Loaded(req[c].sub) \in [active : BOOLEAN, tariff : Tariff \cup {NoTariff}]
    BY <1>1 DEF Loaded, TypeOK, Row
  <2> DEFINE was == Loaded(req[c].sub)
             new == [req[c] EXCEPT !.pc = "open", !.was = was]
  <2>2. req' = [req EXCEPT ![c] = new] /\ req[c].pc = "select"
        /\ UNCHANGED <<now, row, granted, grantedAt, worker, batch, bumps, history, counters>>
    BY <1>2 DEF Select
  <2> HIDE DEF was
  <2>3. /\ new \in Charge \cup Gift /\ new.pc = "open"
        /\ new.sub = req[c].sub /\ new.kind = req[c].kind /\ new.tariff = req[c].tariff
        /\ new.end = req[c].end /\ new.at = req[c].at /\ new.early = req[c].early
    BY <1>1, <2>1 DEF was, Charge, Gift, Change
  <2> HIDE DEF new
  <2>4. req'[c] = new /\ \A d \in Client \ {c} : req'[d] = req[d]
    BY <2>2 DEF TypeOK
  <2> QED BY <2>2, <2>3, <2>4
<1>3. CASE Flush(c)
  <2> DEFINE new == [req[c] EXCEPT !.pc = "flushed"]
  <2>1. /\ req' = [req EXCEPT ![c] = new] /\ req[c].pc = "open" /\ req[c].kind # "gift"
        /\ \A d \in Client : ~Holds(d, req[c].sub)
        /\ UNCHANGED <<now, row, granted, grantedAt, worker, batch, bumps, history, counters>>
    BY <1>3 DEF Flush, Unlocked
  <2>2. req[c] \in Charge
    BY <2>1, RequestOpen
  <2>3. /\ new \in Charge /\ new.pc = "flushed"
        /\ new.sub = req[c].sub /\ new.kind = req[c].kind /\ new.tariff = req[c].tariff
        /\ new.end = req[c].end /\ new.at = req[c].at /\ new.early = req[c].early
    BY <2>2 DEF Charge, Change
  <2> HIDE DEF new
  <2>4. req'[c] = new /\ \A d \in Client \ {c} : req'[d] = req[d]
    BY <2>1 DEF TypeOK
  <2> QED BY <2>1, <2>3, <2>4
<1> QED BY <1>2, <1>3

\* The transaction after its call.
LEMMA CalledRequest ==
    ASSUME TypeOK, NEW c \in Client, req[c].pc = "flushed", NEW p \in {"granted", "refused"}, Called(c, p)
    PROVE  /\ \A d \in Client \ {c} : req'[d] = req[d]
           /\ req'[c].pc = p /\ req'[c].sub = req[c].sub /\ req'[c].tariff = req[c].tariff
           /\ req'[c].kind = req[c].kind /\ req'[c].end = req[c].end /\ req'[c].early = req[c].early
           /\ req'[c].at = IF req[c].kind = "payment" THEN req[c].at
                           ELSE IF Credit[req[c].tariff] > 0 THEN now + Month ELSE Never
<1> DEFINE at == IF req[c].kind = "payment" THEN req[c].at
                 ELSE IF Credit[req[c].tariff] > 0 THEN now + Month ELSE Never
<1>1. req[c] \in Charge
  BY RequestOpen
<1>2. req' = [req EXCEPT ![c] = [req[c] EXCEPT !.pc = p, !.at = at]]
  BY DEF Called
<1> HIDE DEF at
<1>3. req'[c] = [req[c] EXCEPT !.pc = p, !.at = at]
  BY <1>2 DEF TypeOK
<1>4. /\ req'[c].pc = p /\ req'[c].sub = req[c].sub /\ req'[c].tariff = req[c].tariff
      /\ req'[c].kind = req[c].kind /\ req'[c].end = req[c].end /\ req'[c].early = req[c].early
      /\ req'[c].at = at
  BY <1>1, <1>3 DEF Charge, Change
<1>5. \A d \in Client \ {c} : req'[d] = req[d]
  BY <1>2 DEF TypeOK
<1> QED BY <1>4, <1>5 DEF at

\* Of the steps a transaction takes, these leave everything but the request alone.
Quiet(c) ==
    /\ \A d \in Client \ {c} : req'[d] = req[d]
    /\ req[c].pc \in {"idle", "select", "open"} /\ req'[c].pc \in {"select", "open", "flushed"}
    /\ UNCHANGED <<now, row, granted, grantedAt, worker, batch, bumps, history>>

LEMMA QuietSteps ==
    ASSUME TypeOK, NEW c \in Client, Begins(c) \/ Select(c) \/ Flush(c)
    PROVE  Quiet(c)
<1>1. CASE Begins(c)
  BY <1>1, Begun DEF Quiet
<1>2. CASE Select(c) \/ Flush(c)
  BY <1>2, Moved DEF Quiet
<1> QED BY <1>1, <1>2

\* The end of a transaction.
LEMMA Ended ==
    ASSUME TypeOK, NEW c \in Client, GiveDays(c) \/ Commit(c) \/ Fail(c)
    PROVE  req'[c] = Idle /\ req'[c].pc = "idle" /\ \A d \in Client \ {c} : req'[d] = req[d]
BY Requests DEF GiveDays, Commit, Fail, TypeOK

\* The steps, as the proofs below take them.
LEMMA Steps ==
    ASSUME [Next]_vars
    PROVE  \/ Pass \/ TickBegins \/ TickCommits \/ TickFails \/ UNCHANGED vars
           \/ \E s \in Sub : Lapse(s)
           \/ \E c \in Client : \/ Begins(c) \/ Select(c) \/ Flush(c)
                              \/ GiveDays(c) \/ Grant(c) \/ GrantRefused(c) \/ Commit(c) \/ Fail(c)
           \/ \E b \in batch : MonthlyGrant(b) \/ MonthlyGrantRefused(b)
BY DEF Next, Begins

LEMMA BumpedType ==
    ASSUME NEW r \in Row, NEW b \in Bump
    PROVE  Bumped(r, b) \in Row
<1>1. b.at + Month \in Nat
  BY Credits DEF Bump
<1> QED BY <1>1, Dates DEF Bumped, Row

\* Every step keeps the type invariant.
LEMMA NextTypeOK == TypeOK /\ [Next]_vars => TypeOK'
<1> SUFFICES ASSUME TypeOK, [Next]_vars PROVE TypeOK'
  OBVIOUS
<1>1. CASE Pass
  BY <1>1 DEF Pass, TypeOK
<1>2. ASSUME NEW s \in Sub, Lapse(s) PROVE TypeOK'
  <2>1. row' \in [Sub -> Row]
    BY <1>2 DEF Lapse, TypeOK, Row
  <2> QED BY <1>2, <2>1 DEF Lapse, TypeOK
<1>3. ASSUME NEW c \in Client, Begins(c) PROVE TypeOK'
  <2>1. req' \in [Client -> Request]
    <3>1. req'[c] \in Request /\ \A d \in Client \ {c} : req'[d] = req[d]
      BY <1>3, Begun, Requests
    <3>2. \E r : req' = [req EXCEPT ![c] = r]
      BY <1>3 DEF Begins, BeginPayment, BeginSwitch, BeginGift
    <3> QED BY <3>1, <3>2 DEF TypeOK
  <2> QED BY <1>3, <2>1, Begun DEF TypeOK
<1>4. ASSUME NEW c \in Client, Select(c) \/ Flush(c) PROVE TypeOK'
  <2>1. req' \in [Client -> Request]
    <3>1. req'[c] \in Request /\ \A d \in Client \ {c} : req'[d] = req[d]
      BY <1>4, Moved, Requests
    <3>2. \E r : req' = [req EXCEPT ![c] = r]
      BY <1>4 DEF Select, Flush
    <3> QED BY <3>1, <3>2 DEF TypeOK
  <2> QED BY <1>4, <2>1, Moved DEF TypeOK
<1>5. ASSUME NEW c \in Client, GiveDays(c) PROVE TypeOK'
  <2>1. row' \in [Sub -> Row] /\ torn' \subseteq Sub /\ moved' \subseteq Sub
    BY <1>5, GiftRow DEF TypeOK
  <2>2. req' \in [Client -> Request]
    BY <1>5, Requests DEF GiveDays, TypeOK
  <2> QED BY <1>5, <2>1, <2>2 DEF GiveDays, TypeOK
<1>6. ASSUME NEW c \in Client, Grant(c) PROVE TypeOK'
  <2>1. req[c].sub \in Sub /\ req[c].tariff \in Tariff /\ req' \in [Client -> Request]
    BY <1>6, RequestTyped, CalledType DEF Grant
  <2>2. Credit[req[c].tariff] \in Nat
    BY <2>1, Credits
  <2> QED BY <1>6, <2>1, <2>2 DEF Grant, TypeOK
<1>7. ASSUME NEW c \in Client, GrantRefused(c) PROVE TypeOK'
  <2>1. req' \in [Client -> Request]
    BY <1>7, CalledType DEF GrantRefused
  <2> QED BY <1>7, <2>1 DEF GrantRefused, Fault, TypeOK
<1>8. ASSUME NEW c \in Client, Commit(c) PROVE TypeOK'
  <2>1. row' \in [Sub -> Row] /\ req[c].sub \in Sub
    BY <1>8, CommitRow, RequestTyped DEF Commit
  <2>2. req' \in [Client -> Request] /\ fired' \in [Sub -> SUBSET Nat]
    BY <1>8, Requests DEF Commit, TypeOK
  <2>3. torn' \subseteq Sub /\ crossed' \subseteq Sub /\ broken' \subseteq Sub /\ moved' \subseteq Sub
    BY <1>8, <2>1 DEF Commit, TypeOK
  <2> QED BY <1>8, <2>1, <2>2, <2>3 DEF Commit, TypeOK
<1>9. ASSUME NEW c \in Client, Fail(c) PROVE TypeOK'
  <2>1. broken' \subseteq Sub
    BY <1>9, RequestTyped DEF Fail, TypeOK
  <2>2. req' \in [Client -> Request]
    BY <1>9, Requests DEF Fail, TypeOK
  <2> QED BY <1>9, <2>1, <2>2 DEF Fail, Fault, TypeOK
<1>10. CASE TickBegins
  <2>1. \A s \in Sub : Due(s) => row[s].at \in Nat /\ row[s].amount \in Nat
    BY Dates DEF Due, TypeOK, Row
  <2>2. \A s \in Sub : Due(s) =>
           [sub |-> s, at |-> row[s].at, amount |-> row[s].amount, end |-> row[s].end] \in Bump
    BY <2>1 DEF Bump, TypeOK, Row
  <2>3. batch' \subseteq Bump
    BY <1>10, <2>2 DEF TickBegins
  <2> QED BY <1>10, <2>3 DEF TickBegins, TypeOK
<1>11. ASSUME NEW b \in batch, MonthlyGrant(b) PROVE TypeOK'
  <2>1. b \in Bump /\ b.sub \in Sub /\ b.amount \in Nat /\ b.at \in Nat
    BY DEF TypeOK, Bump
  <2>2. granted' \in [Sub -> Nat] /\ grantedAt' \in [Sub -> Nat] /\ fired' \in [Sub -> SUBSET Nat]
    BY <1>11, <2>1 DEF MonthlyGrant, TypeOK
  <2>3. broken' \subseteq Sub
    BY <1>11, <2>1 DEF MonthlyGrant, TypeOK
  <2> QED BY <1>11, <2>1, <2>2, <2>3 DEF MonthlyGrant, TypeOK
<1>12. ASSUME NEW b \in batch, MonthlyGrantRefused(b) PROVE TypeOK'
  BY <1>12 DEF MonthlyGrantRefused, Fault, TypeOK
<1>13. CASE TickCommits
  <2>1. \A s \in Sub : (\E b \in bumps : b.sub = s) => (CHOOSE b \in bumps : b.sub = s) \in Bump
    BY DEF TypeOK
  <2>2. row' \in [Sub -> Row]
    BY <1>13, <2>1, BumpedType DEF TickCommits, TypeOK
  <2> QED BY <1>13, <2>2 DEF TickCommits, TypeOK
<1>14. CASE TickFails
  <2>1. fired' \in [Sub -> SUBSET Nat]
    BY <1>14 DEF TickFails, TypeOK
  <2> QED BY <1>14, <2>1 DEF TickFails, Fault, TypeOK
<1>15. CASE UNCHANGED vars
  BY <1>15 DEF vars, TypeOK
<1> QED
  BY <1>1, <1>2, <1>3, <1>4, <1>5, <1>6, <1>7, <1>8, <1>9, <1>10, <1>11, <1>12, <1>13, <1>14, <1>15, Steps

\* The variables keep their types (payments, switches, given days and the monthly worker).
THEOREM Typing == Spec => []TypeOK
BY InitTypeOK, NextTypeOK, PTL DEF Spec

(***************************************************************************)
(* What the batch has loaded, and what the transactions will write.        *)
(***************************************************************************)

\* A date is written for a tariff with a credit.
DatesOfCredits ==
    \A c \in Client : req[c].pc # "idle" => req[c].at = Never \/ Credit[req[c].tariff] > 0

\* The batch agrees with the rows it has loaded, unless one was written meanwhile.
BatchAgrees ==
    \A b \in batch \cup bumps :
       \/ b.sub \in crossed
       \/ /\ row[b.sub].at = b.at /\ row[b.sub].amount = b.amount
          /\ b.sub \in moved \/ row[b.sub].end = b.end

LEMMA BatchTyped == TypeOK => \A b \in batch \cup bumps :
                                 b.sub \in Sub /\ b.at \in Nat /\ b.amount \in Nat /\ b.end \in Nat /\ b.at # Never
BY DEF TypeOK, Bump, Never

LEMMA RowTyped == TypeOK => \A s \in Sub : /\ row[s].end \in Nat /\ row[s].at \in Date /\ row[s].amount \in Date
                                           /\ row[s].tariff \in Tariff \cup {NoTariff}
BY DEF TypeOK, Row

LEMMA DatesOfCreditsStep == TypeOK /\ DatesOfCredits /\ [Next]_vars => DatesOfCredits'
<1> SUFFICES ASSUME TypeOK, DatesOfCredits, [Next]_vars, NEW d \in Client, req'[d].pc # "idle"
             PROVE  req'[d].at = Never \/ Credit[req'[d].tariff] > 0
  BY DEF DatesOfCredits
<1>1. CASE UNCHANGED req
  BY <1>1 DEF DatesOfCredits
<1>2. ASSUME NEW c \in Client, Begins(c) PROVE req'[d].at = Never \/ Credit[req'[d].tariff] > 0
  BY <1>2 DEF Begins, BeginPayment, BeginSwitch, BeginGift, NextAt, DatesOfCredits, TypeOK
<1>3. ASSUME NEW c \in Client, Select(c) \/ Flush(c)
      PROVE  req'[d].at = Never \/ Credit[req'[d].tariff] > 0
  <2>1. req[c].pc # "idle" /\ req'[c].at = req[c].at /\ req'[c].tariff = req[c].tariff
        /\ \A x \in Client \ {c} : req'[x] = req[x]
    BY <1>3, Moved
  <2> QED BY <2>1 DEF DatesOfCredits
<1>4. ASSUME NEW c \in Client, Grant(c) \/ GrantRefused(c)
      PROVE  req'[d].at = Never \/ Credit[req'[d].tariff] > 0
  <2>1. req[c].pc = "flushed" /\ \E p \in {"granted", "refused"} : Called(c, p)
    BY <1>4 DEF Grant, GrantRefused
  <2> QED BY <2>1, CalledRequest DEF DatesOfCredits
<1>5. ASSUME NEW c \in Client, GiveDays(c) \/ Commit(c) \/ Fail(c)
      PROVE  req'[d].at = Never \/ Credit[req'[d].tariff] > 0
  BY <1>5, Ended DEF DatesOfCredits
<1> QED
  BY <1>1, <1>2, <1>3, <1>4, <1>5, Steps
  DEF vars, Pass, Lapse, TickBegins, MonthlyGrant, MonthlyGrantRefused, TickCommits, TickFails

LEMMA BatchAgreesStep == TypeOK /\ BatchAgrees /\ [Next]_vars => BatchAgrees'
<1> SUFFICES ASSUME TypeOK, BatchAgrees, [Next]_vars PROVE BatchAgrees'
  OBVIOUS
<1>1. CASE UNCHANGED <<row, batch, bumps, crossed, moved>>
  BY <1>1 DEF BatchAgrees
<1>2. ASSUME NEW s \in Sub, Lapse(s) PROVE BatchAgrees'
  <2>1. \A x \in Sub : row'[x].at = row[x].at /\ row'[x].amount = row[x].amount /\ row'[x].end = row[x].end
    BY <1>2 DEF Lapse, TypeOK, Row
  <2> QED BY <1>2, <2>1, BatchTyped DEF Lapse, BatchAgrees
<1>3. ASSUME NEW c \in Client, GiveDays(c) PROVE BatchAgrees'
  <2>1. /\ \A x \in Sub : row'[x].at = row[x].at /\ row'[x].amount = row[x].amount
        /\ \A x \in Sub : x # req[c].sub => row'[x] = row[x]
        /\ moved' = moved \cup {req[c].sub}
    BY <1>3, GiftRow
  <2>2. UNCHANGED <<batch, bumps, crossed>>
    BY <1>3 DEF GiveDays
  <2> QED BY <2>1, <2>2, BatchTyped DEF BatchAgrees
<1>4. ASSUME NEW c \in Client, Commit(c) PROVE BatchAgrees'
  <2> DEFINE s == req[c].sub
  <2>1. \A x \in Sub : x # s => row'[x] = row[x] /\ (x \in moved' <=> x \in moved)
                                /\ (x \in crossed' <=> x \in crossed)
    BY <1>4, CommitRow DEF Commit
  <2>2. s \in Held => s \in crossed'
    BY <1>4 DEF Commit
  <2>3. UNCHANGED <<batch, bumps>>
    BY <1>4 DEF Commit
  <2> HIDE DEF s
  <2> QED BY <2>1, <2>2, <2>3, BatchTyped DEF Held, BatchAgrees
<1>5. CASE TickBegins
  <2>1. \A b \in batch' : b.sub \in Sub /\ b.at = row[b.sub].at /\ b.amount = row[b.sub].amount
                          /\ b.end = row[b.sub].end
    BY <1>5 DEF TickBegins
  <2> QED BY <1>5, <2>1 DEF TickBegins, BatchAgrees
<1>6. ASSUME NEW b \in batch, MonthlyGrant(b) PROVE BatchAgrees'
  BY <1>6 DEF MonthlyGrant, BatchAgrees
<1>7. ASSUME NEW b \in batch, MonthlyGrantRefused(b) PROVE BatchAgrees'
  BY <1>7 DEF MonthlyGrantRefused, BatchAgrees
<1>8. CASE TickCommits \/ TickFails
  BY <1>8 DEF TickCommits, TickFails, BatchAgrees
<1>9. ASSUME NEW c \in Client, Begins(c) \/ Select(c) \/ Flush(c) PROVE BatchAgrees'
  BY <1>1, <1>9, QuietSteps DEF Quiet
<1> QED
  BY <1>1, <1>2, <1>3, <1>4, <1>5, <1>6, <1>7, <1>8, <1>9, Steps DEF vars, Pass, Grant, GrantRefused, Fail

LEMMA BumpedFields ==
    ASSUME NEW r \in Row, NEW b \in Bump
    PROVE  /\ Bumped(r, b).tariff = r.tariff /\ Bumped(r, b).end = r.end
           /\ b.at + Month >= b.end => Bumped(r, b).at = Never /\ Bumped(r, b).amount = Never
           /\ b.at + Month < b.end => Bumped(r, b).at = b.at + Month /\ Bumped(r, b).amount = r.amount
<1>1. b.at + Month \in Nat /\ b.end \in Nat
  BY Credits DEF Bump
<1>2. CASE b.at + Month >= b.end
  BY <1>1, <1>2 DEF Bumped, Row
<1>3. CASE ~(b.at + Month >= b.end)
  BY <1>1, <1>3 DEF Bumped, Row
<1> QED BY <1>1, <1>2, <1>3

\* What the worker's commit writes.
LEMMA CommittedRow ==
    ASSUME TickCommits, NEW s \in Sub
    PROVE  IF \E b \in bumps : b.sub = s
           THEN \E b \in bumps : b.sub = s /\ row'[s] = Bumped(row[s], b)
           ELSE row'[s] = row[s]
<1> DEFINE first == CHOOSE b \in bumps : b.sub = s
<1>1. CASE \E b \in bumps : b.sub = s
  <2>1. first \in bumps /\ first.sub = s
    BY <1>1
  <2>2. row'[s] = Bumped(row[s], first)
    BY <1>1 DEF TickCommits
  <2> HIDE DEF first
  <2> QED BY <1>1, <2>1, <2>2
<1>2. CASE ~\E b \in bumps : b.sub = s
  <2>1. row'[s] = row[s]
    BY <1>2 DEF TickCommits
  <2> QED BY <1>2, <2>1
<1> QED BY <1>1, <1>2

\* It keeps the amount or clears it.
LEMMA CommittedAmount ==
    ASSUME TypeOK, TickCommits, NEW s \in Sub
    PROVE  row'[s].tariff = row[s].tariff /\ row'[s].amount \in {row[s].amount, Never}
<1>1. row[s] \in Row /\ bumps \subseteq Bump /\ \A b \in Bump : b.at + Month \in Nat /\ b.end \in Nat
  BY Credits DEF TypeOK, Bump
<1>2. CASE row'[s] = row[s]
  BY <1>2
<1>3. ASSUME NEW b \in bumps, row'[s] = Bumped(row[s], b)
      PROVE  row'[s].tariff = row[s].tariff /\ row'[s].amount \in {row[s].amount, Never}
  <2>1. b.at + Month >= b.end \/ b.at + Month < b.end
    BY <1>1
  <2> QED BY <1>1, <1>3, <2>1, BumpedFields
<1> QED BY <1>2, <1>3, CommittedRow

LEMMA ScheduleStep ==
    TypeOK /\ DatesOfCredits /\ BatchAgrees /\ ScheduleOfTariff /\ [Next]_vars => ScheduleOfTariff'
<1> SUFFICES ASSUME TypeOK, DatesOfCredits, BatchAgrees, ScheduleOfTariff, [Next]_vars PROVE ScheduleOfTariff'
  OBVIOUS
<1>1. CASE UNCHANGED <<row, torn, crossed>>
  BY <1>1 DEF ScheduleOfTariff
<1>2. ASSUME NEW s \in Sub, Lapse(s) PROVE ScheduleOfTariff'
  <2>1. \A x \in Sub : row'[x].at = row[x].at /\ row'[x].amount = row[x].amount /\ row'[x].tariff = row[x].tariff
    BY <1>2 DEF Lapse, TypeOK, Row
  <2> QED BY <1>2, <2>1 DEF Lapse, ScheduleOfTariff
<1>3. ASSUME NEW c \in Client, GiveDays(c) PROVE ScheduleOfTariff'
  <2>1. /\ \A s \in Sub : row'[s].at = row[s].at /\ row'[s].amount = row[s].amount
        /\ \A s \in Sub : s \in torn' \/ row'[s].tariff \in {row[s].tariff, NoTariff}
        /\ torn \subseteq torn'
    BY <1>3, GiftRow
  <2>2. UNCHANGED crossed
    BY <1>3 DEF GiveDays
  <2> QED BY <2>1, <2>2 DEF ScheduleOfTariff
<1>4. ASSUME NEW c \in Client, Commit(c) PROVE ScheduleOfTariff'
  <2> DEFINE s == req[c].sub
  <2>1. req[c].at = Never \/ Credit[req[c].tariff] > 0
    BY <1>4 DEF Commit, DatesOfCredits
  <2>2. /\ \A x \in Sub : x # s => row'[x] = row[x]
        /\ row'[s].at = req[c].at /\ (s \notin torn' => row'[s].tariff = req[c].tariff)
        /\ row'[s].amount = IF req[c].at = Never THEN Never ELSE Credit[req[c].tariff]
    BY <1>4, CommitRow
  <2>3. \A x \in Sub : x # s => (x \in torn' <=> x \in torn) /\ (x \in crossed' <=> x \in crossed)
    BY <1>4 DEF Commit
  <2> HIDE DEF s
  <2> QED BY <2>1, <2>2, <2>3 DEF ScheduleOfTariff
<1>5. CASE TickCommits
  <2> SUFFICES ASSUME NEW s \in Sub, s \notin torn \cup crossed, row[s].tariff # NoTariff,
                      NEW b \in bumps, b.sub = s, row'[s] = Bumped(row[s], b)
               PROVE  \/ row'[s].at = Never /\ row'[s].amount = Never
                      \/ /\ row'[s].at # Never /\ row'[s].amount = Credit[row[s].tariff]
                         /\ row'[s].amount > 0
    <3>1. \A s \in Sub : \/ row'[s] = row[s]
                         \/ \E b \in bumps : b.sub = s /\ row'[s] = Bumped(row[s], b)
      BY <1>5, CommittedRow
    <3>2. \A s \in Sub : row'[s].tariff = row[s].tariff
      BY <3>1, BumpedFields DEF TypeOK
    <3> QED BY <1>5, <3>1, <3>2 DEF TickCommits, ScheduleOfTariff
  <2>1. row[s].at = b.at /\ b.at # Never /\ b.at \in Nat
    BY BatchTyped DEF BatchAgrees
  <2>2. row[s].amount = Credit[row[s].tariff] /\ row[s].amount > 0
    BY <2>1 DEF ScheduleOfTariff
  <2>3. b.at + Month # Never
    BY <2>1, Credits DEF Never
  <2>4. row[s] \in Row /\ b \in Bump /\ b.at + Month \in Nat /\ b.end \in Nat
    BY <2>1, Credits DEF TypeOK, Bump
  <2> QED BY <2>2, <2>3, <2>4, BumpedFields
<1>6. ASSUME NEW c \in Client, Begins(c) \/ Select(c) \/ Flush(c) PROVE ScheduleOfTariff'
  BY <1>1, <1>6, QuietSteps DEF Quiet
<1> QED
  BY <1>1, <1>2, <1>3, <1>4, <1>5, <1>6, Steps
  DEF vars, Pass, Grant, GrantRefused, Fail, TickBegins, MonthlyGrant, MonthlyGrantRefused, TickFails

Scheduled == TypeOK /\ DatesOfCredits /\ BatchAgrees /\ ScheduleOfTariff

LEMMA InitScheduled == Init => Scheduled
<1> SUFFICES ASSUME Init PROVE Scheduled
  OBVIOUS
<1>1. DatesOfCredits
  BY Requests DEF Init, DatesOfCredits
<1> QED BY <1>1, InitTypeOK DEF Init, Scheduled, BatchAgrees, ScheduleOfTariff

LEMMA NextScheduled == Scheduled /\ [Next]_vars => Scheduled'
BY NextTypeOK, DatesOfCreditsStep, BatchAgreesStep, ScheduleStep DEF Scheduled

\* The dates and the amount in a row are those of its tariff, or there are none, unless
\* the row is torn (a stale flush or given days have left it another transaction's
\* tariff) or crossed (a batch was open when its schedule was written); the next payment
\* or switch that is neither restores the agreement.
THEOREM ScheduleKept == Spec => []ScheduleOfTariff
<1>1. Scheduled => ScheduleOfTariff
  BY DEF Scheduled
<1> QED BY <1>1, InitScheduled, NextScheduled, PTL DEF Spec

(***************************************************************************)
(* One batch, one grant for a date.                                        *)
(***************************************************************************)

\* An idle worker holds nothing.
IdleHoldsNothing == worker = "idle" => batch = {} /\ bumps = {}

\* A row is in a batch once, still to be granted or granted.
HeldOnce ==
    /\ \A b \in batch : \A d \in batch : b.sub = d.sub => b = d
    /\ \A b \in batch : \A d \in bumps : b.sub # d.sub

\* A date granted for is over, or about to be moved.
FiredIsOver ==
    \A s \in Sub : \A f \in fired[s] :
       s \in crossed \/ row[s].at = Never \/ f < row[s].at \/ \E b \in bumps : b.sub = s /\ b.at = f

LEMMA IdleStep == TypeOK /\ IdleHoldsNothing /\ [Next]_vars => IdleHoldsNothing'
<1> SUFFICES ASSUME TypeOK, IdleHoldsNothing, [Next]_vars PROVE IdleHoldsNothing'
  OBVIOUS
<1>1. ASSUME NEW c \in Client, Begins(c) \/ Select(c) \/ Flush(c) PROVE IdleHoldsNothing'
  BY <1>1, QuietSteps DEF Quiet, IdleHoldsNothing
<1> QED
  BY <1>1, Steps, ZenonT(60) DEF IdleHoldsNothing, vars, Pass, Lapse, GiveDays, Grant,
       GrantRefused, Commit, Fail, TickBegins, MonthlyGrant, MonthlyGrantRefused, TickCommits, TickFails

LEMMA HeldOnceStep == TypeOK /\ IdleHoldsNothing /\ HeldOnce /\ [Next]_vars => HeldOnce'
<1> SUFFICES ASSUME TypeOK, IdleHoldsNothing, HeldOnce, [Next]_vars PROVE HeldOnce'
  OBVIOUS
<1>1. CASE UNCHANGED <<batch, bumps>>
  BY <1>1 DEF HeldOnce
<1>2. CASE TickBegins
  <2>1. bumps' = {}
    BY <1>2 DEF TickBegins, IdleHoldsNothing
  <2>2. \A b \in batch' : b = [sub |-> b.sub, at |-> row[b.sub].at, amount |-> row[b.sub].amount,
                               end |-> row[b.sub].end]
    BY <1>2 DEF TickBegins
  <2> QED BY <2>1, <2>2 DEF HeldOnce
<1>3. ASSUME NEW b \in batch, MonthlyGrant(b) \/ MonthlyGrantRefused(b) PROVE HeldOnce'
  BY <1>3 DEF MonthlyGrant, MonthlyGrantRefused, HeldOnce
<1>4. CASE TickCommits \/ TickFails
  BY <1>4 DEF TickCommits, TickFails, HeldOnce
<1>5. ASSUME NEW c \in Client, Begins(c) \/ Select(c) \/ Flush(c) PROVE HeldOnce'
  BY <1>1, <1>5, QuietSteps DEF Quiet
<1> QED
  BY <1>1, <1>2, <1>3, <1>4, <1>5, Steps, ZenonT(60)
  DEF vars, Pass, Lapse, GiveDays, Grant, GrantRefused, Commit, Fail

LEMMA FiredStep == TypeOK /\ BatchAgrees /\ FiredIsOver /\ [Next]_vars => FiredIsOver'
<1> SUFFICES ASSUME TypeOK, BatchAgrees, FiredIsOver, [Next]_vars PROVE FiredIsOver'
  OBVIOUS
<1>1. CASE UNCHANGED <<row, bumps, fired, crossed>>
  BY <1>1 DEF FiredIsOver
<1>2. ASSUME \A x \in Sub : row'[x].at = row[x].at, UNCHANGED <<bumps, fired, crossed>> PROVE FiredIsOver'
  BY <1>2 DEF FiredIsOver
<1>3. ASSUME NEW s \in Sub, Lapse(s) PROVE FiredIsOver'
  <2>1. \A x \in Sub : row'[x].at = row[x].at
    BY <1>3 DEF Lapse, TypeOK, Row
  <2> QED BY <1>2, <1>3, <2>1 DEF Lapse
<1>4. ASSUME NEW c \in Client, GiveDays(c) PROVE FiredIsOver'
  BY <1>2, <1>4, GiftRow DEF GiveDays
<1>5. ASSUME NEW c \in Client, Commit(c) PROVE FiredIsOver'
  <2>1. \A x \in Sub : x # req[c].sub => row'[x] = row[x] /\ fired'[x] = fired[x] /\ (x \in crossed' <=> x \in crossed)
    BY <1>5, CommitRow DEF Commit, TypeOK
  <2>2. fired'[req[c].sub] = {}
    BY <1>5, RequestTyped DEF Commit, TypeOK
  <2>3. UNCHANGED bumps
    BY <1>5 DEF Commit
  <2> QED BY <2>1, <2>2, <2>3 DEF FiredIsOver
<1>6. ASSUME NEW b \in batch, MonthlyGrant(b) PROVE FiredIsOver'
  <2>1. \A x \in Sub : x # b.sub => fired'[x] = fired[x]
    BY <1>6 DEF MonthlyGrant, TypeOK
  <2>2. fired'[b.sub] = fired[b.sub] \cup {b.at}
    BY <1>6, BatchTyped DEF MonthlyGrant, TypeOK
  <2>3. bumps' = bumps \cup {b} /\ UNCHANGED <<row, crossed>>
    BY <1>6 DEF MonthlyGrant
  <2> QED BY <2>1, <2>2, <2>3 DEF FiredIsOver
<1>7. CASE TickCommits
  <2> SUFFICES ASSUME NEW s \in Sub, NEW f \in fired[s], s \notin crossed
               PROVE  row'[s].at = Never \/ f < row'[s].at
    BY <1>7 DEF TickCommits, FiredIsOver
  <2>1. CASE \E b \in bumps : b.sub = s
    <3>1. PICK b \in bumps : b.sub = s /\ row'[s] = Bumped(row[s], b)
      BY <1>7, <2>1, CommittedRow
    <3>2. b \in Bump /\ b.at \in Nat /\ b.end \in Nat /\ Month \in Nat /\ Month > 0 /\ row[s] \in Row
      BY Credits DEF TypeOK, Bump
    <3>3. row[s].at = b.at /\ row[s].at # Never
      BY <3>1, BatchTyped DEF BatchAgrees
    <3>4. \A d \in bumps : d.sub = s => d.at = b.at
      BY <3>3 DEF BatchAgrees
    <3>5. f \in Nat /\ f <= b.at
      <4>1. f \in Nat
        BY DEF TypeOK
      <4> QED BY <3>2, <3>3, <3>4, <4>1 DEF FiredIsOver
    <3>6. CASE b.at + Month >= b.end
      BY <3>1, <3>2, <3>6, BumpedFields
    <3>7. CASE b.at + Month < b.end
      <4>1. row'[s].at = b.at + Month
        BY <3>1, <3>2, <3>7, BumpedFields
      <4> QED BY <3>2, <3>5, <4>1
    <3> QED BY <3>2, <3>6, <3>7
  <2>2. CASE ~\E b \in bumps : b.sub = s
    <3>1. row'[s] = row[s]
      BY <1>7, <2>2, CommittedRow
    <3> QED BY <2>2, <3>1 DEF FiredIsOver
  <2> QED BY <2>1, <2>2
<1>8. CASE TickFails
  <2>1. \A s \in Sub : \A f \in fired'[s] : f \in fired[s] /\ ~\E b \in bumps : b.sub = s /\ b.at = f
    BY <1>8 DEF TickFails
  <2>2. UNCHANGED <<row, crossed>>
    BY <1>8 DEF TickFails
  <2> QED BY <2>1, <2>2 DEF FiredIsOver
<1>9. ASSUME NEW c \in Client, Begins(c) \/ Select(c) \/ Flush(c) PROVE FiredIsOver'
  BY <1>1, <1>9, QuietSteps DEF Quiet
<1> QED
  BY <1>1, <1>3, <1>4, <1>5, <1>6, <1>7, <1>8, <1>9, Steps
  DEF vars, Pass, Grant, GrantRefused, Fail, TickBegins, MonthlyGrantRefused

Dated == TypeOK /\ BatchAgrees /\ IdleHoldsNothing /\ HeldOnce /\ FiredIsOver

LEMMA InitDated == Init => Dated
<1> SUFFICES ASSUME Init PROVE Dated
  OBVIOUS
<1>1. BatchAgrees /\ IdleHoldsNothing /\ HeldOnce /\ FiredIsOver
  BY DEF Init, BatchAgrees, IdleHoldsNothing, HeldOnce, FiredIsOver
<1> QED BY <1>1, InitTypeOK DEF Dated

LEMMA NextDated == Dated /\ [Next]_vars => Dated'
BY NextTypeOK, BatchAgreesStep, IdleStep, HeldOnceStep, FiredStep DEF Dated

\* A date is granted for once while the row is not crossed: the worker does not repeat a
\* grant whose date it has committed, over any number of batches.
THEOREM OneGrantPerDate == Spec => GrantedOncePerDate
<1> DEFINE Once == \A b \in batch : MonthlyGrant(b) => b.at \notin fired[b.sub] \/ b.sub \in crossed
<1>1. Dated => Once
  <2> SUFFICES ASSUME Dated, NEW b \in batch, b.sub \notin crossed, b.at \in fired[b.sub]
               PROVE  FALSE
    OBVIOUS
  <2>1. b.sub \in Sub /\ b.at \in Nat /\ row[b.sub].at = b.at /\ b.at # Never
    BY BatchTyped DEF Dated, BatchAgrees
  <2>2. \E d \in bumps : d.sub = b.sub
    BY <2>1 DEF Dated, FiredIsOver
  <2> QED BY <2>2 DEF Dated, HeldOnce
<1>2. Dated /\ [Next]_vars => [Once]_vars
  BY <1>1
<1> QED BY <1>2, InitDated, NextDated, PTL DEF Spec, GrantedOncePerDate

(***************************************************************************)
(* The balance at the core.                                                *)
(***************************************************************************)

\* The row lock.
OneHolder == \A s \in Sub : \A c \in Client : \A d \in Client : Holds(c, s) /\ Holds(d, s) => c = d

\* A transaction that has granted, and nobody has since.
GrantStands ==
    \A c \in Client : req[c].pc = "granted" =>
       req[c].sub \in broken \/ granted[req[c].sub] = Credit[req[c].tariff]

\* What a step of a transaction does to the locks.
LEMMA OneHolderStep == TypeOK /\ OneHolder /\ [Next]_vars => OneHolder'
<1> SUFFICES ASSUME TypeOK, OneHolder, [Next]_vars PROVE OneHolder'
  OBVIOUS
<1>1. CASE UNCHANGED req
  BY <1>1 DEF OneHolder, Holds
<1>2. ASSUME NEW c \in Client, \A d \in Client \ {c} : req'[d] = req[d],
             req'[c].pc \in {"idle", "select", "open"}
      PROVE  OneHolder'
  BY <1>2 DEF OneHolder, Holds
<1>3. ASSUME NEW c \in Client, Begins(c) PROVE OneHolder'
  BY <1>2, <1>3, Begun
<1>4. ASSUME NEW c \in Client, Select(c) \/ Flush(c) PROVE OneHolder'
  <2>1. /\ req'[c].sub = req[c].sub /\ \A d \in Client \ {c} : req'[d] = req[d]
        /\ req'[c].pc \in {"open", "flushed"}
        /\ req'[c].pc = "flushed" => \A d \in Client : ~Holds(d, req[c].sub)
    BY <1>4, Moved
  <2>2. CASE req'[c].pc = "open"
    BY <1>2, <2>1, <2>2
  <2>3. CASE req'[c].pc = "flushed"
    BY <2>1, <2>3 DEF OneHolder, Holds
  <2> QED BY <2>1, <2>2, <2>3
<1>5. ASSUME NEW c \in Client, Grant(c) \/ GrantRefused(c) PROVE OneHolder'
  <2>1. req[c].pc = "flushed" /\ \E p \in {"granted", "refused"} : Called(c, p)
    BY <1>5 DEF Grant, GrantRefused
  <2>2. req'[c].sub = req[c].sub /\ \A d \in Client \ {c} : req'[d] = req[d]
    BY <2>1, CalledRequest
  <2>3. \A d \in Client : \A s \in Sub : Holds(d, s)' => Holds(d, s)
    BY <2>1, <2>2 DEF Holds
  <2> QED BY <2>3 DEF OneHolder
<1>6. ASSUME NEW c \in Client, GiveDays(c) \/ Commit(c) \/ Fail(c) PROVE OneHolder'
  BY <1>2, <1>6, Ended
<1> QED
  BY <1>1, <1>3, <1>4, <1>5, <1>6, Steps
  DEF vars, Pass, Lapse, TickBegins, MonthlyGrant, MonthlyGrantRefused, TickCommits, TickFails

\* A grant of the worker's breaks the row of a transaction that has granted, and mends
\* every other.
LEMMA MonthlyBreaks ==
    ASSUME TypeOK, NEW b \in batch, MonthlyGrant(b)
    PROVE  /\ b.sub \in broken' <=> Between(b.sub)
           /\ \A s \in Sub : s # b.sub => (s \in broken' <=> s \in broken) /\ granted'[s] = granted[s]
           /\ granted'[b.sub] = b.amount /\ b.sub \in Sub
           /\ UNCHANGED <<row, req, torn, crossed, moved>>
<1>1. b.sub \in Sub
  BY BatchTyped
<1>2. broken' = IF Between(b.sub) THEN broken \cup {b.sub} ELSE broken \ {b.sub}
  BY DEF MonthlyGrant
<1>3. granted' = [granted EXCEPT ![b.sub] = b.amount] /\ UNCHANGED <<row, req, torn, crossed, moved>>
  BY DEF MonthlyGrant
<1> QED BY <1>1, <1>2, <1>3 DEF TypeOK

LEMMA GrantStandsStep == TypeOK /\ OneHolder /\ GrantStands /\ [Next]_vars => GrantStands'
<1> SUFFICES ASSUME TypeOK, OneHolder, GrantStands, [Next]_vars PROVE GrantStands'
  OBVIOUS
<1>1. CASE UNCHANGED <<req, granted, broken>>
  BY <1>1 DEF GrantStands
<1>2. ASSUME NEW c \in Client, \A d \in Client \ {c} : req'[d] = req[d], req'[c].pc # "granted",
             UNCHANGED granted, broken \subseteq broken'
      PROVE  GrantStands'
  BY <1>2 DEF GrantStands
<1>3. ASSUME NEW c \in Client, Begins(c) \/ Select(c) \/ Flush(c) PROVE GrantStands'
  BY <1>2, <1>3, QuietSteps DEF Quiet
<1>4. ASSUME NEW c \in Client, Grant(c) PROVE GrantStands'
  <2>1. req[c].pc = "flushed" /\ Called(c, "granted")
    BY <1>4 DEF Grant
  <2>2. /\ req'[c].sub = req[c].sub /\ req'[c].tariff = req[c].tariff
        /\ \A d \in Client \ {c} : req'[d] = req[d]
    BY <2>1, CalledRequest
  <2>3. req[c].sub \in Sub
    BY <2>1, RequestTyped
  <2>4. /\ granted'[req[c].sub] = Credit[req[c].tariff]
        /\ \A x \in Sub : x # req[c].sub => granted'[x] = granted[x] /\ (x \in broken' <=> x \in broken)
    BY <1>4, <2>3 DEF Grant, TypeOK
  <2>5. \A d \in Client \ {c} : req[d].pc = "granted" => req[d].sub # req[c].sub /\ req[d].sub \in Sub
    BY <2>1, <2>3, RequestTyped DEF OneHolder, Holds
  <2> QED BY <2>2, <2>4, <2>5 DEF GrantStands
<1>5. ASSUME NEW c \in Client, GrantRefused(c) PROVE GrantStands'
  <2>1. req[c].pc = "flushed" /\ Called(c, "refused")
    BY <1>5 DEF GrantRefused
  <2>2. req'[c].pc = "refused" /\ \A d \in Client \ {c} : req'[d] = req[d]
    BY <2>1, CalledRequest
  <2> QED BY <1>2, <1>5, <2>2 DEF GrantRefused
<1>6. ASSUME NEW c \in Client, GiveDays(c) \/ Commit(c) \/ Fail(c) PROVE GrantStands'
  <2>1. req'[c].pc = "idle" /\ \A d \in Client \ {c} : req'[d] = req[d]
    BY <1>6, Ended
  <2>2. broken \subseteq broken' /\ UNCHANGED granted
    BY <1>6 DEF GiveDays, Commit, Fail
  <2> QED BY <1>2, <2>1, <2>2
<1>7. ASSUME NEW b \in batch, MonthlyGrant(b) PROVE GrantStands'
  <2>1. \A c \in Client : req[c].pc = "granted" => Between(req[c].sub) /\ req[c].sub \in Sub
    BY RequestTyped DEF Between
  <2> QED BY <1>7, <2>1, MonthlyBreaks DEF GrantStands
<1> QED
  BY <1>1, <1>3, <1>4, <1>5, <1>6, <1>7, Steps
  DEF vars, Pass, Lapse, TickBegins, MonthlyGrantRefused, TickCommits, TickFails

\* Transactions between a grant and its end, before and after a step.
LEMMA BetweenKept ==
    ASSUME NEW s \in Sub, Between(s), NEW c \in Client, \A d \in Client \ {c} : req'[d] = req[d],
           req[c].pc # "granted" \/ req[c].sub # s
    PROVE  Between(s)'
BY DEF Between

\* A step of a transaction that leaves the row s, its balance and the date of that alone.
Elsewhere(s) ==
    /\ \E c \in Client : /\ \A d \in Client \ {c} : req'[d] = req[d]
                         /\ req[c].pc # "granted" \/ req[c].sub # s
    /\ row'[s] = row[s] /\ granted'[s] = granted[s] /\ grantedAt'[s] = grantedAt[s]
    /\ s \in torn => s \in torn'
    /\ s \in crossed => s \in crossed'
    /\ s \in broken => s \in broken'
    /\ s \in moved => s \in moved'

\* Such are all of them for the rows they do not concern, and for their own row the
\* grant, which leads to Between, and the failure after it, which breaks the row.
LEMMA ElsewhereSteps ==
    ASSUME TypeOK, NEW s \in Sub, NEW c \in Client, ~Between(s)', s \notin broken',
           \/ Begins(c) \/ Select(c) \/ Flush(c) \/ Grant(c) \/ GrantRefused(c) \/ Fail(c)
           \/ (Commit(c) \/ GiveDays(c)) /\ s # req[c].sub
    PROVE  Elsewhere(s)
<1>1. CASE Begins(c) \/ Select(c) \/ Flush(c)
  BY <1>1, QuietSteps DEF Quiet, Elsewhere
<1>2. CASE Grant(c)
  <2>1. req[c].pc = "flushed" /\ Called(c, "granted")
    BY <1>2 DEF Grant
  <2>2. /\ req'[c].pc = "granted" /\ req'[c].sub = req[c].sub
        /\ \A d \in Client \ {c} : req'[d] = req[d]
    BY <2>1, CalledRequest
  <2>3. s # req[c].sub
    BY <2>2 DEF Between
  <2>4. granted'[s] = granted[s] /\ grantedAt'[s] = grantedAt[s] /\ (s \in broken => s \in broken')
        /\ UNCHANGED <<row, torn, crossed, moved>>
    BY <1>2, <2>3 DEF Grant, TypeOK
  <2> QED BY <2>1, <2>2, <2>4 DEF Elsewhere
<1>3. CASE GrantRefused(c)
  <2>1. req[c].pc = "flushed" /\ Called(c, "refused")
    BY <1>3 DEF GrantRefused
  <2>2. \A d \in Client \ {c} : req'[d] = req[d]
    BY <2>1, CalledRequest
  <2> QED BY <1>3, <2>1, <2>2 DEF GrantRefused, Elsewhere
<1>4. CASE Fail(c)
  <2>1. \A d \in Client \ {c} : req'[d] = req[d]
    BY <1>4, Ended
  <2>2. req[c].pc # "granted" \/ req[c].sub # s
    BY <1>4 DEF Fail
  <2>3. broken \subseteq broken' /\ UNCHANGED <<torn, crossed, moved, row, granted, grantedAt>>
    BY <1>4 DEF Fail
  <2> QED BY <2>1, <2>2, <2>3 DEF Elsewhere
<1>5. CASE Commit(c) /\ s # req[c].sub
  <2>1. row'[s] = row[s] /\ \A d \in Client \ {c} : req'[d] = req[d]
    BY <1>5, CommitRow, Ended
  <2>2. /\ s \in torn => s \in torn'
        /\ s \in crossed => s \in crossed'
        /\ s \in broken => s \in broken'
        /\ s \in moved => s \in moved'
        /\ UNCHANGED <<granted, grantedAt>>
    BY <1>5 DEF Commit
  <2> QED BY <1>5, <2>1, <2>2 DEF Elsewhere
<1>6. CASE GiveDays(c) /\ s # req[c].sub
  <2>1. /\ row'[s] = row[s] /\ torn \subseteq torn' /\ moved \subseteq moved'
        /\ \A d \in Client \ {c} : req'[d] = req[d]
    BY <1>6, GiftRow, Ended
  <2>2. UNCHANGED <<granted, grantedAt, crossed, broken>> /\ req[c].pc # "granted"
    BY <1>6 DEF GiveDays
  <2> QED BY <2>1, <2>2 DEF Elsewhere
<1> QED BY <1>1, <1>2, <1>3, <1>4, <1>5, <1>6

LEMMA ElsewhereBetween ==
    ASSUME NEW s \in Sub, Elsewhere(s), ~Between(s)'
    PROVE  ~Between(s)
BY BetweenKept DEF Elsewhere

LEMMA BalanceStep ==
    TypeOK /\ BatchAgrees /\ ScheduleOfTariff /\ GrantStands /\ BalanceOfTariff /\ [Next]_vars
        => BalanceOfTariff'
<1> SUFFICES ASSUME TypeOK, BatchAgrees, ScheduleOfTariff, GrantStands, BalanceOfTariff, [Next]_vars,
                    NEW s \in Sub, s \notin torn', s \notin crossed', s \notin broken', ~Between(s)',
                    row'[s].tariff # NoTariff
             PROVE  granted'[s] = Credit[row'[s].tariff]
  BY DEF BalanceOfTariff
<1>1. ASSUME UNCHANGED <<torn, crossed, broken, req, granted>>, row'[s].tariff = row[s].tariff
      PROVE  granted'[s] = Credit[row'[s].tariff]
  BY <1>1 DEF BalanceOfTariff, Between
<1>2. ASSUME Elsewhere(s) PROVE granted'[s] = Credit[row'[s].tariff]
  BY <1>2, ElsewhereBetween DEF Elsewhere, BalanceOfTariff
<1>3. ASSUME NEW x \in Sub, Lapse(x) PROVE granted'[s] = Credit[row'[s].tariff]
  <2>1. row'[s].tariff = row[s].tariff
    BY <1>3 DEF Lapse, TypeOK, Row
  <2> QED BY <1>1, <1>3, <2>1 DEF Lapse
<1>4. ASSUME NEW c \in Client, Begins(c) \/ Select(c) \/ Flush(c) \/ Grant(c) \/ GrantRefused(c) \/ Fail(c)
      PROVE  granted'[s] = Credit[row'[s].tariff]
  BY <1>2, <1>4, ElsewhereSteps
<1>5. ASSUME NEW c \in Client, GiveDays(c) PROVE granted'[s] = Credit[row'[s].tariff]
  <2>1. row'[s].tariff = row[s].tariff /\ torn \subseteq torn' /\ \A d \in Client \ {c} : req'[d] = req[d]
    BY <1>5, GiftRow, Ended
  <2>2. UNCHANGED <<granted, crossed, broken>> /\ req[c].pc # "granted"
    BY <1>5 DEF GiveDays
  <2> QED BY <2>1, <2>2, BetweenKept DEF BalanceOfTariff
<1>6. ASSUME NEW c \in Client, Commit(c) PROVE granted'[s] = Credit[row'[s].tariff]
  <2>1. CASE s = req[c].sub
    <3>1. row'[s].tariff = req[c].tariff
      BY <1>6, <2>1, CommitRow
    <3>2. req[c].pc = "granted" /\ s \notin broken /\ UNCHANGED granted
      BY <1>6, <2>1 DEF Commit
    <3> QED BY <2>1, <3>1, <3>2 DEF GrantStands
  <2>2. CASE s # req[c].sub
    BY <1>2, <1>6, <2>2, ElsewhereSteps
  <2> QED BY <2>1, <2>2
<1>7. ASSUME NEW b \in batch, MonthlyGrant(b) PROVE granted'[s] = Credit[row'[s].tariff]
  <2>1. CASE s = b.sub
    <3>1. row[s].at # Never /\ row[s].amount = b.amount
      BY <1>7, <2>1, MonthlyBreaks, BatchTyped DEF BatchAgrees
    <3> QED BY <1>7, <2>1, <3>1, MonthlyBreaks DEF ScheduleOfTariff
  <2>2. CASE s # b.sub
    BY <1>7, <2>2, MonthlyBreaks DEF BalanceOfTariff, Between
  <2> QED BY <2>1, <2>2
<1>8. CASE TickCommits
  BY <1>1, <1>8, CommittedAmount DEF TickCommits
<1> QED
  BY <1>1, <1>3, <1>4, <1>5, <1>6, <1>7, <1>8, Steps
  DEF vars, Pass, TickBegins, MonthlyGrantRefused, TickFails

Balanced == Scheduled /\ OneHolder /\ GrantStands /\ BalanceOfTariff

LEMMA InitBalanced == Init => Balanced
<1> SUFFICES ASSUME Init PROVE Balanced
  OBVIOUS
<1>1. OneHolder /\ GrantStands
  BY Requests DEF Init, OneHolder, Holds, GrantStands
<1>2. BalanceOfTariff
  BY DEF Init, BalanceOfTariff
<1> QED BY <1>1, <1>2, InitScheduled DEF Balanced

LEMMA NextBalanced == Balanced /\ [Next]_vars => Balanced'
BY NextScheduled, OneHolderStep, GrantStandsStep, BalanceStep DEF Balanced, Scheduled

\* What the core holds is the credit of the tariff in the row, whatever the worker and
\* the transactions grant beside each other, except in rows that are torn, crossed or
\* broken and between a grant and its commit.
THEOREM BalanceKept == Spec => []BalanceOfTariff
<1>1. Balanced => BalanceOfTariff
  BY DEF Balanced
<1> QED BY <1>1, InitBalanced, NextBalanced, PTL DEF Spec

LEMMA RepeatsStep ==
    TypeOK /\ BatchAgrees /\ GrantStands /\ ScheduleRepeatsGrant /\ [Next]_vars => ScheduleRepeatsGrant'
<1> SUFFICES ASSUME TypeOK, BatchAgrees, GrantStands, ScheduleRepeatsGrant, [Next]_vars,
                    NEW s \in Sub, s \notin crossed', s \notin broken', ~Between(s)'
             PROVE  row'[s].amount \in {Never, granted'[s]}
  BY DEF ScheduleRepeatsGrant
<1>1. ASSUME UNCHANGED <<crossed, broken, req, granted>>, row'[s].amount \in {Never, row[s].amount}
      PROVE  row'[s].amount \in {Never, granted'[s]}
  BY <1>1 DEF ScheduleRepeatsGrant, Between
<1>2. ASSUME Elsewhere(s) PROVE row'[s].amount \in {Never, granted'[s]}
  BY <1>2, ElsewhereBetween DEF Elsewhere, ScheduleRepeatsGrant
<1>3. ASSUME NEW x \in Sub, Lapse(x) PROVE row'[s].amount \in {Never, granted'[s]}
  <2>1. row'[s].amount = row[s].amount
    BY <1>3 DEF Lapse, TypeOK, Row
  <2> QED BY <1>1, <1>3, <2>1 DEF Lapse
<1>4. ASSUME NEW c \in Client, Begins(c) \/ Select(c) \/ Flush(c) \/ Grant(c) \/ GrantRefused(c) \/ Fail(c)
      PROVE  row'[s].amount \in {Never, granted'[s]}
  BY <1>2, <1>4, ElsewhereSteps
<1>5. ASSUME NEW c \in Client, GiveDays(c) PROVE row'[s].amount \in {Never, granted'[s]}
  <2>1. row'[s].amount = row[s].amount /\ \A d \in Client \ {c} : req'[d] = req[d]
    BY <1>5, GiftRow, Ended
  <2>2. UNCHANGED <<granted, crossed, broken>> /\ req[c].pc # "granted"
    BY <1>5 DEF GiveDays
  <2> QED BY <2>1, <2>2, BetweenKept DEF ScheduleRepeatsGrant
<1>6. ASSUME NEW c \in Client, Commit(c) PROVE row'[s].amount \in {Never, granted'[s]}
  <2>1. CASE s = req[c].sub
    <3>1. row'[s].amount \in {Never, Credit[req[c].tariff]}
      BY <1>6, <2>1, CommitRow
    <3>2. req[c].pc = "granted" /\ s \notin broken /\ UNCHANGED granted
      BY <1>6, <2>1 DEF Commit
    <3> QED BY <2>1, <3>1, <3>2 DEF GrantStands
  <2>2. CASE s # req[c].sub
    BY <1>2, <1>6, <2>2, ElsewhereSteps
  <2> QED BY <2>1, <2>2
<1>7. ASSUME NEW b \in batch, MonthlyGrant(b) PROVE row'[s].amount \in {Never, granted'[s]}
  <2>1. CASE s = b.sub
    <3>1. row[s].amount = b.amount
      BY <1>7, <2>1, MonthlyBreaks, BatchTyped DEF BatchAgrees
    <3> QED BY <1>7, <2>1, <3>1, MonthlyBreaks
  <2>2. CASE s # b.sub
    BY <1>7, <2>2, MonthlyBreaks DEF ScheduleRepeatsGrant, Between
  <2> QED BY <2>1, <2>2
<1>8. CASE TickCommits
  BY <1>1, <1>8, CommittedAmount DEF TickCommits
<1> QED
  BY <1>1, <1>3, <1>4, <1>5, <1>6, <1>7, <1>8, Steps
  DEF vars, Pass, TickBegins, MonthlyGrantRefused, TickFails

Repeating == TypeOK /\ BatchAgrees /\ OneHolder /\ GrantStands /\ ScheduleRepeatsGrant

LEMMA InitRepeating == Init => Repeating
<1> SUFFICES ASSUME Init PROVE Repeating
  OBVIOUS
<1>1. BatchAgrees /\ OneHolder /\ GrantStands /\ ScheduleRepeatsGrant
  BY Requests DEF Init, BatchAgrees, OneHolder, Holds, GrantStands, ScheduleRepeatsGrant
<1> QED BY <1>1, InitTypeOK DEF Repeating

LEMMA NextRepeating == Repeating /\ [Next]_vars => Repeating'
BY NextTypeOK, BatchAgreesStep, OneHolderStep, GrantStandsStep, RepeatsStep DEF Repeating

\* What is scheduled is what was granted last, whoever's tariff two clients have left in
\* the row: grant and schedule are of one transaction, under the row's lock.
THEOREM RepeatsKept == Spec => []ScheduleRepeatsGrant
<1>1. Repeating => ScheduleRepeatsGrant
  BY DEF Repeating
<1> QED BY <1>1, InitRepeating, NextRepeating, PTL DEF Spec

(***************************************************************************)
(* A month between two grants.                                             *)
(***************************************************************************)

\* The next grant of a row or of a transaction; the end of the term after the last.
NextGrant(r) == IF r.at = Never THEN r.end ELSE r.at

\* Grants, and the dates they were due, are past.
GrantsPast ==
    /\ \A s \in Sub : grantedAt[s] <= now
    /\ \A b \in batch \cup bumps : b.at <= now
    /\ \A b \in bumps : b.at <= grantedAt[b.sub]

\* A transaction that extends no running term, for a tariff with a credit.
Fresh(r) == r.pc # "idle" /\ r.kind # "gift" /\ ~r.early /\ Credit[r.tariff] # 0

\* A payment that begins a term, and what has been granted, reach no further than a month.
Reaches(r, start, last) ==
    /\ r.kind = "payment" /\ r.pc \in {"select", "open", "flushed"}
          => r.end # Never /\ NextGrant(r) <= start + Month
    /\ r.pc = "granted" => (r.at = Never => r.end # Never) /\ NextGrant(r) <= last + Month

MonthAhead == \A c \in Client : Fresh(req[c]) => Reaches(req[c], now, grantedAt[req[c].sub])

LEMMA GrantsPastStep == TypeOK /\ GrantsPast /\ [Next]_vars => GrantsPast'
<1> SUFFICES ASSUME TypeOK, GrantsPast, [Next]_vars PROVE GrantsPast'
  OBVIOUS
<1>1. CASE UNCHANGED <<now, grantedAt, batch, bumps>>
  BY <1>1 DEF GrantsPast
<1>2. CASE Pass
  <2>1. \A s \in Sub : grantedAt[s] \in Nat
    BY DEF TypeOK
  <2>2. now \in Nat /\ now' = now + 1 /\ UNCHANGED <<grantedAt, batch, bumps>>
    BY <1>2 DEF Pass, TypeOK
  <2> QED BY <2>1, <2>2, BatchTyped DEF GrantsPast
<1>3. ASSUME NEW c \in Client, Grant(c) PROVE GrantsPast'
  <2>1. req[c].sub \in Sub
    BY <1>3, RequestTyped DEF Grant
  <2>2. \A s \in Sub : grantedAt'[s] = IF s = req[c].sub THEN now ELSE grantedAt[s]
    BY <1>3, <2>1 DEF Grant, TypeOK
  <2>3. UNCHANGED <<now, batch, bumps>> /\ now \in Nat
    BY <1>3 DEF Grant, TypeOK
  <2> QED BY <2>2, <2>3, BatchTyped DEF GrantsPast
<1>4. CASE TickBegins
  <2>1. \A b \in batch' : b.at <= now
    BY <1>4 DEF TickBegins, Due
  <2> QED BY <1>4, <2>1 DEF TickBegins, GrantsPast
<1>5. ASSUME NEW b \in batch, MonthlyGrant(b) PROVE GrantsPast'
  <2>1. b.sub \in Sub /\ b.at <= now
    BY BatchTyped DEF GrantsPast
  <2>2. \A s \in Sub : grantedAt'[s] = IF s = b.sub THEN now ELSE grantedAt[s]
    BY <1>5, <2>1 DEF MonthlyGrant, TypeOK
  <2>3. UNCHANGED now /\ now \in Nat /\ batch' \subseteq batch /\ bumps' = bumps \cup {b}
    BY <1>5 DEF MonthlyGrant, TypeOK
  <2> QED BY <2>1, <2>2, <2>3, BatchTyped DEF GrantsPast
<1>6. ASSUME NEW b \in batch, MonthlyGrantRefused(b) PROVE GrantsPast'
  BY <1>6 DEF MonthlyGrantRefused, GrantsPast
<1>7. CASE TickCommits \/ TickFails
  BY <1>7 DEF TickCommits, TickFails, GrantsPast
<1>8. ASSUME NEW c \in Client, Begins(c) \/ Select(c) \/ Flush(c) PROVE GrantsPast'
  BY <1>1, <1>8, QuietSteps DEF Quiet
<1> QED
  BY <1>1, <1>2, <1>3, <1>4, <1>5, <1>6, <1>7, <1>8, Steps
  DEF vars, Lapse, GiveDays, GrantRefused, Commit, Fail

LEMMA Later == \A n, a, b, m \in Int : a <= b /\ n <= a + m => n <= b + m
OBVIOUS

\* A later grant gives a transaction more time.
LEMMA ReachesLater ==
    ASSUME NEW r \in Charge, NEW a \in Nat, NEW b \in Nat, NEW x \in Nat, NEW y \in Nat,
           a <= b, x <= y, Reaches(r, a, x)
    PROVE  Reaches(r, b, y)
<1> DEFINE next == NextGrant(r)
<1>1. next \in Int
  BY Dates DEF NextGrant, Charge, Change, Date, Never
<1>2. Month \in Nat
  BY Credits
<1> HIDE DEF next
<1>3. /\ next <= a + Month => next <= b + Month
      /\ next <= x + Month => next <= y + Month
  BY <1>1, <1>2, Later
<1> QED BY <1>3 DEF Reaches, next

LEMMA MonthAheadKept ==
    ASSUME TypeOK, MonthAhead, now' \in Nat, now <= now', grantedAt' \in [Sub -> Nat],
           \A s \in Sub : grantedAt[s] <= grantedAt'[s],
           NEW d \in Client, req'[d] = req[d], Fresh(req[d])
    PROVE  Reaches(req[d], now', grantedAt'[req[d].sub])
<1>1. req[d] \in Charge /\ req[d].sub \in Sub
  BY RequestOpen, RequestTyped DEF Fresh
<1>2. Reaches(req[d], now, grantedAt[req[d].sub])
  BY DEF MonthAhead
<1>3. /\ now \in Nat /\ grantedAt[req[d].sub] \in Nat /\ grantedAt'[req[d].sub] \in Nat
      /\ grantedAt[req[d].sub] <= grantedAt'[req[d].sub]
  BY <1>1 DEF TypeOK
<1> QED BY <1>1, <1>2, <1>3, ReachesLater

\* A payment that begins.
LEMMA BegunReaches ==
    ASSUME TypeOK, NEW c \in Client, Begins(c), Fresh(req'[c])
    PROVE  Reaches(req'[c], now, grantedAt[req'[c].sub])
<1>1. req'[c].pc \in {"select", "open"} /\ req'[c].kind # "gift" /\ ~req'[c].early /\ Credit[req'[c].tariff] # 0
  BY Begun DEF Fresh
<1>2. ASSUME NEW s \in Sub, NEW t \in Tariff, NEW m \in Months, BeginPayment(c, s, t, m)
      PROVE  Reaches(req'[c], now, grantedAt[req'[c].sub])
  <2> DEFINE start == IF Live(s) THEN row[s].end ELSE now
             new == [pc |-> Loading(s), kind |-> "payment", sub |-> s, was |-> Loaded(s), tariff |-> t,
                     end |-> start + m * Month, at |-> NextAt(start, m, t), early |-> Live(s)]
  <2>1. req'[c] = new
    BY <1>2 DEF BeginPayment, TypeOK
  <2>2. ~Live(s) /\ Credit[t] \in Nat \ {0}
    BY <1>1, <2>1, Credits
  <2>3. start = now
    BY <2>2
  <2>4. now \in Nat /\ Month \in Nat /\ m \in Nat \ {0}
    BY Credits, TimeAssumption DEF TypeOK
  <2>5. /\ req'[c].at = NextAt(now, m, t) /\ req'[c].end = now + m * Month
        /\ req'[c].kind = "payment"
    BY <2>1, <2>3
  <2> HIDE DEF start, new
  <2>6. m * Month \in Nat
    BY <2>4
  <2>7. req'[c].end # Never
    BY <2>4, <2>5, <2>6 DEF Never
  <2>8. NextGrant(req'[c]) <= now + Month
    <3>1. CASE m > 1
      <4>1. req'[c].at = now + Month /\ now + Month # Never
        BY <2>2, <2>4, <2>5, <3>1 DEF NextAt, Never
      <4> QED BY <2>4, <4>1 DEF NextGrant
    <3>2. CASE ~(m > 1)
      <4>1. m = 1
        BY <2>4, <3>2
      <4>2. req'[c].end = now + Month /\ req'[c].at = Never
        BY <2>4, <2>5, <4>1 DEF NextAt
      <4> QED BY <2>4, <4>2 DEF NextGrant
    <3> QED BY <3>1, <3>2
  <2> QED BY <1>1, <2>7, <2>8 DEF Reaches
<1>3. ASSUME NEW s \in Sub, NEW t \in Tariff, NEW end, BeginSwitch(c, s, t, end)
      PROVE  Reaches(req'[c], now, grantedAt[req'[c].sub])
  <2>1. req'[c].kind = "switch"
    BY <1>3 DEF BeginSwitch, TypeOK
  <2> QED BY <1>1, <2>1 DEF Reaches
<1>4. ASSUME NEW s \in Sub, NEW t, BeginGift(c, s, t)
      PROVE  Reaches(req'[c], now, grantedAt[req'[c].sub])
  BY <1>1, <1>4 DEF BeginGift, TypeOK
<1> QED BY <1>2, <1>3, <1>4 DEF Begins

LEMMA MonthAheadStep == TypeOK /\ GrantsPast /\ MonthAhead /\ [Next]_vars => MonthAhead'
<1> SUFFICES ASSUME TypeOK, GrantsPast, MonthAhead, [Next]_vars,
                    NEW d \in Client, Fresh(req'[d])
             PROVE  Reaches(req'[d], now', grantedAt'[req'[d].sub])
  BY DEF MonthAhead, Fresh, Reaches, NextGrant
<1> DEFINE Goal == Reaches(req'[d], now', grantedAt'[req'[d].sub])
<1>0. TypeOK' /\ now \in Nat /\ Month \in Nat
  BY NextTypeOK, Credits DEF TypeOK
<1>1. now' \in Nat /\ grantedAt' \in [Sub -> Nat] /\ grantedAt \in [Sub -> Nat]
  BY <1>0 DEF TypeOK
<1>2. ASSUME req'[d] = req[d], UNCHANGED <<now, grantedAt>> PROVE Goal
  <2>1. now <= now' /\ \A s \in Sub : grantedAt[s] <= grantedAt'[s]
    BY <1>0, <1>1, <1>2
  <2> QED BY <1>1, <1>2, <2>1, MonthAheadKept
<1>3. CASE Pass
  <2>1. req'[d] = req[d] /\ now <= now' /\ UNCHANGED grantedAt
    BY <1>0, <1>3 DEF Pass
  <2>2. \A s \in Sub : grantedAt[s] <= grantedAt'[s]
    BY <1>1, <2>1
  <2> QED BY <1>1, <2>1, <2>2, MonthAheadKept
<1>4. ASSUME NEW c \in Client, Begins(c) PROVE Goal
  <2>1. UNCHANGED <<now, grantedAt>> /\ (c # d => req'[d] = req[d])
    BY <1>4, Begun
  <2> QED BY <1>2, <1>4, <2>1, BegunReaches
<1>5. ASSUME NEW c \in Client, Select(c) \/ Flush(c) PROVE Goal
  <2>1. UNCHANGED <<now, grantedAt>> /\ (c # d => req'[d] = req[d])
    BY <1>5, Moved
  <2>2. CASE c = d
    <3>1. /\ req[d].pc \in {"select", "open"} /\ req'[d].pc \in {"open", "flushed"}
          /\ req'[d].sub = req[d].sub /\ req'[d].kind = req[d].kind /\ req'[d].tariff = req[d].tariff
          /\ req'[d].end = req[d].end /\ req'[d].at = req[d].at /\ req'[d].early = req[d].early
      BY <1>5, <2>2, Moved
    <3>2. Fresh(req[d])
      BY <3>1 DEF Fresh
    <3>3. Reaches(req[d], now, grantedAt[req[d].sub])
      BY <3>2 DEF MonthAhead
    <3>4. NextGrant(req'[d]) = NextGrant(req[d])
      BY <3>1 DEF NextGrant
    <3> QED BY <2>1, <3>1, <3>3, <3>4 DEF Reaches
  <2> QED BY <1>2, <2>1, <2>2
<1>6. ASSUME NEW c \in Client, Grant(c) PROVE Goal
  <2>1. req[c].pc = "flushed" /\ Called(c, "granted") /\ UNCHANGED now
    BY <1>6 DEF Grant
  <2>2. req[c].sub \in Sub
    BY <2>1, RequestTyped
  <2>3. \A s \in Sub : grantedAt'[s] = IF s = req[c].sub THEN now ELSE grantedAt[s]
    BY <1>6, <2>2 DEF Grant, TypeOK
  <2>4. CASE c # d
    <3>1. req'[d] = req[d]
      BY <2>1, <2>4, CalledRequest
    <3>2. \A s \in Sub : grantedAt[s] <= grantedAt'[s]
      BY <1>0, <1>1, <2>3 DEF GrantsPast
    <3>3. now <= now'
      BY <1>0, <2>1
    <3> QED BY <1>1, <3>1, <3>2, <3>3, MonthAheadKept
  <2>5. CASE c = d
    <3>1. /\ req'[d].pc = "granted" /\ req'[d].sub = req[d].sub /\ req'[d].tariff = req[d].tariff
          /\ req'[d].kind = req[d].kind /\ req'[d].end = req[d].end /\ req'[d].early = req[d].early
          /\ req'[d].at = IF req[d].kind = "payment" THEN req[d].at
                          ELSE IF Credit[req[d].tariff] > 0 THEN now + Month ELSE Never
      BY <2>1, <2>5, CalledRequest
    <3>2. grantedAt'[req'[d].sub] = now
      BY <2>2, <2>3, <2>5, <3>1
    <3>3. CASE req[d].kind = "payment"
      <4>1. Fresh(req[d])
        BY <2>1, <2>5, <3>1 DEF Fresh
      <4>2. req[d].end # Never /\ NextGrant(req[d]) <= now + Month
        BY <2>1, <2>5, <3>3, <4>1 DEF MonthAhead, Reaches
      <4>3. NextGrant(req'[d]) = NextGrant(req[d])
        BY <3>1, <3>3 DEF NextGrant
      <4> QED BY <3>1, <3>2, <4>2, <4>3 DEF Reaches
    <3>4. CASE req[d].kind = "switch"
      <4>1. Credit[req[d].tariff] > 0 /\ req'[d].at = now + Month /\ now + Month # Never
        BY <1>0, <2>1, <2>5, <3>1, <3>4, RequestTyped, Credits DEF Never, Fresh
      <4>2. NextGrant(req'[d]) = now + Month
        BY <4>1 DEF NextGrant
      <4> QED BY <1>0, <3>1, <3>2, <4>1, <4>2 DEF Reaches
    <3> QED BY <2>1, <2>5, <3>3, <3>4, RequestTyped
  <2> QED BY <2>4, <2>5
<1>7. ASSUME NEW c \in Client, GrantRefused(c) PROVE Goal
  <2>1. req[c].pc = "flushed" /\ Called(c, "refused") /\ UNCHANGED <<now, grantedAt>>
    BY <1>7 DEF GrantRefused
  <2>2. req'[c].pc = "refused" /\ (c # d => req'[d] = req[d])
    BY <2>1, CalledRequest
  <2>3. CASE c = d
    BY <2>2, <2>3 DEF Reaches
  <2> QED BY <1>2, <2>1, <2>2, <2>3
<1>8. ASSUME NEW c \in Client, GiveDays(c) \/ Commit(c) \/ Fail(c) PROVE Goal
  <2>1. c # d /\ req'[d] = req[d]
    BY <1>8, Ended DEF Fresh
  <2>2. UNCHANGED <<now, grantedAt>>
    BY <1>8 DEF GiveDays, Commit, Fail
  <2> QED BY <1>2, <2>1, <2>2
<1>9. ASSUME NEW b \in batch, MonthlyGrant(b) PROVE Goal
  <2>1. req'[d] = req[d] /\ UNCHANGED now
    BY <1>9 DEF MonthlyGrant
  <2>2. \A s \in Sub : grantedAt'[s] = IF s = b.sub THEN now ELSE grantedAt[s]
    BY <1>9 DEF MonthlyGrant, TypeOK
  <2>3. \A s \in Sub : grantedAt[s] <= grantedAt'[s]
    BY <1>0, <1>1, <2>2 DEF GrantsPast
  <2>4. now <= now'
    BY <1>0, <2>1
  <2> QED BY <1>1, <2>1, <2>3, <2>4, MonthAheadKept
<1>10. ASSUME \/ TickBegins \/ TickCommits \/ TickFails \/ UNCHANGED vars
              \/ (\E s \in Sub : Lapse(s)) \/ (\E b \in batch : MonthlyGrantRefused(b))
       PROVE  Goal
  <2>1. UNCHANGED <<now, req, grantedAt>>
    BY <1>10 DEF vars, Lapse, TickBegins, MonthlyGrantRefused, TickCommits, TickFails
  <2> QED BY <1>2, <2>1
<1> QED BY <1>3, <1>4, <1>5, <1>6, <1>7, <1>8, <1>9, <1>10, Steps

LEMMA MonthStep ==
    TypeOK /\ BatchAgrees /\ GrantsPast /\ MonthAhead /\ CreditEveryMonth /\ [Next]_vars => CreditEveryMonth'
<1> SUFFICES ASSUME TypeOK, BatchAgrees, GrantsPast, MonthAhead, CreditEveryMonth, [Next]_vars,
                    NEW s \in Sub, s \notin torn', s \notin crossed', s \notin broken', s \notin moved',
                    ~Between(s)', row'[s].tariff # NoTariff, Credit[row'[s].tariff] # 0
             PROVE  NextGrant(row'[s]) <= grantedAt'[s] + Month
  BY DEF CreditEveryMonth, NextGrant
<1> DEFINE Goal == NextGrant(row'[s]) <= grantedAt'[s] + Month
<1>0. /\ grantedAt[s] \in Nat /\ now \in Nat /\ Month \in Nat /\ row[s] \in Row
      /\ row[s].end \in Nat /\ NextGrant(row[s]) \in Int /\ grantedAt[s] <= now
  BY Credits, Dates, RowTyped DEF TypeOK, GrantsPast, NextGrant
<1>1. ASSUME Elsewhere(s) PROVE Goal
  BY <1>1, ElsewhereBetween DEF Elsewhere, CreditEveryMonth, NextGrant
<1>2. ASSUME UNCHANGED <<req, torn, crossed, broken, moved>>, row'[s].tariff = row[s].tariff,
             NextGrant(row'[s]) = NextGrant(row[s]), grantedAt'[s] = grantedAt[s]
      PROVE  Goal
  BY <1>2 DEF CreditEveryMonth, NextGrant, Between
<1>3. ASSUME NEW x \in Sub, Lapse(x) PROVE Goal
  <2>1. row'[s].tariff = row[s].tariff /\ row'[s].at = row[s].at /\ row'[s].end = row[s].end
    BY <1>3 DEF Lapse, TypeOK, Row
  <2>2. NextGrant(row'[s]) = NextGrant(row[s])
    BY <2>1 DEF NextGrant
  <2> QED BY <1>2, <1>3, <2>1, <2>2 DEF Lapse
<1>4. ASSUME NEW c \in Client, Begins(c) \/ Select(c) \/ Flush(c) \/ Grant(c) \/ GrantRefused(c) \/ Fail(c)
      PROVE  Goal
  BY <1>1, <1>4, ElsewhereSteps
<1>5. ASSUME NEW c \in Client, GiveDays(c) PROVE Goal
  <2>1. s # req[c].sub
    BY <1>5, GiftRow
  <2> QED BY <1>1, <1>5, <2>1, ElsewhereSteps
<1>6. ASSUME NEW c \in Client, Commit(c) PROVE Goal
  <2>1. CASE s = req[c].sub
    <3>1. /\ row'[s].at = req[c].at /\ row'[s].tariff = req[c].tariff
          /\ row'[s].end = IF req[c].end = Never THEN row[s].end ELSE req[c].end
      BY <1>6, <2>1, CommitRow
    <3>2. req[c].pc = "granted" /\ ~req[c].early /\ UNCHANGED grantedAt
      BY <1>6, <2>1 DEF Commit
    <3>3. Fresh(req[c])
      BY <3>1, <3>2, RequestTyped DEF Fresh
    <3>4. (req[c].at = Never => req[c].end # Never) /\ NextGrant(req[c]) <= grantedAt[s] + Month
      BY <2>1, <3>2, <3>3 DEF MonthAhead, Reaches
    <3>5. NextGrant(row'[s]) = NextGrant(req[c])
      BY <3>1, <3>4 DEF NextGrant
    <3> QED BY <3>2, <3>4, <3>5
  <2>2. CASE s # req[c].sub
    BY <1>1, <1>6, <2>2, ElsewhereSteps
  <2> QED BY <2>1, <2>2
<1>7. ASSUME NEW b \in batch, MonthlyGrant(b) PROVE Goal
  <2>1. CASE s = b.sub
    <3>1. grantedAt'[s] = now /\ UNCHANGED <<row, crossed>>
      BY <1>7, <2>1 DEF MonthlyGrant, TypeOK
    <3>2. row[s].at = b.at /\ b.at # Never /\ b.at <= now /\ b.at \in Nat
      BY <2>1, <3>1, BatchTyped DEF BatchAgrees, GrantsPast
    <3>3. NextGrant(row'[s]) = b.at
      BY <3>1, <3>2 DEF NextGrant
    <3> QED BY <1>0, <3>1, <3>2, <3>3
  <2>2. CASE s # b.sub
    <3>1. grantedAt'[s] = grantedAt[s]
      BY <1>7, <2>2 DEF MonthlyGrant, TypeOK
    <3> QED BY <1>7, <2>2, <3>1, MonthlyBreaks DEF CreditEveryMonth, NextGrant, Between
  <2> QED BY <2>1, <2>2
<1>8. CASE TickCommits
  <2>1. UNCHANGED <<grantedAt, req, torn, crossed, broken, moved>>
    BY <1>8 DEF TickCommits
  <2>2. CASE row'[s] = row[s]
    BY <1>2, <2>1, <2>2
  <2>3. ASSUME NEW b \in bumps, b.sub = s, row'[s] = Bumped(row[s], b) PROVE Goal
    <3>1. b \in Bump /\ b.at \in Nat /\ b.end \in Nat /\ b.at + Month \in Nat /\ b.at <= grantedAt[s]
      BY <1>0, <2>3, BatchTyped DEF TypeOK, GrantsPast
    <3>2. row[s].end = b.end
      BY <2>1, <2>3 DEF BatchAgrees
    <3>3. CASE b.at + Month >= b.end
      <4>1. NextGrant(row'[s]) = b.end
        BY <1>0, <2>3, <3>1, <3>2, <3>3, BumpedFields DEF NextGrant
      <4> QED BY <1>0, <2>1, <3>1, <3>3, <4>1
    <3>4. CASE b.at + Month < b.end
      <4>1. row'[s].at = b.at + Month
        BY <1>0, <2>3, <3>1, <3>4, BumpedFields
      <4>2. b.at + Month # Never
        BY <3>1 DEF Never
      <4>3. NextGrant(row'[s]) = b.at + Month
        BY <4>1, <4>2 DEF NextGrant
      <4> QED BY <1>0, <2>1, <3>1, <4>3
    <3> QED BY <3>1, <3>3, <3>4
  <2> QED BY <1>8, <2>2, <2>3, CommittedRow
<1>9. ASSUME \/ Pass \/ TickBegins \/ TickFails \/ UNCHANGED vars
             \/ \E b \in batch : MonthlyGrantRefused(b)
      PROVE  Goal
  <2>1. UNCHANGED <<row, grantedAt, req, torn, crossed, broken, moved>>
    BY <1>9 DEF vars, Pass, TickBegins, MonthlyGrantRefused, TickFails
  <2> QED BY <1>2, <2>1
<1> QED BY <1>3, <1>4, <1>5, <1>6, <1>7, <1>8, <1>9, Steps

Monthly == TypeOK /\ BatchAgrees /\ GrantsPast /\ MonthAhead /\ CreditEveryMonth

LEMMA InitMonthly == Init => Monthly
<1> SUFFICES ASSUME Init PROVE Monthly
  OBVIOUS
<1>1. BatchAgrees /\ GrantsPast
  BY DEF Init, BatchAgrees, GrantsPast
<1>2. MonthAhead
  BY Requests DEF Init, MonthAhead, Fresh
<1>3. CreditEveryMonth
  BY DEF Init, CreditEveryMonth
<1> QED BY <1>1, <1>2, <1>3, InitTypeOK DEF Monthly

LEMMA NextMonthly == Monthly /\ [Next]_vars => Monthly'
BY NextTypeOK, BatchAgreesStep, GrantsPastStep, MonthAheadStep, MonthStep DEF Monthly

\* From one grant of a paid term to the next, or to its end, is a month at most: the
\* worker counts from the date it granted for, not from the day it ran.  Torn, crossed
\* and broken rows, and terms that were extended while they ran, are not covered.
THEOREM MonthKept == Spec => []CreditEveryMonth
<1>1. Monthly => CreditEveryMonth
  BY DEF Monthly
<1> QED BY <1>1, InitMonthly, NextMonthly, PTL DEF Spec

================================================================================
