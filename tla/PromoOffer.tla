------------------------------- MODULE PromoOffer -------------------------------
(***************************************************************************)
(* What the shop promises about a promo code: a user enjoys it once, with  *)
(* its bonus, either by redeeming it while fewer than Limit users have it, *)
(* or with an invoice that was sold on its terms.  Each is a single step.  *)
(* A use that is given back makes room for another; the bonus stays.       *)
(***************************************************************************)
EXTENDS Naturals, FiniteSets

CONSTANTS User, Invoice, None, Limit

VARIABLES
    holders,  \* users who have the code
    had,      \* users who have ever had it
    devices,  \* invoices for devices, which do not use the code
    buyer,    \* for whom each invoice was granted, None before
    bonus     \* bonuses each user has got

vars == <<holders, had, devices, buyer, bonus>>

Init ==
    /\ holders = {} /\ had = {} /\ devices = {}
    /\ buyer = [i \in Invoice |-> None]
    /\ bonus = [u \in User |-> 0]

Take(u) ==
    /\ u \notin holders
    /\ holders' = holders \cup {u} /\ had' = had \cup {u}

Enjoy(u) == Take(u) /\ bonus' = [bonus EXCEPT ![u] = @ + 1]

Redeem(u) ==
    /\ Cardinality(holders) < Limit
    /\ Enjoy(u)
    /\ UNCHANGED <<devices, buyer>>

Sell(u, i) ==
    /\ buyer[i] = None
    /\ buyer' = [buyer EXCEPT ![i] = u]
    /\ UNCHANGED devices

\* The invoice is granted with the code.
Buy(u, i) == i \notin devices /\ Sell(u, i) /\ Enjoy(u)

\* The invoice is granted without the code's bonus: it is for devices, or its user
\* has had the code already.
BuyPlain(u, i) ==
    /\ i \in devices \/ u \in had
    /\ Sell(u, i)
    /\ UNCHANGED <<holders, had, bonus>>

\* The code is used for an invoice that is then not granted.
Waste(u) == Take(u) /\ UNCHANGED <<devices, buyer, bonus>>

\* payment.canceled gives the use back.
Return(u) ==
    /\ u \in holders
    /\ holders' = holders \ {u}
    /\ UNCHANGED <<had, devices, buyer, bonus>>

\* The invoice is made out for devices.
ForDevices(i) ==
    /\ buyer[i] = None
    /\ devices' = devices \cup {i}
    /\ UNCHANGED <<holders, had, buyer, bonus>>

Next ==
    \/ \E i \in Invoice : ForDevices(i)
    \/ \E u \in User :
          \/ Redeem(u) \/ Waste(u) \/ Return(u)
          \/ \E i \in Invoice : Buy(u, i) \/ BuyPlain(u, i)

Spec == Init /\ [][Next]_vars
================================================================================
