------------------------------- MODULE PromoCodes -------------------------------
(***************************************************************************)
(* One promo code, from the two ways of redeeming it to its counter.  A    *)
(* standalone code is applied at once (services/promo_code_service.py).  A *)
(* checkout code is checked when the Mini App creates the invoice          *)
(* (webapp/billing_checkout_adjustments.py), which freezes the price, and  *)
(* used when the invoice is paid (services/payment_promo.py, inside the    *)
(* finalizer's transaction).  A payment.canceled event gives the use back  *)
(* (services/event_reactions.py).                                          *)
(*                                                                         *)
(* A step is a query, or the code between two awaits.  A transaction that  *)
(* has updated the code's row keeps it locked until it ends; what it wrote *)
(* shows to the others when it commits.  Finalizers of one invoice do not  *)
(* overlap here: ProviderSettlement is about those.  An activation may     *)
(* refuse, by an answer of None, before it has looked at the code or after *)
(* it has used it; the invoice has succeeded all the same.                 *)
(***************************************************************************)
EXTENDS Naturals, FiniteSets

CONSTANTS
    User,
    Invoice,      \* payments rows a checkout with the code may create
    None,         \* no user, no payment
    Applier,      \* requests that apply the code (bot or Mini App)
    Checkout,     \* requests that create an invoice with the code
    Settler,      \* deliveries of "paid" being finalized
    Canceler,     \* deliveries of "declined" being handled
    Limit,        \* promo_codes.max_activations
    MaxEdits,     \* bound on the administrator's changes of the code
    MaxFaults     \* bound on exceptions and crashes

Task == Applier \cup Checkout \cup Settler \cup Canceler

ASSUME KindsAssumption ==
    /\ Applier \cap Checkout = {} /\ Settler \cap Canceler = {}
    /\ (Applier \cup Checkout) \cap (Settler \cup Canceler) = {}

ASSUME PromoAssumption ==
    /\ None \notin User \cup Invoice
    /\ Limit \in Nat /\ MaxEdits \in Nat /\ MaxFaults \in Nat

VARIABLES
    redeemable,  \* is_active, not archived, not past valid_until
    standalone,  \* effects.can_apply_standalone
    used,        \* promo_codes.current_activations, committed
    uses,        \* rows of promo_code_activations, committed
    status,      \* of each invoice; "none" before it is created
    owner,       \* payments.user_id
    devices,     \* invoices whose sale_mode is devices: discounted by the code, never using it
    bonus,       \* committed grants of the code's bonus, by user
    had,         \* users who have ever had a committed use (history)
    refused,     \* invoices that have succeeded without an activation (history)
    pc, user, invoice, grants,
    edits, faults

code == <<redeemable, standalone, edits>>
payments == <<status, owner, devices>>
ledger == <<used, uses, bonus, had, refused>>
locals == <<user, invoice, grants>>
vars == <<code, payments, ledger, pc, locals, faults>>

\* "pending" also stands for created, new and waiting_for_capture.
Status == {"none", "pending", "failed_creation", "finalizing", "activation_failed", "succeeded",
           "failed"}

Position == {"idle", "quoted", "cleared", "check", "take", "holding", "finish", "react", "release"}

Use == [user : User, payment : Invoice \cup {None}]

TypeOK ==
    /\ redeemable \in BOOLEAN /\ standalone \in BOOLEAN
    /\ used \in Nat /\ uses \subseteq Use
    /\ status \in [Invoice -> Status] /\ owner \in [Invoice -> User \cup {None}]
    /\ devices \subseteq Invoice
    /\ bonus \in [User -> Nat] /\ had \subseteq User /\ refused \subseteq Invoice
    /\ pc \in [Task -> Position]
    /\ user \in [Task -> User \cup {None}] /\ invoice \in [Task -> Invoice \cup {None}]
    /\ grants \in [Task -> BOOLEAN]
    /\ edits \in Nat /\ faults \in Nat

Init ==
    /\ redeemable = TRUE /\ standalone \in BOOLEAN
    /\ used = 0 /\ uses = {}
    /\ status = [i \in Invoice |-> "none"] /\ owner = [i \in Invoice |-> None]
    /\ devices = {}
    /\ bonus = [u \in User |-> 0] /\ had = {} /\ refused = {}
    /\ pc = [t \in Task |-> "idle"]
    /\ user = [t \in Task |-> None]
    /\ invoice = [t \in Task |-> None]
    /\ grants = [t \in Task |-> FALSE]
    /\ edits = 0 /\ faults = 0

Goto(t, from, to) == pc[t] = from /\ pc' = [pc EXCEPT ![t] = to]

\* The request ends, its transaction with it.
End(t) ==
    /\ pc' = [pc EXCEPT ![t] = "idle"]
    /\ user' = [user EXCEPT ![t] = None]
    /\ invoice' = [invoice EXCEPT ![t] = None]
    /\ grants' = [grants EXCEPT ![t] = FALSE]

\* The code's row is not locked by a transaction that has updated it.
RowFree == \A t \in Task : pc[t] # "holding"

\* get_user_activation_for_promo
UsesOf(u) == {a \in uses : a.user = u}

\* get_active_promo_code_by_code_str
Offered == redeemable /\ used < Limit

\* user_has_pending_payment_with_promo
HasPending(u) == \E i \in Invoice : status[i] = "pending" /\ owner[i] = u

(***************************************************************************)
(* The administrator and the calendar.                                     *)
(***************************************************************************)

Toggle ==
    /\ edits < MaxEdits /\ RowFree
    /\ redeemable' = ~redeemable /\ edits' = edits + 1
    /\ UNCHANGED <<standalone, payments, ledger, pc, locals, faults>>

EditEffects ==
    /\ edits < MaxEdits /\ RowFree
    /\ standalone' = ~standalone /\ edits' = edits + 1
    /\ UNCHANGED <<redeemable, payments, ledger, pc, locals, faults>>

(***************************************************************************)
(* Checkout: three reads, and the invoice in a transaction of its own.     *)
(***************************************************************************)

\* The code, its effects, and the user's use of it.
Quote(t, u) ==
    /\ Offered /\ ~standalone /\ UsesOf(u) = {}
    /\ Goto(t, "idle", "quoted")
    /\ user' = [user EXCEPT ![t] = u]
    /\ UNCHANGED <<code, payments, ledger, invoice, grants, faults>>

\* The last part of _core_state_policy.
Clear(t) ==
    /\ pc[t] = "quoted"
    /\ IF HasPending(user[t])
       THEN End(t)
       ELSE pc' = [pc EXCEPT ![t] = "cleared"] /\ UNCHANGED locals
    /\ UNCHANGED <<code, payments, ledger, faults>>

\* create_base_payment_record commits the invoice, for a term, traffic or devices,
\* before the provider is asked.
Create(t, i) ==
    /\ pc[t] = "cleared" /\ status[i] = "none"
    /\ status' = [status EXCEPT ![i] = "pending"]
    /\ owner' = [owner EXCEPT ![i] = user[t]]
    /\ devices' = devices \/ devices' = devices \cup {i}
    /\ End(t)
    /\ UNCHANGED <<code, ledger, faults>>

\* mark_payment_failed_creation: the provider gave no payment link.
CreationFails(i) ==
    /\ status[i] = "pending"
    /\ status' = [status EXCEPT ![i] = "failed_creation"]
    /\ UNCHANGED <<code, owner, devices, ledger, pc, locals, faults>>

(***************************************************************************)
(* The two users of consume_promo_activation.                              *)
(***************************************************************************)

\* apply_promo_code, up to the call.
Apply(t, u) ==
    /\ Offered /\ standalone /\ UsesOf(u) = {}
    /\ Goto(t, "idle", "check")
    /\ user' = [user EXCEPT ![t] = u]
    /\ UNCHANGED <<code, payments, ledger, invoice, grants, faults>>

\* activate_subscription hands an invoice for devices over before it looks at the
\* code.
Entry(i) == IF i \in devices THEN "finish" ELSE "check"

\* A paid invoice is marked and its finalizer begins; a delivery that failed, or
\* whose process died, is repeated.
Settle(t, i) ==
    /\ status[i] \in {"pending", "failed", "finalizing", "activation_failed"}
    /\ \A s \in Settler : pc[s] # "idle" => invoice[s] # i
    /\ Goto(t, "idle", Entry(i))
    /\ status' = [status EXCEPT ![i] = "finalizing"]
    /\ user' = [user EXCEPT ![t] = owner[i]]
    /\ invoice' = [invoice EXCEPT ![t] = i]
    /\ UNCHANGED <<code, owner, devices, ledger, grants, faults>>

\* Mutant: any earlier use of the code entitles the invoice to the bonus.
CheckAnyUse(t) ==
    /\ pc[t] = "check"
    /\ IF UsesOf(user[t]) = {}
       THEN pc' = [pc EXCEPT ![t] = "take"] /\ UNCHANGED locals
       ELSE IF t \in Applier
       THEN End(t)
       ELSE /\ pc' = [pc EXCEPT ![t] = "finish"]
            /\ grants' = [grants EXCEPT ![t] = TRUE]
            /\ UNCHANGED <<user, invoice>>
    /\ UNCHANGED <<code, payments, ledger, faults>>

\* Mutant: an invoice is finalized on the code's present terms.
CheckOffered(t) ==
    /\ pc[t] = "check"
    /\ IF UsesOf(user[t]) = {} /\ Offered
       THEN pc' = [pc EXCEPT ![t] = "take"] /\ UNCHANGED locals
       ELSE IF t \in Applier
       THEN End(t)
       ELSE pc' = [pc EXCEPT ![t] = "finish"] /\ UNCHANGED locals
    /\ UNCHANGED <<code, payments, ledger, faults>>

\* The use is looked for again.  A paid invoice goes on without its bonus when
\* the code was used for something else.
Check(t) ==
    /\ pc[t] = "check"
    /\ IF UsesOf(user[t]) = {}
       THEN pc' = [pc EXCEPT ![t] = "take"] /\ UNCHANGED locals
       ELSE IF t \in Applier
       THEN End(t)
       ELSE /\ pc' = [pc EXCEPT ![t] = "finish"]
            /\ grants' = [grants EXCEPT ![t] = \E a \in UsesOf(user[t]) : a.payment = invoice[t]]
            /\ UNCHANGED <<user, invoice>>
    /\ UNCHANGED <<code, payments, ledger, faults>>

\* Mutant: the limit binds nobody.
WithinLimitNever(t) == TRUE

\* enforce_limit
WithinLimit(t) == t \in Applier => used < Limit

\* Mutant: promo_code_activations has no unique constraint.
UniqueNever(t) == TRUE

\* uq_promo_user_activation
Unique(t) == UsesOf(user[t]) = {}

\* The UPDATE of the counter, which waits for the row and sees what is then
\* committed, and the INSERT of the use.
Take(t) ==
    /\ pc[t] = "take" /\ RowFree /\ WithinLimit(t) /\ Unique(t)
    /\ pc' = [pc EXCEPT ![t] = "holding"]
    /\ grants' = [grants EXCEPT ![t] = TRUE]
    /\ UNCHANGED <<code, payments, ledger, user, invoice, faults>>

\* No row was updated, and there is no use.
OverLimit(t) ==
    /\ pc[t] = "take" /\ RowFree /\ ~WithinLimit(t)
    /\ End(t)
    /\ UNCHANGED <<code, payments, ledger, faults>>

\* What becomes of an invoice whose transaction is rolled back.
RolledBack(t) ==
    IF t \in Settler
    THEN status' = status \/ status' = [status EXCEPT ![invoice[t]] = "activation_failed"]
    ELSE UNCHANGED status

\* The INSERT violates the constraint and the request's transaction ends.
Collide(t) ==
    /\ pc[t] = "take" /\ RowFree /\ WithinLimit(t) /\ ~Unique(t)
    /\ RolledBack(t)
    /\ End(t)
    /\ UNCHANGED <<code, owner, devices, ledger, faults>>

Grant(t) ==
    bonus' = IF grants[t] THEN [bonus EXCEPT ![user[t]] = @ + 1] ELSE bonus

\* The invoice of a finalizer; other requests have none.
Succeeds(t) == status' = IF t \in Settler THEN [status EXCEPT ![invoice[t]] = "succeeded"] ELSE status

\* The use and the counter are committed.
Record(t) ==
    /\ used' = used + 1
    /\ uses' = uses \cup {[user |-> user[t], payment |-> invoice[t]]}
    /\ had' = had \cup {user[t]}

\* The bonus, the use and the counter are committed together, for an invoice
\* with its status.
Commit(t) ==
    /\ pc[t] = "holding"
    /\ Record(t) /\ Grant(t) /\ Succeeds(t)
    /\ End(t)
    /\ UNCHANGED <<code, owner, devices, refused, faults>>

\* The activation has used the code and answers None: the use is committed with
\* the invoice's status, without what was bought and without the bonus.
Waste(t) ==
    /\ pc[t] = "holding"
    /\ Record(t) /\ Succeeds(t)
    /\ refused' = refused \cup {invoice[t]}
    /\ End(t)
    /\ UNCHANGED <<code, owner, devices, bonus, faults>>

\* The finalizer of an invoice that found a use of the code, or did not look.
Finish(t) ==
    /\ pc[t] = "finish"
    /\ Grant(t) /\ Succeeds(t)
    /\ End(t)
    /\ UNCHANGED <<code, owner, devices, used, uses, had, refused, faults>>

\* The activation answers None without having used the code.
Refuse(t) ==
    /\ pc[t] \in {"check", "finish"}
    /\ Succeeds(t)
    /\ refused' = refused \cup {invoice[t]}
    /\ End(t)
    /\ UNCHANGED <<code, owner, devices, used, uses, bonus, had, faults>>

\* Mutant: the release runs in a transaction of its own.
GiveBackApart(t) ==
    /\ t \in Applier /\ pc[t] = "holding"
    /\ used' = used - 1
    /\ End(t)
    /\ UNCHANGED <<code, payments, uses, bonus, had, refused, faults>>

\* The extension was refused: release_promo_activation in the same transaction,
\* which is then committed.
GiveBack(t) ==
    /\ t \in Applier /\ pc[t] = "holding"
    /\ End(t)
    /\ UNCHANGED <<code, payments, ledger, faults>>

(***************************************************************************)
(* payment.canceled.                                                       *)
(***************************************************************************)

\* A declined attempt, or a chargeback, is recorded unless the invoice has
\* succeeded; the event is emitted either way.
Decline(t, i) ==
    /\ status[i] \notin {"none", "failed_creation"}
    /\ Goto(t, "idle", "react")
    /\ status' = [status EXCEPT ![i] = IF @ = "succeeded" THEN @ ELSE "failed"]
    /\ user' = [user EXCEPT ![t] = owner[i]]
    /\ invoice' = [invoice EXCEPT ![t] = i]
    /\ UNCHANGED <<code, owner, devices, ledger, grants, faults>>

HeldUse(t) == [user |-> user[t], payment |-> invoice[t]]

\* The reaction looks for the use of the invoice, whatever the invoice's status.
React(t) ==
    /\ pc[t] = "react"
    /\ IF HeldUse(t) \in uses
       THEN pc' = [pc EXCEPT ![t] = "release"] /\ UNCHANGED locals
       ELSE End(t)
    /\ UNCHANGED <<code, payments, ledger, faults>>

\* Mutant: the counter is left alone.
ReleaseUseOnly(t) ==
    /\ pc[t] = "release" /\ RowFree
    /\ uses' = uses \ {HeldUse(t)}
    /\ End(t)
    /\ UNCHANGED <<code, payments, used, bonus, had, refused, faults>>

\* The DELETE by activation_id, which may find the row gone, and the UPDATE of
\* the counter, which does not ask.
Release(t) ==
    /\ pc[t] = "release" /\ RowFree
    /\ uses' = uses \ {HeldUse(t)}
    /\ used' = IF used > 0 THEN used - 1 ELSE 0
    /\ End(t)
    /\ UNCHANGED <<code, payments, bonus, had, refused, faults>>

(***************************************************************************)
(* Failures.                                                               *)
(***************************************************************************)

\* An exception ends the request; what it had not committed is rolled back.
Raise(t) ==
    /\ pc[t] # "idle" /\ faults < MaxFaults
    /\ faults' = faults + 1
    /\ RolledBack(t)
    /\ End(t)
    /\ UNCHANGED <<code, owner, devices, ledger>>

\* The backend process dies; what was not committed is rolled back.
Crash ==
    /\ faults < MaxFaults
    /\ faults' = faults + 1
    /\ pc' = [t \in Task |-> "idle"]
    /\ user' = [t \in Task |-> None]
    /\ invoice' = [t \in Task |-> None]
    /\ grants' = [t \in Task |-> FALSE]
    /\ UNCHANGED <<code, payments, ledger>>

Consume(t) == Check(t) \/ Take(t) \/ OverLimit(t) \/ Collide(t) \/ Commit(t)

Next ==
    \/ Toggle \/ EditEffects
    \/ \E t \in Checkout :
          \/ \E u \in User : Quote(t, u)
          \/ Clear(t)
          \/ \E i \in Invoice : Create(t, i)
    \/ \E i \in Invoice : CreationFails(i)
    \/ \E t \in Applier : (\E u \in User : Apply(t, u)) \/ GiveBack(t)
    \/ \E t \in Settler :
          (\E i \in Invoice : Settle(t, i)) \/ Finish(t) \/ Refuse(t) \/ Waste(t)
    \/ \E t \in Applier \cup Settler : Consume(t)
    \/ \E t \in Canceler : (\E i \in Invoice : Decline(t, i)) \/ React(t) \/ Release(t)
    \/ \E t \in Task : Raise(t)
    \/ Crash

Spec == Init /\ [][Next]_vars

(***************************************************************************)
(* Properties.                                                             *)
(***************************************************************************)

\* current_activations counts the rows of promo_code_activations: the limit the
\* administrator sets is compared with what was really used.  Appliers,
\* finalizers and the release of a use write both in one transaction.
UsesCounted == used = Cardinality(uses)

\* A user has one use of the code, whatever runs at the same time: the check
\* before the UPDATE is repeated by the constraint behind it.
UsedOnce == \A a, b \in uses : a.user = b.user => a = b

\* Standalone uses stay within max_activations, however many users race for the
\* last one; only invoices may exceed it (enforce_limit=False).
DirectWithinLimit == Cardinality({a \in uses : a.payment = None}) <= Limit

\* A paid invoice keeps the terms it was created with: once it is activated its
\* owner has used the code, though it was exhausted, disabled or changed in the
\* meantime.  Invoices for devices never use the code, an invoice whose activation
\* was refused may not, and payment.canceled may have taken the use back since.
InvoiceHonoured ==
    \A i \in Invoice \ (devices \cup refused) : status[i] = "succeeded" => owner[i] \in had

\* docs/features/promocodes.md: while an invoice with the code is pending its owner
\* gets no other one.  Two checkouts that both find none pending create two.
PendingBlocks ==
    [][\A i, j \in Invoice :
          status[i] = "pending" /\ status[j] = "none" /\ status'[j] = "pending"
             => owner'[j] # owner[i]]_vars

Offer == INSTANCE PromoOffer WITH
    holders <- {a.user : a \in uses},
    had <- had,
    devices <- devices,
    buyer <- [i \in Invoice |-> IF status[i] = "succeeded" /\ i \notin refused THEN owner[i] ELSE None],
    bonus <- bonus

\* Reads, the lock on the row, rollbacks and repeated deliveries add up to one
\* step per redemption: the use, its place within the limit, its bonus and its
\* invoice appear together, once.  A refusal after the use and a use given back
\* are steps of their own; an invoice for devices is sold without a use.
ImplementsOffer == Offer!Spec

(***************************************************************************)
(* The inductive invariants behind the safety properties.                  *)
(***************************************************************************)

\* An invoice belongs to a user from its creation on.
OwnersFit == \A i \in Invoice : status[i] # "none" => owner[i] \in User

\* A request in the middle of its work knows for whom and for what it works.
LocalsFit ==
    \A t \in Task :
        /\ t \in Checkout => pc[t] \in {"idle", "quoted", "cleared"}
        /\ t \in Applier => pc[t] \in {"idle", "check", "take", "holding"} /\ invoice[t] = None
        /\ t \in Settler => pc[t] \in {"idle", "check", "take", "holding", "finish"}
        /\ t \in Canceler => pc[t] \in {"idle", "react", "release"}
        /\ pc[t] # "idle" => user[t] \in User
        /\ t \in Settler \cup Canceler /\ pc[t] # "idle" =>
              /\ invoice[t] \in Invoice /\ status[invoice[t]] # "none"
              /\ user[t] = owner[invoice[t]]
        /\ pc[t] = "holding" => grants[t]

Shape == TypeOK /\ OwnersFit /\ LocalsFit

\* One transaction holds the row, and its user had no use when it took it.
HolderIsAlone ==
    \A t \in Task :
        pc[t] = "holding" =>
            UsesOf(user[t]) = {} /\ \A s \in Task : pc[s] = "holding" => s = t

CountInv == Shape /\ HolderIsAlone /\ UsedOnce

\* The use a release has found stays until it is released.
ReleaseFindsUse == \A t \in Task : pc[t] = "release" => HeldUse(t) \in uses

ReleaseInv == CountInv /\ ReleaseFindsUse

\* Whoever has a use has had one.
UsersHad == \A a \in uses : a.user \in had

\* Invoices are finalized by one request at a time, and hold a use only when they
\* have succeeded.  A finalizer that went on without taking the code's row is for
\* devices or has found another use, which may be gone since; it grants no bonus.
InvoicesFit ==
    /\ \A t \in Settler : pc[t] # "idle" => status[invoice[t]] # "succeeded"
    /\ \A s, t \in Settler : pc[s] # "idle" /\ pc[t] # "idle" /\ invoice[s] = invoice[t] => s = t
    /\ \A a \in uses : a.payment # None => status[a.payment] = "succeeded"
    /\ \A t \in Settler :
          /\ grants[t] => pc[t] = "holding"
          /\ pc[t] = "finish" => invoice[t] \in devices \/ user[t] \in had
          /\ pc[t] \in {"check", "take", "holding"} => invoice[t] \notin devices
    /\ \A i \in refused : status[i] = "succeeded"

PromoInv == CountInv /\ InvoicesFit /\ UsersHad /\ InvoiceHonoured
================================================================================
