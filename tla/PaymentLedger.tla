----------------------------- MODULE PaymentLedger -----------------------------
(***************************************************************************)
(* What the shop promises about a payment: one that the provider reports   *)
(* paid is granted exactly once or refused, one that expired unpaid is     *)
(* never granted, and no verdict is taken back.                            *)
(***************************************************************************)
EXTENDS Naturals

CONSTANT Payment

VARIABLES
    state,        \* "unpaid", "paid", "granted", "refused" or "void"
    entitlements  \* how many times what was bought has been added to the account

vars == <<state, entitlements>>

Init ==
    /\ state = [p \in Payment |-> "unpaid"]
    /\ entitlements = [p \in Payment |-> 0]

Move(p, from, to) ==
    /\ state[p] = from
    /\ state' = [state EXCEPT ![p] = to]

Pay(p) == Move(p, "unpaid", "paid") /\ UNCHANGED entitlements

Expire(p) == Move(p, "unpaid", "void") /\ UNCHANGED entitlements

Grant(p) ==
    /\ Move(p, "paid", "granted")
    /\ entitlements' = [entitlements EXCEPT ![p] = @ + 1]

\* The purchase cannot be applied any more, and the money is not returned.
Refuse(p) == Move(p, "paid", "refused") /\ UNCHANGED entitlements

Next == \E p \in Payment : Pay(p) \/ Expire(p) \/ Grant(p) \/ Refuse(p)

Spec == Init /\ [][Next]_vars
================================================================================
