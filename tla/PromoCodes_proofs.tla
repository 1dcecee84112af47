--------------------------- MODULE PromoCodes_proofs ---------------------------
(***************************************************************************)
(* Proofs about PromoCodes, for every set of users, invoices and requests, *)
(* every limit and every value of the bounds.                              *)
(***************************************************************************)
EXTENDS PromoCodes, FiniteSetTheorems, TLAPS

USE DEF code, payments, ledger, locals

-----------------------------------------------------------------------------

\* The members of the enumerated sets the actions name.
LEMMA Names ==
    /\ \A l \in {"idle", "quoted", "cleared", "check", "take", "holding", "finish", "react",
                 "release"} : l \in Position
    /\ \A s \in {"none", "pending", "failed_creation", "finalizing", "activation_failed",
                 "succeeded", "failed"} : s \in Status
    /\ Applier \subseteq Task /\ Checkout \subseteq Task
    /\ Settler \subseteq Task /\ Canceler \subseteq Task
BY DEF Position, Status, Task

\* LocalsFit for one request.
FitAt(t) ==
    /\ t \in Checkout => pc[t] \in {"idle", "quoted", "cleared"}
    /\ t \in Applier => pc[t] \in {"idle", "check", "take", "holding"} /\ invoice[t] = None
    /\ t \in Settler => pc[t] \in {"idle", "check", "take", "holding", "finish"}
    /\ t \in Canceler => pc[t] \in {"idle", "react", "release"}
    /\ pc[t] # "idle" => user[t] \in User
    /\ t \in Settler \cup Canceler /\ pc[t] # "idle" =>
          /\ invoice[t] \in Invoice /\ status[invoice[t]] # "none"
          /\ user[t] = owner[invoice[t]]
    /\ pc[t] = "holding" => grants[t]

\* A step of t leaves the other requests alone.
OthersKeep(t) ==
    \A s \in Task : s # t =>
        /\ pc'[s] = pc[s] /\ user'[s] = user[s]
        /\ invoice'[s] = invoice[s] /\ grants'[s] = grants[s]

\* An invoice stays created, its owner's, and for what it was made out.
OwnersKeep ==
    \A i \in Invoice :
        status[i] # "none" =>
            status'[i] # "none" /\ owner'[i] = owner[i] /\ (i \in devices' <=> i \in devices)

LocalTypes ==
    /\ pc \in [Task -> Position]
    /\ user \in [Task -> User \cup {None}] /\ invoice \in [Task -> Invoice \cup {None}]
    /\ grants \in [Task -> BOOLEAN]

OtherTypes ==
    /\ redeemable \in BOOLEAN /\ standalone \in BOOLEAN
    /\ used \in Nat /\ uses \subseteq Use
    /\ status \in [Invoice -> Status] /\ owner \in [Invoice -> User \cup {None}]
    /\ devices \subseteq Invoice
    /\ bonus \in [User -> Nat] /\ had \subseteq User /\ refused \subseteq Invoice
    /\ edits \in Nat /\ faults \in Nat

LEMMA TypesSplit == TypeOK <=> LocalTypes /\ OtherTypes
BY DEF TypeOK, LocalTypes, OtherTypes

\* What a step of one request owes for Shape to survive it.
LEMMA Frame ==
    ASSUME Shape, NEW t \in Task, OthersKeep(t), OwnersKeep, FitAt(t)',
           LocalTypes', OtherTypes', OwnersFit'
    PROVE  Shape'
<1>1. ASSUME NEW s \in Task PROVE FitAt(s)'
  <2>1. CASE s = t
    BY <2>1
  <2>2. CASE s # t
    <3>1. FitAt(s)
      BY DEF Shape, LocalsFit, FitAt
    <3>2. pc'[s] = pc[s] /\ user'[s] = user[s] /\ invoice'[s] = invoice[s] /\ grants'[s] = grants[s]
      BY <2>2 DEF OthersKeep
    <3> QED BY <3>1, <3>2 DEF FitAt, OwnersKeep
  <2> QED BY <2>1, <2>2
<1>2. LocalsFit'
  BY <1>1 DEF LocalsFit, FitAt
<1>3. TypeOK'
  BY DEF TypeOK, LocalTypes, OtherTypes
<1> QED BY <1>2, <1>3 DEF Shape

LEMMA EndFacts ==
    ASSUME LocalTypes, NEW t \in Task, End(t)
    PROVE  /\ LocalTypes' /\ OthersKeep(t)
           /\ pc'[t] = "idle" /\ invoice'[t] = None
BY Names DEF End, LocalTypes, OthersKeep

LEMMA EndFit ==
    ASSUME LocalTypes, NEW t \in Task, End(t)
    PROVE  FitAt(t)'
BY EndFacts DEF FitAt

LEMMA GotoFacts ==
    ASSUME LocalTypes, NEW t \in Task, NEW l \in Position, pc' = [pc EXCEPT ![t] = l]
    PROVE  /\ pc' \in [Task -> Position] /\ pc'[t] = l
           /\ \A s \in Task : s # t => pc'[s] = pc[s]
BY DEF LocalTypes

LEMMA InitShape == Init => Shape
BY Names DEF Init, Shape, TypeOK, OwnersFit, LocalsFit

-----------------------------------------------------------------------------

LEMMA QuoteShape == ASSUME Shape, NEW t \in Checkout, NEW u \in User, Quote(t, u) PROVE Shape'
<1> USE Names
<1>1. t \in Task /\ t \notin Applier /\ t \notin Settler \cup Canceler
  BY KindsAssumption
<1>2. LocalTypes /\ OtherTypes /\ OwnersFit
  BY TypesSplit DEF Shape
<1>3. LocalTypes' /\ OtherTypes' /\ OwnersFit' /\ OwnersKeep /\ OthersKeep(t)
  BY <1>1, <1>2 DEF Quote, Goto, LocalTypes, OtherTypes, OwnersFit, OwnersKeep, OthersKeep
<1>4. pc'[t] = "quoted" /\ user'[t] = u
  BY <1>1, <1>2 DEF Quote, Goto, LocalTypes
<1>5. FitAt(t)'
  BY <1>1, <1>4 DEF FitAt
<1> QED BY <1>1, <1>3, <1>5, Frame

LEMMA ClearShape == ASSUME Shape, NEW t \in Checkout, Clear(t) PROVE Shape'
<1> USE Names
<1>1. t \in Task /\ t \notin Applier /\ t \notin Settler \cup Canceler
  BY KindsAssumption
<1>2. LocalTypes /\ OtherTypes /\ OwnersFit
  BY TypesSplit DEF Shape
<1>3. OtherTypes' /\ OwnersFit' /\ OwnersKeep
  BY <1>2 DEF Clear, OtherTypes, OwnersFit, OwnersKeep
<1>4. CASE End(t)
  BY <1>1, <1>2, <1>3, <1>4, EndFacts, EndFit, Frame
<1>5. CASE pc' = [pc EXCEPT ![t] = "cleared"] /\ UNCHANGED locals
  <2>1. LocalTypes' /\ OthersKeep(t) /\ pc'[t] = "cleared"
    BY <1>1, <1>2, <1>5 DEF LocalTypes, OthersKeep
  <2>2. user'[t] \in User
    BY <1>1, <1>5 DEF Clear, Shape, LocalsFit
  <2>3. FitAt(t)'
    BY <1>1, <2>1, <2>2 DEF FitAt
  <2> QED BY <1>1, <1>3, <2>1, <2>3, Frame
<1> QED BY <1>4, <1>5 DEF Clear

LEMMA CreateShape == ASSUME Shape, NEW t \in Checkout, NEW i \in Invoice, Create(t, i) PROVE Shape'
<1> USE Names
<1>1. LocalTypes /\ OtherTypes /\ OwnersFit
  BY TypesSplit DEF Shape
<1>2. user[t] \in User
  BY DEF Create, Shape, LocalsFit
<1>3. OtherTypes' /\ OwnersFit' /\ OwnersKeep
  BY <1>1, <1>2 DEF Create, OtherTypes, OwnersFit, OwnersKeep
<1> QED BY <1>1, <1>3, EndFacts, EndFit, Frame DEF Create

\* Steps that leave the requests alone.
LEMMA QuietShape ==
    ASSUME Shape, UNCHANGED <<pc, locals>>, OwnersKeep, OtherTypes', OwnersFit'
    PROVE  Shape'
<1>1. LocalsFit'
  BY DEF Shape, LocalsFit, OwnersKeep
<1>2. LocalTypes'
  BY TypesSplit DEF Shape, LocalTypes
<1> QED BY <1>1, <1>2 DEF Shape, TypeOK, LocalTypes, OtherTypes

LEMMA EditShape == ASSUME Shape, Toggle \/ EditEffects PROVE Shape'
<1>1. OwnersKeep /\ OwnersFit'
  BY DEF Shape, Toggle, EditEffects, OwnersKeep, OwnersFit
<1>2. redeemable' \in BOOLEAN /\ standalone' \in BOOLEAN
  BY Zenon DEF Shape, TypeOK, Toggle, EditEffects
<1>3. edits' \in Nat
  BY DEF Shape, TypeOK, Toggle, EditEffects
<1>4. OtherTypes'
  BY <1>2, <1>3, TypesSplit DEF Shape, Toggle, EditEffects, OtherTypes
<1> QED BY <1>1, <1>4, QuietShape DEF Toggle, EditEffects

LEMMA CreationFailsShape == ASSUME Shape, NEW i \in Invoice, CreationFails(i) PROVE Shape'
<1>1. OwnersKeep /\ OtherTypes' /\ OwnersFit'
  BY TypesSplit, Names DEF Shape, CreationFails, OwnersKeep, OtherTypes, OwnersFit
<1> QED BY <1>1, QuietShape DEF CreationFails

LEMMA ApplyShape == ASSUME Shape, NEW t \in Applier, NEW u \in User, Apply(t, u) PROVE Shape'
<1> USE Names
<1>1. t \in Task /\ t \notin Checkout /\ t \notin Settler \cup Canceler
  BY KindsAssumption
<1>2. LocalTypes /\ OtherTypes /\ OwnersFit
  BY TypesSplit DEF Shape
<1>3. LocalTypes' /\ OtherTypes' /\ OwnersFit' /\ OwnersKeep /\ OthersKeep(t)
  BY <1>1, <1>2 DEF Apply, Goto, LocalTypes, OtherTypes, OwnersFit, OwnersKeep, OthersKeep
<1>4. pc'[t] = "check" /\ user'[t] = u /\ invoice'[t] = None
  BY <1>1, <1>2 DEF Apply, Goto, LocalTypes, Shape, LocalsFit
<1>5. FitAt(t)'
  BY <1>1, <1>4 DEF FitAt
<1> QED BY <1>1, <1>3, <1>5, Frame

\* A delivery that takes up a created invoice and goes to position l.
LEMMA DeliveryShape ==
    ASSUME Shape, NEW t \in Settler \cup Canceler, NEW i \in Invoice, NEW l \in Position, NEW s \in Status,
           status[i] # "none", s # "none", l # "holding",
           t \in Settler => l \in {"check", "finish"}, t \in Canceler => l = "react",
           pc' = [pc EXCEPT ![t] = l],
           status' = [status EXCEPT ![i] = s],
           user' = [user EXCEPT ![t] = owner[i]],
           invoice' = [invoice EXCEPT ![t] = i],
           UNCHANGED <<code, owner, devices, ledger, grants, faults>>
    PROVE  Shape'
<1> USE Names
<1>1. t \in Task /\ t \notin Checkout /\ t \notin Applier
  BY KindsAssumption
<1>2. LocalTypes /\ OtherTypes /\ OwnersFit
  BY TypesSplit DEF Shape
<1>3. owner[i] \in User
  BY <1>2 DEF OwnersFit
<1>4. LocalTypes'
  BY <1>1, <1>2, <1>3 DEF LocalTypes
<1>5. OtherTypes'
  BY <1>2 DEF OtherTypes
<1>6. OwnersFit' /\ OwnersKeep
  BY <1>2 DEF OtherTypes, OwnersFit, OwnersKeep
<1>7. OthersKeep(t)
  BY <1>1, <1>2 DEF LocalTypes, OthersKeep
<1>8. pc'[t] = l /\ user'[t] = owner[i] /\ invoice'[t] = i
  BY <1>1, <1>2 DEF LocalTypes
<1>9. status'[i] # "none"
  BY <1>2 DEF OtherTypes
<1>10. FitAt(t)'
  BY <1>1, <1>3, <1>8, <1>9 DEF FitAt
<1> QED BY <1>1, <1>4, <1>5, <1>6, <1>7, <1>10, Frame

LEMMA SettleShape == ASSUME Shape, NEW t \in Settler, NEW i \in Invoice, Settle(t, i) PROVE Shape'
BY Names, DeliveryShape, KindsAssumption DEF Settle, Goto, Entry

LEMMA DeclineShape == ASSUME Shape, NEW t \in Canceler, NEW i \in Invoice, Decline(t, i) PROVE Shape'
<1>1. PICK s \in {"succeeded", "failed"} : status' = [status EXCEPT ![i] = s]
  BY DEF Decline
<1>2. s \in Status /\ "react" \in Position /\ t \notin Settler
  BY Names, KindsAssumption
<1>3. /\ status[i] # "none" /\ pc' = [pc EXCEPT ![t] = "react"]
      /\ user' = [user EXCEPT ![t] = owner[i]] /\ invoice' = [invoice EXCEPT ![t] = i]
      /\ UNCHANGED <<code, owner, devices, ledger, grants, faults>>
  BY DEF Decline, Goto
<1> QED BY <1>1, <1>2, <1>3, DeliveryShape

\* A consumer that goes on within its work.
LEMMA ProceedShape ==
    ASSUME Shape, NEW t \in Applier \cup Settler, NEW l \in {"take", "holding", "finish"},
           pc[t] # "idle", l = "finish" => t \in Settler, l = "holding" => grants'[t],
           pc' = [pc EXCEPT ![t] = l],
           \E g \in BOOLEAN : grants' = [grants EXCEPT ![t] = g],
           UNCHANGED <<code, payments, ledger, user, invoice, faults>>
    PROVE  Shape'
<1> USE Names
<1>1. t \in Task /\ t \notin Checkout /\ t \notin Canceler /\ ~(t \in Applier /\ t \in Settler)
  BY KindsAssumption
<1>2. LocalTypes /\ OtherTypes /\ OwnersFit /\ FitAt(t)
  BY <1>1, TypesSplit DEF Shape, LocalsFit, FitAt
<1>3. OtherTypes' /\ OwnersFit' /\ OwnersKeep
  BY <1>2 DEF OtherTypes, OwnersFit, OwnersKeep
<1>4. LocalTypes' /\ OthersKeep(t) /\ pc'[t] = l
  BY <1>1, <1>2 DEF LocalTypes, OthersKeep
<1>5. FitAt(t)'
  BY <1>1, <1>2, <1>4 DEF FitAt
<1> QED BY <1>1, <1>3, <1>4, <1>5, Frame

LEMMA CheckShape == ASSUME Shape, NEW t \in Applier \cup Settler, Check(t) PROVE Shape'
<1>1. t \in Task /\ LocalTypes /\ OtherTypes /\ OwnersFit
  BY Names, TypesSplit DEF Shape
<1>2. OtherTypes' /\ OwnersFit' /\ OwnersKeep
  BY <1>1 DEF Check, OtherTypes, OwnersFit, OwnersKeep
<1>3. CASE End(t)
  BY <1>1, <1>2, <1>3, EndFacts, EndFit, Frame
<1>4. CASE pc' = [pc EXCEPT ![t] = "take"] /\ UNCHANGED locals
  <2>1. grants' = [grants EXCEPT ![t] = grants[t]] /\ grants[t] \in BOOLEAN
    BY <1>1, <1>4 DEF LocalTypes
  <2> QED BY <1>4, <2>1, ProceedShape DEF Check
<1>5. CASE /\ t \notin Applier /\ pc' = [pc EXCEPT ![t] = "finish"]
           /\ grants' = [grants EXCEPT ![t] = \E a \in UsesOf(user[t]) : a.payment = invoice[t]]
           /\ UNCHANGED <<user, invoice>>
  BY <1>5, ProceedShape DEF Check
<1> QED BY <1>3, <1>4, <1>5 DEF Check

LEMMA TakeShape == ASSUME Shape, NEW t \in Applier \cup Settler, Take(t) PROVE Shape'
<1>1. grants'[t]
  BY Names, TypesSplit DEF Take, Shape, LocalTypes
<1> QED BY <1>1, ProceedShape DEF Take

\* A request that ends, having changed nothing but perhaps its invoice's status.
LEMMA EndShape ==
    ASSUME Shape, NEW t \in Task, End(t), OtherTypes', OwnersKeep, OwnersFit'
    PROVE  Shape'
BY TypesSplit, EndFacts, EndFit, Frame DEF Shape

LEMMA OverLimitShape == ASSUME Shape, NEW t \in Applier \cup Settler, OverLimit(t) PROVE Shape'
<1>1. OtherTypes' /\ OwnersKeep /\ OwnersFit'
  BY TypesSplit DEF Shape, OverLimit, OtherTypes, OwnersFit, OwnersKeep
<1> QED BY <1>1, Names, EndShape DEF OverLimit

LEMMA RolledBackFacts ==
    ASSUME Shape, NEW t \in Task, pc[t] # "idle", RolledBack(t), UNCHANGED <<owner, devices>>
    PROVE  /\ status' \in [Invoice -> Status] /\ OwnersKeep /\ OwnersFit'
           /\ \A i \in Invoice : status'[i] # status[i] =>
                 t \in Settler /\ i = invoice[t] /\ status'[i] = "activation_failed"
<1>1. status \in [Invoice -> Status] /\ OwnersFit
  BY DEF Shape, TypeOK
<1>2. CASE t \in Settler
  <2>1. status' = status \/ status' = [status EXCEPT ![invoice[t]] = "activation_failed"]
    BY <1>2 DEF RolledBack
  <2>2. invoice[t] \in Invoice /\ status[invoice[t]] # "none"
    BY <1>2 DEF Shape, LocalsFit
  <2> QED BY <1>1, <1>2, <2>1, <2>2, Names DEF OwnersKeep, OwnersFit
<1>3. CASE t \notin Settler
  BY <1>1, <1>3 DEF RolledBack, OwnersKeep, OwnersFit
<1> QED BY <1>2, <1>3

LEMMA CollideShape == ASSUME Shape, NEW t \in Applier \cup Settler, Collide(t) PROVE Shape'
<1>1. status' \in [Invoice -> Status] /\ OwnersKeep /\ OwnersFit'
  BY Names, RolledBackFacts DEF Collide
<1>2. OtherTypes'
  BY <1>1, TypesSplit DEF Shape, Collide, OtherTypes
<1> QED BY <1>1, <1>2, Names, EndShape DEF Collide

LEMMA RaiseShape == ASSUME Shape, NEW t \in Task, Raise(t) PROVE Shape'
<1>1. status' \in [Invoice -> Status] /\ OwnersKeep /\ OwnersFit'
  BY RolledBackFacts DEF Raise
<1>2. OtherTypes'
  BY <1>1, TypesSplit DEF Shape, Raise, OtherTypes
<1> QED BY <1>1, <1>2, EndShape DEF Raise

\* The grant keeps the bonus a natural number for each user.
LEMMA GrantType == ASSUME TypeOK, NEW t \in Task, Grant(t) PROVE bonus' \in [User -> Nat]
<1>1. bonus' = [bonus EXCEPT ![user[t]] = @ + 1] \/ bonus' = bonus
  BY Zenon DEF Grant
<1> QED BY <1>1 DEF TypeOK

\* A request that holds the row and commits its use.
Recording(t) == pc[t] = "holding" /\ Record(t) /\ End(t)

LEMMA RecordFacts ==
    ASSUME Shape, NEW t \in Applier \cup Settler, Recording(t)
    PROVE  /\ t \in Task /\ user[t] \in User /\ grants[t]
           /\ HeldUse(t) \in Use /\ uses' = uses \cup {HeldUse(t)}
           /\ t \in Settler => invoice[t] \in Invoice /\ user[t] = owner[invoice[t]]
           /\ t \in Settler => status[invoice[t]] # "none"
           /\ t \notin Settler => invoice[t] = None
<1>1. t \in Task /\ pc[t] = "holding"
  BY Names DEF Recording
<1>2. LocalTypes
  BY TypesSplit DEF Shape
<1>3. FitAt(t)
  BY <1>1 DEF Shape, LocalsFit, FitAt
<1>4. user[t] \in User /\ grants[t] /\ invoice[t] \in Invoice \cup {None}
  BY <1>1, <1>2, <1>3 DEF FitAt, LocalTypes
<1>5. HeldUse(t) \in Use
  BY <1>4 DEF HeldUse, Use
<1>6. uses' = uses \cup {HeldUse(t)}
  BY DEF Recording, Record, HeldUse
<1> QED BY <1>1, <1>3, <1>4, <1>5, <1>6 DEF FitAt

\* What becomes of the invoices when a request succeeds.
LEMMA SucceedsFacts ==
    ASSUME Shape, NEW t \in Task, pc[t] # "idle", Succeeds(t), UNCHANGED <<owner, devices>>
    PROVE  /\ status' \in [Invoice -> Status] /\ OwnersKeep /\ OwnersFit'
           /\ \A i \in Invoice :
                 status'[i] = IF t \in Settler /\ i = invoice[t] THEN "succeeded" ELSE status[i]
<1>1. status \in [Invoice -> Status] /\ OwnersFit
  BY DEF Shape, TypeOK
<1>2. t \in Settler => invoice[t] \in Invoice /\ status[invoice[t]] # "none"
  BY DEF Shape, LocalsFit
<1> QED BY <1>1, <1>2, Names DEF Succeeds, OwnersKeep, OwnersFit

LEMMA CommitShape == ASSUME Shape, NEW t \in Applier \cup Settler, Commit(t) PROVE Shape'
<1>1. Recording(t) /\ t \in Task
  BY Names DEF Commit, Recording
<1>2. bonus' \in [User -> Nat]
  BY <1>1, GrantType DEF Commit, Shape
<1>3. status' \in [Invoice -> Status] /\ OwnersKeep /\ OwnersFit'
  BY <1>1, SucceedsFacts DEF Commit
<1>4. uses' \subseteq Use /\ had' \subseteq User
  BY <1>1, RecordFacts DEF Commit, Record, Shape, TypeOK
<1>5. used' \in Nat
  BY DEF Commit, Record, Shape, TypeOK
<1>6. OtherTypes'
  BY <1>2, <1>3, <1>4, <1>5, TypesSplit DEF Shape, Commit, OtherTypes
<1> QED BY <1>1, <1>3, <1>6, EndShape DEF Commit

LEMMA WasteShape == ASSUME Shape, NEW t \in Settler, Waste(t) PROVE Shape'
<1>1. Recording(t) /\ t \in Task
  BY Names DEF Waste, Recording
<1>2. status' \in [Invoice -> Status] /\ OwnersKeep /\ OwnersFit'
  BY <1>1, SucceedsFacts DEF Waste
<1>3. uses' \subseteq Use /\ had' \subseteq User
  BY <1>1, RecordFacts DEF Waste, Record, Shape, TypeOK
<1>4. used' \in Nat
  BY DEF Waste, Record, Shape, TypeOK
<1>5. refused' \subseteq Invoice
  BY <1>1, RecordFacts DEF Waste, Shape, TypeOK
<1>6. OtherTypes'
  BY <1>2, <1>3, <1>4, <1>5, TypesSplit DEF Shape, Waste, OtherTypes
<1> QED BY <1>1, <1>2, <1>6, EndShape DEF Waste

LEMMA FinishShape == ASSUME Shape, NEW t \in Settler, Finish(t) PROVE Shape'
<1>1. t \in Task
  BY Names
<1>2. bonus' \in [User -> Nat]
  BY <1>1, GrantType DEF Finish, Shape
<1>3. status' \in [Invoice -> Status] /\ OwnersKeep /\ OwnersFit'
  BY <1>1, SucceedsFacts DEF Finish
<1>4. OtherTypes'
  BY <1>2, <1>3, TypesSplit DEF Shape, Finish, OtherTypes
<1> QED BY <1>1, <1>3, <1>4, EndShape DEF Finish

LEMMA RefuseShape == ASSUME Shape, NEW t \in Settler, Refuse(t) PROVE Shape'
<1>1. t \in Task /\ pc[t] # "idle"
  BY Names DEF Refuse
<1>2. status' \in [Invoice -> Status] /\ OwnersKeep /\ OwnersFit'
  BY <1>1, SucceedsFacts DEF Refuse
<1>3. refused' \subseteq Invoice
  BY <1>1 DEF Refuse, Shape, TypeOK, LocalsFit
<1>4. OtherTypes'
  BY <1>2, <1>3, TypesSplit DEF Shape, Refuse, OtherTypes
<1> QED BY <1>1, <1>2, <1>4, EndShape DEF Refuse

LEMMA GiveBackShape == ASSUME Shape, NEW t \in Applier, GiveBack(t) PROVE Shape'
<1>1. OtherTypes' /\ OwnersKeep /\ OwnersFit'
  BY TypesSplit DEF Shape, GiveBack, OtherTypes, OwnersFit, OwnersKeep
<1> QED BY <1>1, Names, EndShape DEF GiveBack

LEMMA ReactShape == ASSUME Shape, NEW t \in Canceler, React(t) PROVE Shape'
<1> USE Names
<1>1. t \in Task /\ t \notin Checkout /\ t \notin Applier /\ t \notin Settler
  BY KindsAssumption
<1>2. LocalTypes /\ OtherTypes /\ OwnersFit /\ FitAt(t)
  BY <1>1, TypesSplit DEF Shape, LocalsFit, FitAt
<1>3. OtherTypes' /\ OwnersFit' /\ OwnersKeep
  BY <1>2 DEF React, OtherTypes, OwnersFit, OwnersKeep
<1>4. CASE End(t)
  BY <1>1, <1>3, <1>4, EndShape
<1>5. CASE pc' = [pc EXCEPT ![t] = "release"] /\ UNCHANGED locals
  <2>1. LocalTypes' /\ OthersKeep(t) /\ pc'[t] = "release"
    BY <1>1, <1>2, <1>5 DEF LocalTypes, OthersKeep
  <2>2. FitAt(t)'
    BY <1>1, <1>2, <1>5, <2>1 DEF FitAt, React
  <2> QED BY <1>1, <1>3, <2>1, <2>2, Frame
<1> QED BY <1>4, <1>5 DEF React

LEMMA ReleaseShape == ASSUME Shape, NEW t \in Canceler, Release(t) PROVE Shape'
<1>1. OtherTypes' /\ OwnersKeep /\ OwnersFit'
  BY TypesSplit DEF Shape, Release, OtherTypes, OwnersFit, OwnersKeep
<1> QED BY <1>1, Names, EndShape DEF Release

LEMMA CrashShape == ASSUME Shape, Crash PROVE Shape'
<1>1. TypeOK'
  BY Names DEF Crash, Shape, TypeOK
<1>2. OwnersFit' /\ LocalsFit'
  BY DEF Crash, Shape, OwnersFit, LocalsFit, TypeOK
<1> QED BY <1>1, <1>2 DEF Shape

\* Every step keeps Shape.
LEMMA NextShape == Shape /\ [Next]_vars => Shape'
<1> SUFFICES ASSUME Shape, [Next]_vars PROVE Shape'
  OBVIOUS
<1>1. CASE UNCHANGED vars
  BY <1>1 DEF vars, Shape, TypeOK, OwnersFit, LocalsFit
<1>2. ASSUME NEW t \in Checkout,
             (\E u \in User : Quote(t, u)) \/ Clear(t) \/ \E i \in Invoice : Create(t, i)
      PROVE  Shape'
  BY <1>2, QuoteShape, ClearShape, CreateShape
<1>3. ASSUME NEW t \in Applier, (\E u \in User : Apply(t, u)) \/ GiveBack(t) PROVE Shape'
  BY <1>3, ApplyShape, GiveBackShape
<1>4. ASSUME NEW t \in Settler,
             (\E i \in Invoice : Settle(t, i)) \/ Finish(t) \/ Refuse(t) \/ Waste(t)
      PROVE  Shape'
  BY <1>4, SettleShape, FinishShape, RefuseShape, WasteShape
<1>5. ASSUME NEW t \in Applier \cup Settler, Consume(t) PROVE Shape'
  BY <1>5, CheckShape, TakeShape, OverLimitShape, CollideShape, CommitShape DEF Consume
<1>6. ASSUME NEW t \in Canceler, (\E i \in Invoice : Decline(t, i)) \/ React(t) \/ Release(t)
      PROVE  Shape'
  BY <1>6, DeclineShape, ReactShape, ReleaseShape
<1>7. ASSUME NEW t \in Task, Raise(t) PROVE Shape'
  BY <1>7, RaiseShape
<1> QED BY <1>1, <1>2, <1>3, <1>4, <1>5, <1>6, <1>7, EditShape, CreationFailsShape, CrashShape DEF Next

LEMMA ShapeAlways == Spec => []Shape
BY InitShape, NextShape, PTL DEF Spec

\* The type invariant, for every set of users, invoices and requests.
THEOREM Typing == Spec => []TypeOK
<1>1. Shape => TypeOK
  BY DEF Shape
<1> QED BY <1>1, ShapeAlways, PTL

-----------------------------------------------------------------------------

\* A step of t that neither takes the row nor finds a use to release.
Plain(t) == pc'[t] \notin {"holding", "release"} /\ UNCHANGED <<used, uses>>

Kinds ==
    \/ UNCHANGED <<pc, user, invoice, grants, used, uses>>
    \/ Crash
    \/ \E t \in Applier \cup Settler : OthersKeep(t) /\ (Take(t) \/ Recording(t))
    \/ \E t \in Canceler : OthersKeep(t) /\ (React(t) \/ Release(t))
    \/ \E t \in Task : OthersKeep(t) /\ Plain(t)

\* Steps by what they do to the row and to the uses.
LEMMA StepKinds == Shape /\ [Next]_vars => Kinds
<1> SUFFICES ASSUME Shape, [Next]_vars PROVE Kinds
  OBVIOUS
<1> USE Names
<1>0. LocalTypes
  BY TypesSplit DEF Shape
<1>1. CASE UNCHANGED vars
  BY <1>1 DEF vars, Kinds
<1>2. CASE Toggle \/ EditEffects \/ \E i \in Invoice : CreationFails(i)
  BY <1>2 DEF Toggle, EditEffects, CreationFails, Kinds
<1>3. ASSUME NEW t \in Task, End(t), UNCHANGED <<used, uses>> PROVE Kinds
  BY <1>0, <1>3, EndFacts DEF Plain, Kinds
<1>4. ASSUME NEW t \in Task, NEW l \in Position \ {"holding", "release"},
             pc' = [pc EXCEPT ![t] = l], UNCHANGED <<used, uses>>,
             \A s \in Task : s # t => user'[s] = user[s] /\ invoice'[s] = invoice[s]
                                        /\ grants'[s] = grants[s]
      PROVE  Kinds
  BY <1>0, <1>4 DEF LocalTypes, OthersKeep, Plain, Kinds
<1>5. ASSUME NEW t \in Checkout,
             (\E u \in User : Quote(t, u)) \/ Clear(t) \/ \E i \in Invoice : Create(t, i)
      PROVE  Kinds
  <2>1. CASE End(t)
    BY <1>3, <1>5, <2>1 DEF Quote, Clear, Create
  <2>2. ASSUME NEW u \in User, Quote(t, u) PROVE Kinds
    BY <1>0, <1>4, <2>2 DEF Quote, Goto, LocalTypes
  <2>3. CASE Clear(t) /\ ~End(t)
    BY <1>4, <2>3 DEF Clear
  <2> QED BY <1>5, <2>1, <2>2, <2>3 DEF Create
<1>6. ASSUME NEW t \in Applier, (\E u \in User : Apply(t, u)) \/ GiveBack(t) PROVE Kinds
  <2>1. CASE GiveBack(t)
    BY <1>3, <2>1 DEF GiveBack
  <2>2. ASSUME NEW u \in User, Apply(t, u) PROVE Kinds
    BY <1>0, <1>4, <2>2 DEF Apply, Goto, LocalTypes
  <2> QED BY <1>6, <2>1, <2>2
<1>7. ASSUME NEW t \in Settler,
             (\E i \in Invoice : Settle(t, i)) \/ Finish(t) \/ Refuse(t) \/ Waste(t)
      PROVE  Kinds
  <2>1. CASE Finish(t) \/ Refuse(t)
    BY <1>3, <2>1 DEF Finish, Refuse
  <2>2. ASSUME NEW i \in Invoice, Settle(t, i) PROVE Kinds
    <3>1. Entry(i) \in Position \ {"holding", "release"}
      BY DEF Entry
    <3> QED BY <1>0, <1>4, <2>2, <3>1 DEF Settle, Goto, LocalTypes
  <2>3. CASE Waste(t)
    BY <1>0, <2>3, EndFacts DEF Waste, Recording, Kinds
  <2> QED BY <1>7, <2>1, <2>2, <2>3
<1>8. ASSUME NEW t \in Applier \cup Settler, Consume(t) PROVE Kinds
  <2>1. CASE Check(t)
    <3>1. CASE End(t)
      BY <1>3, <2>1, <3>1 DEF Check
    <3>2. CASE ~End(t)
      <4>1. PICK l \in {"take", "finish"} : pc' = [pc EXCEPT ![t] = l]
        BY <2>1, <3>2 DEF Check
      <4>2. \A s \in Task : s # t => user'[s] = user[s] /\ invoice'[s] = invoice[s]
                                       /\ grants'[s] = grants[s]
        BY <1>0, <2>1, <3>2 DEF Check, LocalTypes
      <4> QED BY <1>4, <2>1, <4>1, <4>2 DEF Check
    <3> QED BY <3>1, <3>2
  <2>2. CASE Take(t)
    BY <1>0, <2>2 DEF Take, LocalTypes, OthersKeep, Kinds
  <2>3. CASE Commit(t)
    BY <1>0, <2>3, EndFacts DEF Commit, Recording, Kinds
  <2>4. CASE OverLimit(t) \/ Collide(t)
    BY <1>3, <2>4 DEF OverLimit, Collide
  <2> QED BY <1>8, <2>1, <2>2, <2>3, <2>4 DEF Consume
<1>9. ASSUME NEW t \in Canceler, (\E i \in Invoice : Decline(t, i)) \/ React(t) \/ Release(t)
      PROVE  Kinds
  <2>1. ASSUME NEW i \in Invoice, Decline(t, i) PROVE Kinds
    BY <1>0, <1>4, <2>1 DEF Decline, Goto, LocalTypes
  <2>2. CASE Release(t)
    BY <1>0, <2>2, EndFacts DEF Release, Kinds
  <2>3. CASE React(t) /\ End(t)
    BY <1>3, <2>3 DEF React
  <2>4. CASE React(t) /\ ~End(t)
    BY <1>0, <2>4 DEF React, LocalTypes, OthersKeep, Kinds
  <2> QED BY <1>9, <2>1, <2>2, <2>3, <2>4
<1>10. ASSUME NEW t \in Task, Raise(t) PROVE Kinds
  BY <1>3, <1>10 DEF Raise
<1> QED BY <1>1, <1>2, <1>5, <1>6, <1>7, <1>8, <1>9, <1>10 DEF Next, Kinds

\* A step that takes no row and records no use leaves the holder alone.
LEMMA NoNewHolder ==
    ASSUME CountInv, uses' \subseteq uses,
           \A s \in Task : pc'[s] = "holding" => pc[s] = "holding" /\ user'[s] = user[s]
    PROVE  HolderIsAlone' /\ UsedOnce'
BY DEF CountInv, HolderIsAlone, UsedOnce, UsesOf

\* One user, one use, and one transaction that holds the row: for any number of
\* requests at the same time.
LEMMA NextCountInv == CountInv /\ [Next]_vars => CountInv'
<1> SUFFICES ASSUME CountInv, [Next]_vars PROVE HolderIsAlone' /\ UsedOnce'
  BY NextShape DEF CountInv
<1> USE Names
<1>1. Kinds /\ Shape /\ LocalTypes
  BY StepKinds, TypesSplit DEF CountInv, Shape
<1>2. CASE UNCHANGED <<pc, user, invoice, grants, used, uses>>
  BY <1>2, NoNewHolder
<1>3. CASE Crash
  BY <1>3, NoNewHolder DEF Crash
<1>4. ASSUME NEW t \in Task, OthersKeep(t), Plain(t) PROVE HolderIsAlone' /\ UsedOnce'
  BY <1>4, NoNewHolder DEF OthersKeep, Plain
<1>5. ASSUME NEW t \in Canceler, OthersKeep(t), React(t) \/ Release(t)
      PROVE  HolderIsAlone' /\ UsedOnce'
  <2>1. pc'[t] # "holding" /\ uses' \subseteq uses
    BY <1>1, <1>5 DEF React, Release, End, LocalTypes
  <2> QED BY <1>5, <2>1, NoNewHolder DEF OthersKeep
<1>6. ASSUME NEW t \in Applier \cup Settler, OthersKeep(t), Take(t)
      PROVE  HolderIsAlone' /\ UsedOnce'
  <2>1. uses' = uses /\ user'[t] = user[t] /\ UsesOf(user[t]) = {}
    BY <1>6 DEF Take, Unique
  <2>2. \A s \in Task : pc'[s] = "holding" => s = t
    BY <1>6 DEF Take, RowFree, OthersKeep
  <2> QED BY <2>1, <2>2 DEF CountInv, HolderIsAlone, UsedOnce, UsesOf
<1>7. ASSUME NEW t \in Applier \cup Settler, OthersKeep(t), Recording(t)
      PROVE  HolderIsAlone' /\ UsedOnce'
  <2>1. pc[t] = "holding" /\ UsesOf(user[t]) = {} /\ \A s \in Task : pc[s] = "holding" => s = t
    BY <1>7 DEF Recording, Record, CountInv, HolderIsAlone
  <2>2. \A s \in Task : pc'[s] # "holding"
    BY <1>1, <1>7, <2>1, EndFacts DEF Recording, Record, OthersKeep
  <2>3. uses' = uses \cup {HeldUse(t)} /\ HeldUse(t).user = user[t]
    BY <1>1, <1>7, RecordFacts DEF HeldUse
  <2> QED BY <2>1, <2>2, <2>3 DEF CountInv, HolderIsAlone, UsedOnce, UsesOf
<1> QED BY <1>1, <1>2, <1>3, <1>4, <1>5, <1>6, <1>7 DEF Kinds

LEMMA CountAlways == Spec => []CountInv
<1>1. Init => CountInv
  BY InitShape, Names DEF Init, CountInv, HolderIsAlone, UsedOnce
<1> QED BY <1>1, NextCountInv, PTL DEF Spec

\* A user has one use of the code, whatever runs at the same time.
THEOREM OneUse == Spec => []UsedOnce
<1>1. CountInv => UsedOnce
  BY DEF CountInv
<1> QED BY <1>1, CountAlways, PTL

-----------------------------------------------------------------------------

\* One payment.canceled reaction at a time.
OneCanceler == \A s, t \in Canceler : s = t

CounterInv == ReleaseInv /\ IsFiniteSet(uses) /\ UsesCounted

LEMMA NextCounterInv ==
    ASSUME OneCanceler, CounterInv, [Next]_vars
    PROVE  CounterInv'
<1> USE Names DEF CounterInv, ReleaseInv
<1>0. CountInv' /\ Kinds /\ Shape /\ LocalTypes
  BY NextCountInv, StepKinds, TypesSplit DEF CountInv, Shape
<1> SUFFICES ReleaseFindsUse' /\ IsFiniteSet(uses)' /\ UsesCounted'
  BY <1>0
<1>1. CASE UNCHANGED <<pc, user, invoice, grants, used, uses>>
  BY <1>1 DEF ReleaseFindsUse, HeldUse, UsesCounted
<1>2. CASE Crash
  BY <1>2 DEF Crash, ReleaseFindsUse, UsesCounted
<1>3. ASSUME NEW t \in Task, OthersKeep(t), Plain(t)
      PROVE  ReleaseFindsUse' /\ IsFiniteSet(uses)' /\ UsesCounted'
  BY <1>3 DEF OthersKeep, Plain, ReleaseFindsUse, HeldUse, UsesCounted
<1>4. ASSUME NEW t \in Canceler, OthersKeep(t), React(t)
      PROVE  ReleaseFindsUse' /\ IsFiniteSet(uses)' /\ UsesCounted'
  <2>1. uses' = uses /\ used' = used
    BY <1>4 DEF React
  <2>2. pc'[t] = "release" => HeldUse(t) \in uses /\ HeldUse(t)' = HeldUse(t)
    BY <1>0, <1>4, EndFacts DEF React, HeldUse
  <2>3. ReleaseFindsUse'
    BY <1>4, <2>1, <2>2 DEF OthersKeep, ReleaseFindsUse, HeldUse
  <2> QED BY <2>1, <2>3 DEF UsesCounted
<1>5. ASSUME NEW t \in Canceler, OthersKeep(t), Release(t)
      PROVE  ReleaseFindsUse' /\ IsFiniteSet(uses)' /\ UsesCounted'
  <2>1. HeldUse(t) \in uses /\ uses' = uses \ {HeldUse(t)}
    BY <1>5 DEF Release, ReleaseFindsUse
  <2>2. Cardinality(uses') = Cardinality(uses) - 1 /\ IsFiniteSet(uses')
    BY <2>1, FS_RemoveElement
  <2>3. Cardinality(uses) # 0
    BY <2>1, FS_EmptySet
  <2>4. used' = used - 1
    BY <1>5, <2>3 DEF Release, UsesCounted, CountInv, Shape, TypeOK
  <2>5. \A s \in Task : pc'[s] # "release"
    <3>1. pc'[t] = "idle"
      BY <1>0, <1>5, EndFacts DEF Release
    <3>2. ASSUME NEW s \in Task, pc[s] = "release" PROVE s = t
      BY <1>0, <3>2 DEF Shape, LocalsFit, OneCanceler, Task
    <3> QED BY <1>5, <3>1, <3>2 DEF OthersKeep
  <2> QED BY <2>2, <2>4, <2>5 DEF UsesCounted, ReleaseFindsUse
<1>6. ASSUME NEW t \in Applier \cup Settler, OthersKeep(t), Take(t)
      PROVE  ReleaseFindsUse' /\ IsFiniteSet(uses)' /\ UsesCounted'
  <2>1. uses' = uses /\ used' = used /\ pc'[t] # "release"
    BY <1>0, <1>6 DEF Take, LocalTypes
  <2> QED BY <1>6, <2>1 DEF OthersKeep, ReleaseFindsUse, HeldUse, UsesCounted
<1>7. ASSUME NEW t \in Applier \cup Settler, OthersKeep(t), Recording(t)
      PROVE  ReleaseFindsUse' /\ IsFiniteSet(uses)' /\ UsesCounted'
  <2>1. uses' = uses \cup {HeldUse(t)} /\ used' = used + 1 /\ pc'[t] = "idle"
    BY <1>0, <1>7, RecordFacts, EndFacts DEF Recording, Record
  <2>2. HeldUse(t) \notin uses
    <3>1. UsesOf(user[t]) = {} /\ HeldUse(t).user = user[t]
      BY <1>7 DEF Recording, Record, CountInv, HolderIsAlone, HeldUse
    <3> QED BY <3>1 DEF UsesOf
  <2>3. Cardinality(uses') = Cardinality(uses) + 1 /\ IsFiniteSet(uses')
    BY <2>1, <2>2, FS_AddElement
  <2>4. ReleaseFindsUse'
    BY <1>7, <2>1 DEF OthersKeep, ReleaseFindsUse, HeldUse
  <2> QED BY <2>1, <2>3, <2>4 DEF UsesCounted
<1> QED BY <1>0, <1>1, <1>2, <1>3, <1>4, <1>5, <1>6, <1>7 DEF Kinds

\* While reactions to payment.canceled do not overlap, current_activations counts
\* the uses.
THEOREM Counted == ASSUME OneCanceler PROVE Spec => []UsesCounted
<1>1. Init => CountInv
  BY InitShape, Names DEF Init, CountInv, HolderIsAlone, UsedOnce
<1>2. Init => CounterInv
  BY <1>1, FS_EmptySet DEF Init, CounterInv, ReleaseInv, ReleaseFindsUse, UsesCounted
<1>3. CounterInv /\ [Next]_vars => CounterInv'
  BY NextCounterInv
<1>4. CounterInv => UsesCounted
  BY DEF CounterInv
<1> QED BY <1>2, <1>3, <1>4, PTL DEF Spec

-----------------------------------------------------------------------------

DirectUses == {a \in uses : a.payment = None}

\* A standalone use in the making has room below the limit: the row it holds keeps
\* the counter where the UPDATE found it.
HolderHasRoom == \A t \in Applier : pc[t] = "holding" => used < Limit

LimitInv == CounterInv /\ HolderHasRoom /\ DirectWithinLimit

\* A set within another and one element has at most one member more.
LEMMA AtMostOneMore ==
    ASSUME NEW S, NEW T, NEW x, IsFiniteSet(S), T \subseteq S \cup {x}
    PROVE  IsFiniteSet(T) /\ Cardinality(T) <= Cardinality(S) + 1
<1>1. Cardinality(S) \in Nat /\ IsFiniteSet(S \cup {x})
  BY FS_CardinalityType, FS_AddElement
<1>2. Cardinality(S \cup {x}) = IF x \in S THEN Cardinality(S) ELSE Cardinality(S) + 1
  BY FS_AddElement
<1>3. IsFiniteSet(T) /\ Cardinality(T) <= Cardinality(S \cup {x})
  BY <1>1, FS_Subset
<1>4. Cardinality(T) \in Nat
  BY <1>3, FS_CardinalityType
<1> QED BY <1>1, <1>2, <1>3, <1>4

\* Fewer uses, fewer standalone ones.
LEMMA FewerUses ==
    ASSUME IsFiniteSet(uses), DirectWithinLimit, uses' \subseteq uses
    PROVE  DirectWithinLimit'
<1>1. DirectUses' \subseteq DirectUses /\ IsFiniteSet(DirectUses)
  BY FS_Subset DEF DirectUses
<1>2. Cardinality(DirectUses') <= Cardinality(DirectUses)
  BY <1>1, FS_Subset
<1>3. Cardinality(DirectUses) \in Nat /\ Cardinality(DirectUses') \in Nat
  BY <1>1, FS_Subset, FS_CardinalityType
<1> QED BY <1>2, <1>3, PromoAssumption DEF DirectWithinLimit, DirectUses

LEMMA NextLimitInv ==
    ASSUME OneCanceler, LimitInv, [Next]_vars
    PROVE  LimitInv'
<1> DEFINE Goal == HolderHasRoom' /\ DirectWithinLimit'
<1> USE Names
<1>0. /\ CounterInv /\ CounterInv' /\ Kinds /\ Shape /\ LocalTypes
      /\ IsFiniteSet(uses) /\ used = Cardinality(uses) /\ used \in Nat /\ Limit \in Nat
  BY NextCounterInv, StepKinds, TypesSplit, PromoAssumption
     DEF LimitInv, CounterInv, ReleaseInv, CountInv, Shape, TypeOK, UsesCounted
<1> SUFFICES Goal
  BY <1>0 DEF LimitInv
<1>1. ASSUME uses' \subseteq uses, used' <= used,
             \A s \in Applier : pc'[s] = "holding" => pc[s] = "holding"
      PROVE  Goal
  <2>1. HolderHasRoom'
    BY <1>0, <1>1 DEF LimitInv, HolderHasRoom, CounterInv, ReleaseInv, CountInv, Shape, TypeOK
  <2> QED BY <1>0, <1>1, <2>1, FewerUses DEF LimitInv
<1>2. CASE UNCHANGED <<pc, user, invoice, grants, used, uses>>
  BY <1>0, <1>1, <1>2
<1>3. CASE Crash
  BY <1>0, <1>1, <1>3 DEF Crash
<1>4. ASSUME NEW t \in Task, OthersKeep(t), Plain(t) PROVE Goal
  BY <1>0, <1>1, <1>4 DEF OthersKeep, Plain
<1>5. ASSUME NEW t \in Canceler, OthersKeep(t), React(t) \/ Release(t) PROVE Goal
  <2>1. uses' \subseteq uses /\ used' <= used
    BY <1>0, <1>5 DEF React, Release
  <2>2. \A s \in Applier : pc'[s] = "holding" => pc[s] = "holding"
    BY <1>5, KindsAssumption DEF OthersKeep
  <2> QED BY <1>1, <2>1, <2>2
<1>6. ASSUME NEW t \in Applier \cup Settler, OthersKeep(t), Take(t) PROVE Goal
  <2>1. uses' = uses /\ used' = used /\ \A s \in Applier : pc'[s] = "holding" => s = t
    BY <1>6 DEF Take, RowFree, OthersKeep
  <2>2. t \in Applier => used < Limit
    BY <1>6 DEF Take, WithinLimit
  <2> QED BY <1>0, <2>1, <2>2, FewerUses DEF HolderHasRoom, LimitInv
<1>7. ASSUME NEW t \in Applier \cup Settler, OthersKeep(t), Recording(t) PROVE Goal
  <2>1. /\ uses' = uses \cup {HeldUse(t)} /\ used' = used + 1 /\ pc'[t] = "idle"
        /\ pc[t] = "holding"
    BY <1>0, <1>7, RecordFacts, EndFacts DEF Recording, Record
  <2>2. HolderHasRoom'
    BY <1>0, <1>7, <2>1
       DEF OthersKeep, HolderHasRoom, CounterInv, ReleaseInv, CountInv, HolderIsAlone
  <2>3. CASE t \in Settler
    <3>1. HeldUse(t).payment # None
      BY <1>0, <1>7, <2>3, RecordFacts, PromoAssumption DEF HeldUse
    <3>2. DirectUses' = DirectUses
      BY <2>1, <3>1 DEF DirectUses
    <3> QED BY <2>2, <3>2 DEF LimitInv, DirectWithinLimit, DirectUses
  <2>4. CASE t \in Applier
    <3>1. used < Limit
      BY <2>1, <2>4 DEF LimitInv, HolderHasRoom
    <3>2. DirectUses \subseteq uses
      BY DEF DirectUses
    <3>3. IsFiniteSet(DirectUses) /\ Cardinality(DirectUses) <= used
      BY <1>0, <3>2, FS_Subset
    <3>4. DirectUses' \subseteq DirectUses \cup {HeldUse(t)}
      BY <2>1 DEF DirectUses
    <3>5. Cardinality(DirectUses') <= Cardinality(DirectUses) + 1
      BY <3>3, <3>4, AtMostOneMore
    <3>6. Cardinality(DirectUses) \in Nat /\ Cardinality(DirectUses') \in Nat
      BY <3>3, <3>4, FS_CardinalityType, AtMostOneMore
    <3>7. Cardinality(DirectUses') <= Limit
      BY <1>0, <3>1, <3>3, <3>5, <3>6
    <3> QED BY <2>2, <3>7 DEF DirectWithinLimit, DirectUses
  <2> QED BY <2>3, <2>4
<1> QED BY <1>0, <1>2, <1>3, <1>4, <1>5, <1>6, <1>7 DEF Kinds

LEMMA LimitAlways == ASSUME OneCanceler PROVE Spec => []LimitInv
<1>1. Init => CountInv
  BY InitShape, Names DEF Init, CountInv, HolderIsAlone, UsedOnce
<1>2. Init => CounterInv
  BY <1>1, FS_EmptySet DEF Init, CounterInv, ReleaseInv, ReleaseFindsUse, UsesCounted
<1>3. ASSUME Init PROVE HolderHasRoom /\ DirectWithinLimit
  <2>1. DirectUses = {} /\ HolderHasRoom
    BY <1>3, Names DEF Init, DirectUses, HolderHasRoom
  <2>2. Cardinality(DirectUses) = 0
    BY <2>1, FS_EmptySet
  <2> QED BY <2>1, <2>2, PromoAssumption DEF DirectWithinLimit, DirectUses
<1>4. Init => LimitInv
  BY <1>2, <1>3 DEF LimitInv
<1>5. LimitInv /\ [Next]_vars => LimitInv'
  BY NextLimitInv
<1> QED BY <1>4, <1>5, PTL DEF Spec

\* Standalone uses stay within max_activations however many requests race for the
\* last one, while reactions to payment.canceled do not overlap.
THEOREM WithinTheLimit == ASSUME OneCanceler PROVE Spec => []DirectWithinLimit
<1>1. LimitInv => DirectWithinLimit
  BY DEF LimitInv
<1> QED BY <1>1, LimitAlways, PTL

-----------------------------------------------------------------------------

Rest == InvoicesFit /\ UsersHad /\ InvoiceHonoured

\* InvoicesFit for one finalizer.
SettlerFit(t) ==
    /\ pc[t] # "idle" => status[invoice[t]] # "succeeded"
    /\ grants[t] => pc[t] = "holding"
    /\ pc[t] = "finish" => invoice[t] \in devices \/ user[t] \in had
    /\ pc[t] \in {"check", "take", "holding"} => invoice[t] \notin devices

\* A step leaves a request alone.
Same(t) ==
    pc'[t] = pc[t] /\ user'[t] = user[t] /\ invoice'[t] = invoice[t] /\ grants'[t] = grants[t]

\* What is known of a finalizer.
LEMMA SettlerFacts ==
    ASSUME PromoInv, NEW t \in Settler
    PROVE  /\ t \in Task /\ LocalTypes /\ SettlerFit(t)
           /\ pc[t] # "idle" => /\ invoice[t] \in Invoice /\ status[invoice[t]] # "none"
                                /\ user[t] \in User /\ user[t] = owner[invoice[t]]
BY Names, TypesSplit DEF PromoInv, CountInv, Shape, LocalsFit, InvoicesFit, SettlerFit

\* A use is of an invoice that has succeeded, or of none.
LEMMA UsesFit ==
    ASSUME PromoInv, NEW a \in uses
    PROVE  /\ a.user \in had
           /\ a.payment # None => a.payment \in Invoice /\ status[a.payment] = "succeeded"
BY DEF PromoInv, CountInv, Shape, TypeOK, Use, InvoicesFit, UsersHad

\* No use but a standalone one is new, and its user is on record.
NoNewInvoiceUse ==
    /\ had \subseteq had'
    /\ \A a \in uses' : a \in uses \/ (a.payment = None /\ a.user \in had')

\* What a step owes that settles no invoice.
LEMMA Aside ==
    ASSUME PromoInv, NoNewInvoiceUse, UNCHANGED refused, OwnersKeep,
           \A i \in Invoice : status'[i] = "succeeded" <=> status[i] = "succeeded",
           \A t \in Settler :
               \/ Same(t)
               \/ SettlerFit(t)' /\ (pc'[t] = "idle" \/ (pc[t] # "idle" /\ invoice'[t] = invoice[t]))
    PROVE  Rest'
<1>1. refused \subseteq Invoice
  BY DEF PromoInv, CountInv, Shape, TypeOK
<1>2. ASSUME NEW t \in Settler PROVE SettlerFit(t)'
  <2>1. CASE Same(t)
    BY <2>1, SettlerFacts DEF Same, SettlerFit, OwnersKeep, NoNewInvoiceUse
  <2> QED BY <2>1
<1>3. \A s, t \in Settler :
         pc'[s] # "idle" /\ pc'[t] # "idle" /\ invoice'[s] = invoice'[t] => s = t
  BY DEF Same, PromoInv, InvoicesFit
<1>4. \A a \in uses' : a.user \in had' /\ (a.payment # None => status'[a.payment] = "succeeded")
  BY UsesFit DEF NoNewInvoiceUse
<1>5. InvoicesFit' /\ UsersHad'
  BY <1>1, <1>2, <1>3, <1>4 DEF PromoInv, InvoicesFit, UsersHad, SettlerFit
<1>6. InvoiceHonoured'
  BY DEF PromoInv, InvoiceHonoured, OwnersKeep, NoNewInvoiceUse
<1> QED BY <1>5, <1>6 DEF Rest

\* A finalizer that ends fits.
LEMMA EndedFits == ASSUME LocalTypes, NEW t \in Task, End(t) PROVE SettlerFit(t)' /\ pc'[t] = "idle"
BY Names DEF End, LocalTypes, SettlerFit

\* What a step of one request owes that settles nothing.
LEMMA OneAside ==
    ASSUME PromoInv, NoNewInvoiceUse, UNCHANGED refused, OwnersKeep,
           \A i \in Invoice : status'[i] = "succeeded" <=> status[i] = "succeeded",
           NEW t \in Task, OthersKeep(t), t \notin Settler \/ End(t)
    PROVE  Rest'
<1>1. \A s \in Settler : s # t => Same(s)
  BY Names DEF OthersKeep, Same
<1>2. t \in Settler => SettlerFit(t)' /\ pc'[t] = "idle"
  BY EndedFits, SettlerFacts
<1> QED BY <1>1, <1>2, Aside

\* A finalizer that goes on keeps its invoice.
LEMMA GoesOn ==
    ASSUME PromoInv, NEW t \in Settler, NEW l \in {"take", "holding", "finish"}, pc[t] # "idle",
           pc' = [pc EXCEPT ![t] = l],
           \E g \in BOOLEAN : grants' = [grants EXCEPT ![t] = g],
           grants'[t] => l = "holding",
           l = "finish" => user[t] \in had,
           l # "finish" => invoice[t] \notin devices,
           UNCHANGED <<payments, ledger, user, invoice>>
    PROVE  Rest'
<1>1. t \in Task /\ LocalTypes /\ SettlerFit(t)
  BY SettlerFacts
<1>2. pc'[t] = l /\ \A s \in Settler : s # t => Same(s)
  BY <1>1, Names DEF LocalTypes, Same
<1>3. SettlerFit(t)'
  BY <1>1, <1>2 DEF SettlerFit
<1>4. OwnersKeep /\ NoNewInvoiceUse
  BY DEF OwnersKeep, NoNewInvoiceUse
<1> QED BY <1>2, <1>3, <1>4, Aside

\* What a step owes that settles the invoice of a finalizer, with a use or without.
LEMMA Settles ==
    ASSUME PromoInv, NEW t \in Settler, pc[t] # "idle", Succeeds(t), End(t),
           UNCHANGED <<owner, devices>>,
           had \subseteq had',
           \A a \in uses' : a \in uses \/ (a = HeldUse(t) /\ user[t] \in had'),
           refused' = refused \/ refused' = refused \cup {invoice[t]},
           invoice[t] \in devices \cup refused' \/ user[t] \in had'
    PROVE  Rest'
<1>1. /\ t \in Task /\ LocalTypes
      /\ invoice[t] \in Invoice /\ user[t] = owner[invoice[t]] /\ status[invoice[t]] # "succeeded"
  BY SettlerFacts DEF SettlerFit
<1>2. /\ OwnersKeep
      /\ \A i \in Invoice : status'[i] = IF i = invoice[t] THEN "succeeded" ELSE status[i]
  BY <1>1, SucceedsFacts DEF PromoInv, CountInv
<1>3. pc'[t] = "idle" /\ SettlerFit(t)' /\ \A s \in Settler : s # t => Same(s)
  BY <1>1, EndedFits, EndFacts, Names DEF OthersKeep, Same
<1>4. ASSUME NEW s \in Settler PROVE SettlerFit(s)'
  <2>1. CASE s # t /\ pc[s] # "idle"
    <3>1. /\ invoice[s] \in Invoice /\ status[invoice[s]] # "none" /\ SettlerFit(s)
          /\ invoice[s] # invoice[t]
      BY <2>1, SettlerFacts DEF PromoInv, InvoicesFit
    <3> QED BY <1>2, <1>3, <2>1, <3>1 DEF Same, SettlerFit, OwnersKeep
  <2>2. CASE s # t /\ pc[s] = "idle"
    BY <1>3, <2>2, SettlerFacts DEF Same, SettlerFit
  <2> QED BY <1>3, <2>1, <2>2
<1>5. \A r, s \in Settler :
         pc'[r] # "idle" /\ pc'[s] # "idle" /\ invoice'[r] = invoice'[s] => r = s
  BY <1>3 DEF Same, PromoInv, InvoicesFit
<1>6. ASSUME NEW a \in uses'
      PROVE  a.user \in had' /\ (a.payment # None => status'[a.payment] = "succeeded")
  <2>1. CASE a \in uses
    BY <1>2, <2>1, UsesFit
  <2>2. CASE a = HeldUse(t) /\ user[t] \in had'
    BY <1>1, <1>2, <2>2 DEF HeldUse
  <2> QED BY <2>1, <2>2
<1>7. \A i \in refused' : status'[i] = "succeeded"
  BY <1>1, <1>2 DEF PromoInv, InvoicesFit, CountInv, Shape, TypeOK
<1>8. InvoicesFit' /\ UsersHad'
  BY <1>4, <1>5, <1>6, <1>7 DEF InvoicesFit, UsersHad, SettlerFit
<1>9. InvoiceHonoured'
  BY <1>1, <1>2 DEF PromoInv, InvoiceHonoured
<1> QED BY <1>8, <1>9 DEF Rest

LEMMA SettleRest == ASSUME PromoInv, NEW t \in Settler, NEW i \in Invoice, Settle(t, i) PROVE Rest'
<1>1. t \in Task /\ LocalTypes /\ status \in [Invoice -> Status]
  BY Names, TypesSplit DEF PromoInv, CountInv, Shape, TypeOK
<1>2. /\ pc' = [pc EXCEPT ![t] = Entry(i)] /\ status' = [status EXCEPT ![i] = "finalizing"]
      /\ invoice' = [invoice EXCEPT ![t] = i] /\ user' = [user EXCEPT ![t] = owner[i]]
      /\ pc[t] = "idle" /\ status[i] \notin {"none", "succeeded"}
      /\ UNCHANGED <<owner, devices, uses, bonus, had, refused, grants>>
      /\ \A s \in Settler : pc[s] # "idle" => invoice[s] # i
  BY DEF Settle, Goto
<1>3. pc'[t] = Entry(i) /\ invoice'[t] = i /\ status'[i] = "finalizing" /\ ~grants'[t]
  BY <1>1, <1>2, SettlerFacts DEF LocalTypes, SettlerFit
<1>4. \A s \in Settler : s # t => Same(s)
  BY <1>1, <1>2, Names DEF LocalTypes, Same
<1>5. OwnersKeep /\ \A j \in Invoice : status'[j] = "succeeded" <=> status[j] = "succeeded"
  BY <1>1, <1>2 DEF OwnersKeep
<1>6. ASSUME NEW s \in Settler PROVE SettlerFit(s)'
  <2>1. CASE s = t
    BY <1>2, <1>3, <2>1 DEF SettlerFit, Entry
  <2>2. CASE s # t
    BY <1>4, <1>5, <2>2, SettlerFacts, <1>2 DEF Same, SettlerFit
  <2> QED BY <2>1, <2>2
<1>7. \A r, s \in Settler :
         pc'[r] # "idle" /\ pc'[s] # "idle" /\ invoice'[r] = invoice'[s] => r = s
  BY <1>2, <1>3, <1>4 DEF Same, PromoInv, InvoicesFit
<1>8. \A a \in uses' : a.user \in had' /\ (a.payment # None => status'[a.payment] = "succeeded")
  BY <1>2, <1>5, UsesFit
<1>9. \A j \in refused' : status'[j] = "succeeded"
  BY <1>2, <1>5 DEF PromoInv, InvoicesFit, CountInv, Shape, TypeOK
<1>10. InvoicesFit' /\ UsersHad'
  BY <1>6, <1>7, <1>8, <1>9 DEF InvoicesFit, UsersHad, SettlerFit
<1>11. InvoiceHonoured'
  BY <1>2, <1>5 DEF PromoInv, InvoiceHonoured, OwnersKeep
<1> QED BY <1>10, <1>11 DEF Rest

LEMMA CheckRest == ASSUME PromoInv, NEW t \in Settler, Check(t) PROVE Rest'
<1>1. t \in Task /\ LocalTypes /\ SettlerFit(t) /\ t \notin Applier
  BY SettlerFacts, KindsAssumption
<1>2. invoice[t] \in Invoice /\ status[invoice[t]] # "succeeded" /\ invoice[t] # None
  BY <1>1, SettlerFacts, PromoAssumption DEF Check, SettlerFit
<1>3. CASE UsesOf(user[t]) = {}
  <2>1. grants' = [grants EXCEPT ![t] = grants[t]] /\ grants[t] \in BOOLEAN /\ ~grants'[t]
    BY <1>1, <1>3 DEF Check, LocalTypes, SettlerFit
  <2>2. pc' = [pc EXCEPT ![t] = "take"] /\ UNCHANGED <<payments, ledger, user, invoice>>
    BY <1>1, <1>3 DEF Check
  <2>3. invoice[t] \notin devices /\ pc[t] # "idle"
    BY <1>1 DEF Check, SettlerFit
  <2> QED BY <2>1, <2>2, <2>3, GoesOn
<1>4. CASE UsesOf(user[t]) # {}
  <2>1. /\ pc' = [pc EXCEPT ![t] = "finish"]
        /\ grants' = [grants EXCEPT ![t] = \E a \in UsesOf(user[t]) : a.payment = invoice[t]]
        /\ UNCHANGED <<payments, ledger, user, invoice>>
    BY <1>1, <1>4 DEF Check
  <2>2. ~ \E a \in UsesOf(user[t]) : a.payment = invoice[t]
    BY <1>2, UsesFit DEF UsesOf
  <2>3. ~grants'[t] /\ \E g \in BOOLEAN : grants' = [grants EXCEPT ![t] = g]
    BY <1>1, <2>1, <2>2 DEF LocalTypes
  <2>4. user[t] \in had /\ pc[t] # "idle"
    BY <1>4, UsesFit DEF UsesOf, Check
  <2> QED BY <2>1, <2>3, <2>4, GoesOn
<1> QED BY <1>3, <1>4

LEMMA TakeRest == ASSUME PromoInv, NEW t \in Settler, Take(t) PROVE Rest'
BY GoesOn, SettlerFacts DEF Take, SettlerFit

\* A finalizer that succeeds, with a use or without, granted or refused.
LEMMA SuccessRest ==
    ASSUME PromoInv, NEW t \in Settler, Finish(t) \/ Refuse(t) \/ Waste(t) \/ Commit(t)
    PROVE  Rest'
<1>1. SettlerFit(t)
  BY SettlerFacts
<1>2. CASE Finish(t)
  BY <1>1, <1>2, Settles DEF Finish, SettlerFit
<1>3. CASE Refuse(t)
  BY <1>3, Settles DEF Refuse
<1>4. CASE Waste(t)
  BY <1>4, Settles DEF Waste, Record, HeldUse
<1>5. CASE Commit(t)
  BY <1>5, Settles DEF Commit, Record, HeldUse
<1> QED BY <1>2, <1>3, <1>4, <1>5

LEMMA NextPromoInv == PromoInv /\ [Next]_vars => PromoInv'
<1> SUFFICES ASSUME PromoInv, [Next]_vars PROVE PromoInv'
  OBVIOUS
<1> USE Names
<1>1. CountInv /\ Shape /\ LocalTypes /\ status \in [Invoice -> Status]
  BY TypesSplit DEF PromoInv, CountInv, Shape, TypeOK
<1>2. CountInv'
  BY <1>1, NextCountInv
<1> SUFFICES Rest'
  BY <1>2 DEF PromoInv, Rest
<1>3. ASSUME UNCHANGED <<pc, locals, uses, had, refused>>, OwnersKeep,
             \A i \in Invoice : status'[i] = "succeeded" <=> status[i] = "succeeded"
      PROVE  Rest'
  BY <1>3, Aside DEF Same, NoNewInvoiceUse
<1>4. ASSUME NEW t \in Task, t \notin Settler \/ End(t), OthersKeep(t), UNCHANGED refused, OwnersKeep,
             uses' \subseteq uses, UNCHANGED had,
             \A i \in Invoice : status'[i] = "succeeded" <=> status[i] = "succeeded"
      PROVE  Rest'
  BY <1>4, OneAside DEF NoNewInvoiceUse
<1>5. CASE UNCHANGED vars
  BY <1>3, <1>5 DEF vars, OwnersKeep
<1>6. CASE Toggle \/ EditEffects
  BY <1>3, <1>6 DEF Toggle, EditEffects, OwnersKeep
<1>7. ASSUME NEW i \in Invoice, CreationFails(i) PROVE Rest'
  BY <1>1, <1>3, <1>7 DEF CreationFails, OwnersKeep
<1>8. ASSUME NEW t \in Checkout,
             (\E u \in User : Quote(t, u)) \/ Clear(t) \/ \E i \in Invoice : Create(t, i)
      PROVE  Rest'
  <2>1. t \in Task /\ t \notin Settler
    BY KindsAssumption
  <2>2. ASSUME NEW u \in User, Quote(t, u) PROVE Rest'
    BY <1>1, <1>4, <2>1, <2>2 DEF Quote, Goto, LocalTypes, OthersKeep, OwnersKeep
  <2>3. CASE Clear(t)
    <3>1. OthersKeep(t)
      BY <1>1, <2>1, <2>3, EndFacts DEF Clear, LocalTypes, OthersKeep
    <3> QED BY <1>4, <2>1, <2>3, <3>1 DEF Clear, OwnersKeep
  <2>4. ASSUME NEW i \in Invoice, Create(t, i) PROVE Rest'
    <3>1. OthersKeep(t)
      BY <1>1, <2>1, <2>4, EndFacts DEF Create
    <3>2. OwnersKeep /\ \A j \in Invoice : status'[j] = "succeeded" <=> status[j] = "succeeded"
      BY <1>1, <2>4 DEF Create, OwnersKeep, Shape, TypeOK
    <3> QED BY <1>4, <2>1, <2>4, <3>1, <3>2 DEF Create
  <2> QED BY <1>8, <2>2, <2>3, <2>4
<1>9. ASSUME NEW t \in Applier, (\E u \in User : Apply(t, u)) \/ GiveBack(t) PROVE Rest'
  <2>1. t \in Task /\ t \notin Settler
    BY KindsAssumption
  <2>2. ASSUME NEW u \in User, Apply(t, u) PROVE Rest'
    BY <1>1, <1>4, <2>1, <2>2 DEF Apply, Goto, LocalTypes, OthersKeep, OwnersKeep
  <2>3. CASE GiveBack(t)
    BY <1>1, <1>4, <2>1, <2>3, EndFacts DEF GiveBack, OwnersKeep
  <2> QED BY <1>9, <2>2, <2>3
<1>10. ASSUME NEW t \in Settler,
              (\E i \in Invoice : Settle(t, i)) \/ Finish(t) \/ Refuse(t) \/ Waste(t)
       PROVE  Rest'
  BY <1>10, SettleRest, SuccessRest
<1>11. ASSUME NEW t \in Task, pc[t] # "idle", RolledBack(t), End(t), UNCHANGED <<owner, devices, ledger>>
       PROVE  Rest'
  <2>1. /\ OwnersKeep
        /\ \A i \in Invoice : status'[i] # status[i] =>
              t \in Settler /\ i = invoice[t] /\ status'[i] = "activation_failed"
    BY <1>1, <1>11, RolledBackFacts
  <2>2. t \in Settler => status[invoice[t]] # "succeeded"
    BY <1>11, SettlerFacts DEF SettlerFit
  <2>3. \A i \in Invoice : status'[i] = "succeeded" <=> status[i] = "succeeded"
    BY <2>1, <2>2
  <2> QED BY <1>1, <1>4, <1>11, <2>1, <2>3, EndFacts
<1>12. ASSUME NEW t \in Applier, Consume(t) PROVE Rest'
  <2>1. t \in Task /\ t \notin Settler
    BY KindsAssumption
  <2>2. CASE Check(t)
    <3>1. OthersKeep(t)
      BY <1>1, <1>12, <2>1, <2>2, EndFacts DEF Check, LocalTypes, OthersKeep
    <3> QED BY <1>4, <2>1, <2>2, <3>1 DEF Check, OwnersKeep
  <2>3. CASE Take(t)
    <3>1. OthersKeep(t)
      BY <1>1, <2>1, <2>3 DEF Take, LocalTypes, OthersKeep
    <3> QED BY <1>4, <2>1, <2>3, <3>1 DEF Take, OwnersKeep
  <2>4. CASE OverLimit(t)
    BY <1>1, <1>4, <2>1, <2>4, EndFacts DEF OverLimit, OwnersKeep
  <2>5. CASE Collide(t)
    BY <1>11, <2>1, <2>5 DEF Collide
  <2>6. CASE Commit(t)
    <3>1. Recording(t) /\ invoice[t] = None /\ uses' = uses \cup {HeldUse(t)}
      BY <1>1, <2>1, <2>6, RecordFacts DEF Commit, Recording
    <3>2. NoNewInvoiceUse
      BY <2>6, <3>1 DEF Commit, Record, HeldUse, NoNewInvoiceUse
    <3>3. OwnersKeep /\ UNCHANGED <<status, refused>>
      BY <2>1, <2>6 DEF Commit, Succeeds, OwnersKeep
    <3>4. OthersKeep(t)
      BY <1>1, <2>1, <2>6, EndFacts DEF Commit
    <3> QED BY <2>1, <3>2, <3>3, <3>4, OneAside
  <2> QED BY <1>12, <2>2, <2>3, <2>4, <2>5, <2>6 DEF Consume
<1>13. ASSUME NEW t \in Settler, Consume(t) PROVE Rest'
  <2>1. CASE OverLimit(t)
    BY <1>1, <1>4, <2>1, EndFacts DEF OverLimit, OwnersKeep
  <2>2. CASE Collide(t)
    BY <1>11, <2>2 DEF Collide
  <2> QED BY <1>13, <2>1, <2>2, CheckRest, TakeRest, SuccessRest DEF Consume
<1>14. ASSUME NEW t \in Canceler, (\E i \in Invoice : Decline(t, i)) \/ React(t) \/ Release(t)
       PROVE  Rest'
  <2>1. t \in Task /\ t \notin Settler
    BY KindsAssumption
  <2>2. ASSUME NEW i \in Invoice, Decline(t, i) PROVE Rest'
    <3>1. OthersKeep(t)
      BY <1>1, <2>1, <2>2 DEF Decline, Goto, LocalTypes, OthersKeep
    <3>2. OwnersKeep /\ \A j \in Invoice : status'[j] = "succeeded" <=> status[j] = "succeeded"
      BY <1>1, <2>2 DEF Decline, OwnersKeep
    <3> QED BY <1>4, <2>1, <2>2, <3>1, <3>2 DEF Decline
  <2>3. CASE React(t)
    <3>1. OthersKeep(t)
      BY <1>1, <2>1, <2>3, EndFacts DEF React, LocalTypes, OthersKeep
    <3> QED BY <1>4, <2>1, <2>3, <3>1 DEF React, OwnersKeep
  <2>4. CASE Release(t)
    BY <1>1, <1>4, <2>1, <2>4, EndFacts DEF Release, OwnersKeep
  <2> QED BY <1>14, <2>2, <2>3, <2>4
<1>15. ASSUME NEW t \in Task, Raise(t) PROVE Rest'
  BY <1>11, <1>15 DEF Raise
<1>16. CASE Crash
  <2>1. \A t \in Settler : pc'[t] = "idle" /\ ~grants'[t]
    BY <1>16 DEF Crash
  <2>2. \A t \in Settler : SettlerFit(t)'
    BY <2>1 DEF SettlerFit
  <2> QED BY <1>16, <2>1, <2>2, Aside DEF Crash, OwnersKeep, NoNewInvoiceUse
<1> QED BY <1>5, <1>6, <1>7, <1>8, <1>9, <1>10, <1>12, <1>13, <1>14, <1>15, <1>16 DEF Next

LEMMA PromoAlways == Spec => []PromoInv
<1>1. Init => PromoInv
  BY InitShape, Names DEF Init, PromoInv, CountInv, HolderIsAlone, UsedOnce, InvoicesFit,
       UsersHad, InvoiceHonoured
<1> QED BY <1>1, NextPromoInv, PTL DEF Spec

\* A paid invoice that is activated, and is not for devices, has used the code for its
\* owner, whatever became of the code: with any number of requests, releases,
\* refusals, exceptions and crashes.
THEOREM Honoured == Spec => []InvoiceHonoured
<1>1. PromoInv => InvoiceHonoured
  BY DEF PromoInv
<1> QED BY <1>1, PromoAlways, PTL

-----------------------------------------------------------------------------

Holders == {a.user : a \in uses}
Buyers == [i \in Invoice |-> IF status[i] = "succeeded" /\ i \notin refused THEN owner[i] ELSE None]

\* There are no more users of the code than uses of it.
LEMMA HoldersCounted ==
    ASSUME IsFiniteSet(uses)
    PROVE  IsFiniteSet(Holders) /\ Cardinality(Holders) <= Cardinality(uses)
<1> DEFINE f == [a \in uses |-> a.user]
<1>1. f \in Surjection(uses, Holders)
  BY DEF Surjection, Holders
<1> QED BY <1>1, FS_Surjection

\* Invoices that succeed do so by steps that say it.
SalesKeep ==
    /\ UNCHANGED refused /\ OwnersKeep
    /\ \A i \in Invoice : status'[i] = "succeeded" <=> status[i] = "succeeded"

LEMMA SalesKept == ASSUME SalesKeep PROVE Buyers' = Buyers
BY DEF SalesKeep, OwnersKeep, Buyers

\* A step that neither records a use nor settles an invoice nor makes one out.
Unnoticed == UNCHANGED <<uses, bonus, had, devices>> /\ SalesKeep

LEMMA UnnoticedStutters == ASSUME Unnoticed PROVE UNCHANGED Offer!vars
<1>1. Buyers' = Buyers
  BY SalesKept DEF Unnoticed
<1> QED BY <1>1 DEF Unnoticed, Buyers, Offer!vars

\* The reads, the lock, what is rolled back and the repetitions are no steps of
\* the offer.
LEMMA OthersUnnoticed ==
    ASSUME PromoInv, [Next]_vars
    PROVE  \/ Unnoticed
           \/ \E t \in Checkout, i \in Invoice : Create(t, i)
           \/ \E t \in Settler : Finish(t) \/ Refuse(t) \/ Waste(t)
           \/ \E t \in Applier \cup Settler : Commit(t)
           \/ \E t \in Canceler : Release(t)
<1> USE Names
<1>1. Shape /\ LocalTypes /\ status \in [Invoice -> Status]
  BY TypesSplit DEF PromoInv, CountInv, Shape, TypeOK
<1>2. CASE UNCHANGED vars
  BY <1>2 DEF vars, Unnoticed, SalesKeep, OwnersKeep
<1>3. CASE Toggle \/ EditEffects \/ Crash
  BY <1>3 DEF Toggle, EditEffects, Crash, Unnoticed, SalesKeep, OwnersKeep
<1>4. ASSUME NEW t \in Checkout, (\E u \in User : Quote(t, u)) \/ Clear(t) PROVE Unnoticed
  BY <1>4 DEF Quote, Clear, Unnoticed, SalesKeep, OwnersKeep
<1>5. ASSUME NEW i \in Invoice, CreationFails(i) PROVE Unnoticed
  BY <1>1, <1>5 DEF CreationFails, Unnoticed, SalesKeep, OwnersKeep
<1>6. ASSUME NEW t \in Applier, (\E u \in User : Apply(t, u)) \/ GiveBack(t) PROVE Unnoticed
  BY <1>6 DEF Apply, GiveBack, Unnoticed, SalesKeep, OwnersKeep
<1>7. ASSUME NEW t \in Settler, NEW i \in Invoice, Settle(t, i) PROVE Unnoticed
  BY <1>1, <1>7 DEF Settle, Unnoticed, SalesKeep, OwnersKeep
<1>8. ASSUME NEW t \in Task, RolledBack(t), pc[t] # "idle", UNCHANGED <<owner, devices, ledger>>
      PROVE  Unnoticed
  <2>1. /\ OwnersKeep
        /\ \A i \in Invoice : status'[i] # status[i] =>
              t \in Settler /\ i = invoice[t] /\ status'[i] = "activation_failed"
    BY <1>1, <1>8, RolledBackFacts
  <2>2. t \in Settler => status[invoice[t]] # "succeeded"
    BY <1>8, SettlerFacts DEF SettlerFit
  <2>3. \A i \in Invoice : status'[i] = "succeeded" <=> status[i] = "succeeded"
    BY <2>1, <2>2
  <2> QED BY <1>8, <2>1, <2>3 DEF Unnoticed, SalesKeep
<1>9. ASSUME NEW t \in Applier \cup Settler, Consume(t), ~Commit(t) PROVE Unnoticed
  <2>1. CASE Check(t) \/ Take(t) \/ OverLimit(t)
    BY <2>1 DEF Check, Take, OverLimit, Unnoticed, SalesKeep, OwnersKeep
  <2>2. CASE Collide(t)
    BY <1>8, <2>2 DEF Collide
  <2> QED BY <1>9, <2>1, <2>2 DEF Consume
<1>10. ASSUME NEW t \in Task, Raise(t) PROVE Unnoticed
  BY <1>8, <1>10 DEF Raise
<1>11. ASSUME NEW t \in Canceler, (\E i \in Invoice : Decline(t, i)) \/ React(t) PROVE Unnoticed
  BY <1>1, <1>11 DEF Decline, React, Unnoticed, SalesKeep, OwnersKeep
<1> QED BY <1>2, <1>3, <1>4, <1>5, <1>6, <1>7, <1>9, <1>10, <1>11 DEF Next

\* An invoice that a finalizer settles gets its buyer, unless it is refused.
LEMMA Settled ==
    ASSUME PromoInv, NEW t \in Settler, pc[t] # "idle", Succeeds(t), UNCHANGED <<owner, devices>>
    PROVE  /\ user[t] \in User /\ invoice[t] \in Invoice
           /\ Buyers[invoice[t]] = None
           /\ refused' = refused => Buyers' = [Buyers EXCEPT ![invoice[t]] = user[t]]
           /\ refused' = refused \cup {invoice[t]} => Buyers' = Buyers
<1>1. /\ t \in Task /\ user[t] \in User /\ invoice[t] \in Invoice /\ user[t] = owner[invoice[t]]
      /\ status[invoice[t]] # "succeeded" /\ invoice[t] \notin refused
  BY SettlerFacts DEF SettlerFit, PromoInv, InvoicesFit
<1>2. \A i \in Invoice : status'[i] = IF i = invoice[t] THEN "succeeded" ELSE status[i]
  BY <1>1, SucceedsFacts DEF PromoInv, CountInv
<1> QED BY <1>1, <1>2 DEF Buyers

\* A use that is recorded is its user's only one.
LEMMA Recorded ==
    ASSUME PromoInv, NEW t \in Applier \cup Settler, Recording(t)
    PROVE  /\ user[t] \in User /\ grants[t]
           /\ user[t] \notin Holders /\ Holders' = Holders \cup {user[t]}
           /\ had' = had \cup {user[t]}
<1>1. /\ t \in Task /\ user[t] \in User /\ grants[t] /\ uses' = uses \cup {HeldUse(t)}
      /\ HeldUse(t).user = user[t]
  BY RecordFacts DEF PromoInv, CountInv, HeldUse
<1>2. user[t] \notin Holders
  BY <1>1 DEF Recording, PromoInv, CountInv, HolderIsAlone, UsesOf, Holders
<1>3. Holders' = Holders \cup {user[t]}
  BY <1>1 DEF Holders
<1> QED BY <1>1, <1>2, <1>3 DEF Recording, Record

\* Every step is one of the offer's, or none of its business.
LEMMA OfferStep ==
    ASSUME PromoInv, LimitInv, [Next]_vars
    PROVE  [Offer!Next]_(Offer!vars)
<1>1. CASE Unnoticed
  BY <1>1, UnnoticedStutters
<1>2. ASSUME NEW t \in Checkout, NEW i \in Invoice, Create(t, i) PROVE [Offer!Next]_(Offer!vars)
  <2>1. status[i] = "none" /\ status' = [status EXCEPT ![i] = "pending"]
        /\ owner' = [owner EXCEPT ![i] = user[t]] /\ UNCHANGED <<uses, bonus, had, refused>>
    BY <1>2 DEF Create
  <2>2. status \in [Invoice -> Status] /\ owner \in [Invoice -> User \cup {None}]
    BY DEF PromoInv, CountInv, Shape, TypeOK
  <2>3. Buyers' = Buyers /\ Buyers[i] = None
    BY <2>1, <2>2 DEF Buyers
  <2>4. CASE devices' = devices
    BY <2>1, <2>3, <2>4 DEF Buyers, Offer!vars
  <2>5. CASE devices' = devices \cup {i}
    <3>1. Offer!ForDevices(i)
      BY <2>1, <2>3, <2>5 DEF Buyers, Offer!ForDevices
    <3> QED BY <3>1 DEF Offer!Next
  <2> QED BY <1>2, <2>4, <2>5 DEF Create
<1>3. ASSUME NEW t \in Settler, Finish(t) PROVE Offer!Next
  <2>1. /\ user[t] \in User /\ invoice[t] \in Invoice
        /\ Buyers[invoice[t]] = None /\ Buyers' = [Buyers EXCEPT ![invoice[t]] = user[t]]
    BY <1>3, Settled DEF Finish
  <2>2. (invoice[t] \in devices \/ user[t] \in had) /\ ~grants[t]
    BY <1>3, SettlerFacts DEF Finish, SettlerFit
  <2>3. UNCHANGED <<uses, bonus, had, devices>>
    BY <1>3, <2>2 DEF Finish, Grant
  <2>4. PICK u \in User, i \in Invoice : u = user[t] /\ i = invoice[t]
    BY <2>1
  <2>5. Offer!BuyPlain(u, i)
    BY <2>1, <2>2, <2>3, <2>4 DEF Offer!BuyPlain, Offer!Sell, Buyers
  <2> QED BY <2>5 DEF Offer!Next
<1>4. ASSUME NEW t \in Settler, Refuse(t) PROVE UNCHANGED Offer!vars
  <2>1. Buyers' = Buyers
    BY <1>4, Settled DEF Refuse
  <2> QED BY <1>4, <2>1 DEF Refuse, Buyers, Offer!vars
<1>5. ASSUME NEW t \in Settler, Waste(t) PROVE Offer!Next
  <2>1. Recording(t)
    BY <1>5 DEF Waste, Recording
  <2>2. PICK u \in User : u = user[t]
    BY <2>1, Recorded
  <2>3. u \notin Holders /\ Holders' = Holders \cup {u} /\ had' = had \cup {u}
    BY <2>1, <2>2, Recorded
  <2>4. Buyers' = Buyers
    BY <1>5, Settled DEF Waste
  <2>5. Offer!Waste(u)
    BY <1>5, <2>3, <2>4 DEF Waste, Offer!Waste, Offer!Take, Holders, Buyers
  <2> QED BY <2>5 DEF Offer!Next
<1>6. ASSUME NEW t \in Applier \cup Settler, Commit(t) PROVE Offer!Next
  <2>1. Recording(t)
    BY <1>6 DEF Commit, Recording
  <2>2. PICK u \in User : u = user[t]
    BY <2>1, Recorded
  <2>3. grants[t] /\ u \notin Holders /\ Holders' = Holders \cup {u} /\ had' = had \cup {u}
    BY <2>1, <2>2, Recorded
  <2>4. bonus' = [bonus EXCEPT ![u] = @ + 1]
    BY <1>6, <2>2, <2>3 DEF Commit, Grant
  <2>5. Offer!Enjoy(u)
    BY <2>3, <2>4 DEF Offer!Enjoy, Offer!Take, Holders
  <2>6. CASE t \in Settler
    <3>1. /\ invoice[t] \in Invoice
          /\ Buyers[invoice[t]] = None /\ Buyers' = [Buyers EXCEPT ![invoice[t]] = u]
      BY <1>6, <2>2, <2>6, Settled DEF Commit
    <3>2. invoice[t] \notin devices
      BY <1>6, <2>6, SettlerFacts DEF Commit, SettlerFit
    <3>3. PICK i \in Invoice : i = invoice[t]
      BY <3>1
    <3>4. Offer!Buy(u, i)
      BY <1>6, <2>5, <3>1, <3>2, <3>3 DEF Commit, Offer!Buy, Offer!Sell, Buyers
    <3> QED BY <3>4 DEF Offer!Next
  <2>7. CASE t \notin Settler
    <3>1. used < Limit /\ used = Cardinality(uses) /\ IsFiniteSet(uses)
      BY <1>6, <2>7 DEF Commit, LimitInv, HolderHasRoom, CounterInv, UsesCounted
    <3>2. Cardinality(Holders) <= used /\ Cardinality(Holders) \in Nat /\ used \in Nat
      BY <3>1, HoldersCounted, FS_CardinalityType
    <3>3. Cardinality(Holders) < Limit
      BY <3>1, <3>2, PromoAssumption
    <3>4. Offer!Cardinality({a.user : a \in uses}) < Limit
      BY <3>3 DEF Holders, Cardinality, Offer!Cardinality
    <3>5. Buyers' = Buyers /\ devices' = devices
      BY <1>6, <2>7 DEF Commit, Succeeds, Buyers
    <3>6. Offer!Redeem(u)
      BY <2>5, <3>4, <3>5 DEF Offer!Redeem, Buyers
    <3> QED BY <3>6 DEF Offer!Next
  <2> QED BY <2>6, <2>7
<1>7. ASSUME NEW t \in Canceler, Release(t) PROVE Offer!Next
  <2>1. t \in Task /\ user[t] \in User
    BY <1>7, Names DEF Release, PromoInv, CountInv, Shape, LocalsFit
  <2>2. HeldUse(t) \in uses /\ uses' = uses \ {HeldUse(t)} /\ HeldUse(t).user = user[t]
    BY <1>7, <2>1 DEF Release, LimitInv, CounterInv, ReleaseInv, ReleaseFindsUse, HeldUse
  <2>3. \A a \in uses : a.user = user[t] => a = HeldUse(t)
    BY <2>2 DEF PromoInv, CountInv, UsedOnce
  <2>4. user[t] \in Holders /\ Holders' = Holders \ {user[t]}
    BY <2>2, <2>3 DEF Holders
  <2>5. Buyers' = Buyers /\ UNCHANGED <<had, devices, bonus>>
    BY <1>7 DEF Release, Buyers
  <2>6. PICK u \in User : u = user[t]
    BY <2>1
  <2>7. Offer!Return(u)
    BY <2>4, <2>5, <2>6 DEF Offer!Return, Holders, Buyers
  <2> QED BY <2>7 DEF Offer!Next
<1> QED BY <1>1, <1>2, <1>3, <1>4, <1>5, <1>6, <1>7, OthersUnnoticed

\* While reactions to payment.canceled do not overlap, the two ways of redeeming a
\* code implement the offer: one step for the use, its place within the limit, its
\* bonus and its invoice, for any number of concurrent requests, refused
\* activations, exceptions and crashes.
THEOREM RedeemingImplementsOffer == ASSUME OneCanceler PROVE Spec => ImplementsOffer
<1>1. Init => Offer!Init
  BY DEF Init, Offer!Init
<1>2. Spec => []LimitInv
  BY LimitAlways
<1>3. PromoInv /\ LimitInv /\ [Next]_vars => [Offer!Next]_(Offer!vars)
  BY OfferStep
<1> QED BY <1>1, <1>2, <1>3, PromoAlways, PTL DEF Spec, ImplementsOffer, Offer!Spec
================================================================================
