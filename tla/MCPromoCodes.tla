------------------------------ MODULE MCPromoCodes ------------------------------
\* PromoCodes on small instances.
EXTENDS PromoCodes, TLC

\* Users, invoices and requests of one kind are interchangeable.
Symmetry ==
    Permutations(User) \cup Permutations(Invoice) \cup Permutations(Applier)
      \cup Permutations(Checkout) \cup Permutations(Settler) \cup Permutations(Canceler)
================================================================================
