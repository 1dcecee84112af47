--------------------------- MODULE MCAccountLinking ---------------------------
\* AccountLinking on a small instance.
EXTENDS AccountLinking, TLC

\* Requests run the same code; invoices and emails differ in their names only.
Symmetry == Permutations(Req) \cup Permutations(Payment) \cup Permutations(Email)
================================================================================
