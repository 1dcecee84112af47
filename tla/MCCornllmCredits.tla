--------------------------- MODULE MCCornllmCredits ---------------------------
\* CornllmCredits on a small instance: a tariff with a credit and one without.
EXTENDS CornllmCredits, TLC

Tariffs == {"basic", "plus"}

Credits == [t \in Tariffs |-> IF t = "plus" THEN 2 ELSE 0]

Sold == {1, 3}

\* Clients run the same code.
Symmetry == Permutations(Client)
================================================================================
