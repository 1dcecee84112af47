------------------------- MODULE MCYooKassaSettlement -------------------------
(***************************************************************************)
(* Small instances of YooKassaSettlement.  The tasks of one kind run the   *)
(* same code and are interchangeable; payments are not declared symmetric, *)
(* because Init chooses one.                                               *)
(***************************************************************************)
EXTENDS YooKassaSettlement, TLC

Symmetry == Permutations(Consumer) \cup Permutations(Request) \cup Permutations(Poller)
================================================================================
