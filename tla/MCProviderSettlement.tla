-------------------------- MODULE MCProviderSettlement --------------------------
(* Small instances of ProviderSettlement.  Requests of one kind run the same  *)
(* code and are interchangeable; Init chooses a payment, so payments are not. *)
EXTENDS ProviderSettlement, TLC

Symmetry == Permutations(Hook) \cup Permutations(Poller)
================================================================================
