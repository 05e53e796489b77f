----------------------------- MODULE MCTransfers -----------------------------
(* Instances of Transfers for TLC.  Requests and UTxOs are interchangeable. *)
EXTENDS Transfers, TLC

Symmetry == Permutations(Request) \cup Permutations(Utxo)
==============================================================================
