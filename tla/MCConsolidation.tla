-------------------------- MODULE MCConsolidation --------------------------
(* Three or four UTxOs, one of them dust and one with tokens, a payment that *)
(* may arrive, and two calls, each in one transaction or in batches.         *)
EXTENDS Consolidation, TLC

Paid(n, ada, tokens) == [from |-> {}, ttl |-> n, ada |-> ada, tokens |-> tokens]
MCWallets == {<<Paid(1, 6, 0), Paid(2, 6, 2), Paid(3, 1, 1)>>, <<Paid(3, 1, 1), Paid(5, 2, 0)>>}
MCIncoming == {Paid(6, 8, 1)}
MCRequests == {[batched |-> FALSE, size |-> 3, max |-> 1, min |-> 2],
               [batched |-> TRUE, size |-> 2, max |-> 2, min |-> 2]}
Symmetry == Permutations(Calls)
=============================================================================
