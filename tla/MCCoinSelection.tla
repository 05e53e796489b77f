---------------------------- MODULE MCCoinSelection ----------------------------
\* Small wallets and requests for TLC.  Amounts are in units of 1000 lovelace.
EXTENDS CoinSelection, TLC

CONSTANTS p, q   \* policies

\* The request for so much of p and of q.
Want(np, nq) == [a \in Asset |-> IF a = p THEN np ELSE IF a = q THEN nq ELSE 0]

Transfer(kind, np, nq, amount) ==
  [kind |-> kind, want |-> Want(np, nq), amount |-> amount]

\* One token; ADA; two tokens, with and without lovelace of their own.
Requests ==
  {Transfer("cnt", n, 0, 0) : n \in 1..2} \union
  {Transfer("ada", 0, 0, n) : n \in {1000, 2000}} \union
  {Transfer("multi", n, m, l) : n \in {1}, m \in 0..1, l \in {0, 1000, 1500}}

Symmetry == Permutations(Utxo)
=============================================================================
