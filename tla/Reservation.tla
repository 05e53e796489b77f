----------------------------- MODULE Reservation -----------------------------
(***************************************************************************)
(* What UTxO locking is for (src/utils/utxoLock.ts), without clocks,       *)
(* expiries or release closures: a request reserves UTxOs nobody has       *)
(* reserved and gives them back all at once.  A restart frees everything.  *)
(***************************************************************************)
CONSTANTS Utxo, Request

VARIABLE reserved      \* the UTxOs each request has reserved

Init == reserved = [r \in Request |-> {}]

Reserve(r, S) ==
  /\ reserved[r] = {}
  /\ \A q \in Request : reserved[q] \cap S = {}
  /\ reserved' = [reserved EXCEPT ![r] = S]

Free(r) == reserved' = [reserved EXCEPT ![r] = {}]

FreeAll == reserved' = [r \in Request |-> {}]

Next ==
  \/ \E r \in Request : Free(r) \/ \E S \in SUBSET Utxo : Reserve(r, S)
  \/ FreeAll

Spec == Init /\ [][Next]_reserved

\* No UTxO is reserved twice.
Exclusive ==
  \A a, b \in Request : a # b => reserved[a] \cap reserved[b] = {}
==============================================================================
