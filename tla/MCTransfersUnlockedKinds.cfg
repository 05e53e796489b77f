\* Two operations that look at the locks and take none.
SPECIFICATION Spec
CONSTANTS
  Utxo = {u1, u2}
  Request = {r1, r2}
  LockTtl = 2
  NoRequest = NoRequest
  Kind = {"transferAda", "consolidateUtxos"}
INVARIANT ConcurrentRequestsDisjoint
SYMMETRY Symmetry
CHECK_DEADLOCK FALSE
