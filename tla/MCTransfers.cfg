\* Two requests of every way to use the locks, two UTxOs, a lock of two ticks;
\* liveness, so no symmetry.
SPECIFICATION FairSpec
CONSTANTS
  Utxo = {u1, u2}
  Request = {r1, r2}
  LockTtl = 2
  NoRequest = NoRequest
  Kind = {"transfer", "transferAda", "staking"}
INVARIANTS HoldersDisjoint ConflictsExplained
PROPERTIES SelectionAvoidsHeld LocksExpire ImplementsReservation
CHECK_DEADLOCK FALSE
