\* Three requests over three vaults fill a pool of two and one more; liveness,
\* so no symmetry.
SPECIFICATION FairSpec
CONSTANTS
  Vault = {v1, v2, v3}
  Request = {r1, r2, r3}
  MaxPoolSize = 2
  IdleTimeout = 1
  NoSdk = NoSdk
  NoItem = NoItem
INVARIANTS NoPhantomUse AccountingExact NoOrphanInstance PoolBound
PROPERTY EntriesReclaimed
CHECK_DEADLOCK FALSE
