\* Safety only: vaults and requests are interchangeable.
SPECIFICATION Spec
CONSTANTS
  Vault = {v1, v2}
  Request = {r1, r2, r3}
  MaxPoolSize = 1
  IdleTimeout = 1
  NoSdk = NoSdk
  NoItem = NoItem
SYMMETRY Symmetry
INVARIANT OnlyIdleShutDown
CHECK_DEADLOCK FALSE
