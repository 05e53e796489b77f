\* Liveness, so no symmetry.
SPECIFICATION Spec
CONSTANTS
  Http = {"h1", "h2"}
  Plans <- MCPlans
  Vault = {"0", "7", "8"}
  Default = "0"
  MaxPoolSize = 1
  IdleTimeout = 1
  NoSdk = NoSdk
  NoItem = NoItem
INVARIANTS AnswersTellWhatWasDone
PROPERTIES RefusedWhileInUse RequestsAndShutdownsEnd
CHECK_DEADLOCK FALSE
