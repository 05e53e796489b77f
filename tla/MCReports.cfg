SPECIFICATION Spec
CONSTANTS
  Chain <- MCChain
  Vaults <- MCVaults
  Asked <- MCAsked
  Units <- MCUnits
  Orders <- MCOrders
  PageSize = 2
  Assets <- MCAssets
  Readers = {"r1", "r2"}
  TTL = 2
  Latency = 1
  MaxVersion = 2
INVARIANTS BalancesAreRight HistoriesAreWhole AnswersAreRecent
CHECK_DEADLOCK FALSE
