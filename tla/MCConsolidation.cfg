SPECIFICATION Spec
CONSTANTS
  Calls = {c1, c2}
  Requests <- MCRequests
  Wallets <- MCWallets
  Incoming <- MCIncoming
  MaxInputs = 2
  MinUtxo = 2
  MaxTip = 2
INVARIANTS ReportsTellWhatWasDone EveryBatchMerges
PROPERTY RefusedOnlyAsStale
SYMMETRY Symmetry
CHECK_DEADLOCK FALSE
