SPECIFICATION Spec
CONSTANTS
  Calls = {"c1", "c2"}
  Requests <- MCRequests
  AddressCount = 2
  InitUtxos <- MCUtxos
  Pools = {"pool"}
  OtherDReps <- MCOtherDReps
  KeyDeposit = 3
  DRepDeposit = 4
  MinUtxo = 2
  InitRewards = 2
  MaxPayouts = 1
INVARIANTS AnswersAreTrue OneTransaction VotesGoWhereNamed
PROPERTIES FreshIsAccepted Returns
CHECK_DEADLOCK FALSE
