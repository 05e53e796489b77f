SPECIFICATION Spec
CONSTANTS
  Callers = {"c1", "c2"}
  Requests <- MCRequests
  Selections <- MCSelections
  Evidence <- MCEvidence
  MaxWait = 1
  Network = 1
  Magics = {1, 2}
  LocalAddresses = {"sender", "friend", "stranger"}
INVARIANTS OnlyAsAuthorized PreflightRefusesRequestsOnly OncePerExternalId AnswersTellOfPayment
PROPERTY Returns
CHECK_DEADLOCK FALSE
