\* maxRetries is the default of the provider.
SPECIFICATION FairSpec
CONSTANTS
  Kind = {"demeter", "iagon"}
  MaxRetries = 2
INVARIANTS PostedOnce SuccessIsReal ErrorIsFinal
PROPERTY Returns
CHECK_DEADLOCK FALSE
