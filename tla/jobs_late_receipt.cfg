\* A receipt of a first attempt arrives while the second one runs.
SPECIFICATION Spec
CONSTANTS
  MaxCodes = 1
  MaxRunners = 1
  MaxMishaps = 1
  MaxActs = 4
  Grants <- WriteOnly
  NFiles = 1
  MaxJobs = 2
  MaxAttempts = 2
  MaxReturns = 0
INVARIANT ReceiptIsOfAttempt
CHECK_DEADLOCK FALSE
