\* From a pairing code to a verified change, with a returned step, a retry, a revocation and a lost answer.
SPECIFICATION FairSpec
CONSTANTS
  MaxCodes = 2
  MaxRunners = 1
  MaxMishaps = 1
  MaxActs = 4
  Grants <- WriteOrVerify
  NFiles = 2
  MaxJobs = 4
  MaxAttempts = 2
  MaxReturns = 1
INVARIANTS
  TypeOK
  WrittenIsApproved
  RevokedGrantIsIdle
  ReportedIsWritten
  SnapshotIsPurged
  
  RunnerLimit
  Accountable
PROPERTIES
  SettledStays
  
  QueuedIsTaken
CHECK_DEADLOCK FALSE
