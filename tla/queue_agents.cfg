\* Two workers and a reviewer, two attempts, two mishaps.
SPECIFICATION FairSpec
CONSTANTS
  Workers = {w1, w2}
  Reviewers = {r1}
  None = none
  MaxAttempts = 2
  MaxMishaps = 2
INVARIANTS
  TypeOK
  DoneIsAttested
  Lawful
PROPERTIES
  Implements
  LiveClaimIsKept
  QueueSettles
CHECK_DEADLOCK FALSE
