\* A retryable provider failure of a step that has been claimed.
SPECIFICATION FairSpec
CONSTANTS
  ann = ann
  bob = bob
  rev = rev
  None = None
  Foreign = Foreign
  owner = owner
  Agents = {ann, bob, rev}
  Bosses = {owner}
  Plans <- OneDesk
  RetryStates = {}
  MaxFaults = 1
  MaxManual = 0
  MaxMishaps = 0
  MaxRevisionCount = 6
  MaxRetryCount = 8
PROPERTY RetryHappens
CHECK_DEADLOCK FALSE
