\* The boss looks at a task while the scheduler writes it.
SPECIFICATION Spec
CONSTANTS
  ann = ann
  bob = bob
  rev = rev
  None = None
  Foreign = Foreign
  owner = owner
  Agents = {ann, bob, rev}
  Bosses = {owner}
  Plans <- OneDesk
  RetryStates = {}
  MaxFaults = 0
  MaxManual = 0
  MaxMishaps = 0
  MaxRevisionCount = 6
  MaxRetryCount = 8
INVARIANT QuarantineIsOutside
CHECK_DEADLOCK FALSE
