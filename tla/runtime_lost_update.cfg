\* The boss retries a task that waits for the runner while the scheduler goes on with it.
SPECIFICATION Spec
CONSTANTS
  ann = ann
  bob = bob
  rev = rev
  None = None
  Foreign = Foreign
  owner = owner
  Agents = {ann, bob, rev}
  Bosses = {owner}
  Plans <- LocalDesk
  RetryStates = {"waiting", "retrying", "blocked", "exhausted"}
  MaxFaults = 0
  MaxManual = 1
  MaxMishaps = 0
  MaxRevisionCount = 6
  MaxRetryCount = 8
PROPERTY NoLostUpdate
CHECK_DEADLOCK FALSE
