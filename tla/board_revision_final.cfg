\* A task stopped by one branch's limit, the other branch still waiting for the boss.
SPECIFICATION Spec
CONSTANTS
  ann = ann
  bob = bob
  cyd = cyd
  rev = rev
  None = None
  Agents = {ann, bob, cyd, rev}
  Plans <- TwoCheckedBranches
  MaxFaults = 0
  MaxManual = 1
  MaxRevisionCount = 6
  MaxRetryCount = 8
PROPERTY RevisionLimitFinal
CHECK_DEADLOCK FALSE
