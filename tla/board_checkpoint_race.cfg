\* The boss answers one branch while the other is being worked on.
SPECIFICATION Spec
CONSTANTS
  ann = ann
  bob = bob
  cyd = cyd
  rev = rev
  None = None
  Agents = {ann, bob, cyd, rev}
  Plans <- OneCheckedBranch
  MaxFaults = 1
  MaxManual = 1
  MaxRevisionCount = 6
  MaxRetryCount = 8
INVARIANT StagesInOrder
CHECK_DEADLOCK FALSE
