\* What a returned writer is given as the previous desk's hand-off.
SPECIFICATION Spec
CONSTANTS
  ann = ann
  bob = bob
  cyd = cyd
  rev = rev
  None = None
  Agents = {ann, bob, cyd, rev}
  Plans <- CheckedWriter
  MaxFaults = 0
  MaxManual = 1
  MaxRevisionCount = 6
  MaxRetryCount = 8
INVARIANT HandoffIsPriorStage
CHECK_DEADLOCK FALSE
