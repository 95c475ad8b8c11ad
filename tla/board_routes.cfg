\* Every shape of route whose checkpoints stand alone in their stage.
SPECIFICATION AttendedSpec
CONSTANTS
  ann = ann
  bob = bob
  cyd = cyd
  rev = rev
  None = None
  Agents = {ann, bob, cyd, rev}
  Plans <- OrderedPlans
  MaxFaults = 3
  MaxManual = 2
  MaxRevisionCount = 6
  MaxRetryCount = 8
INVARIANTS
  TypeOK
  StagesInOrder
  DoneIsComplete
  HolderMatchesStep
  RevisionsWithinAllowance
  PlainHandoffIsPriorStage
  OfferedIsClaimable
  Orderly
  PaperCarried
PROPERTIES
  RevisionLimitFinal
  
CHECK_DEADLOCK FALSE
