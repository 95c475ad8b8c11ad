\* One scheduler and one boss who retries what stopped; late answers, a restart, an outsider.
SPECIFICATION Spec
CONSTANTS
  ann = ann
  bob = bob
  rev = rev
  None = None
  Foreign = Foreign
  owner = owner
  Agents = {ann, bob, rev}
  Bosses = {owner}
  Plans <- ShortRoutes
  RetryStates = {"blocked", "exhausted"}
  MaxFaults = 1
  MaxManual = 0
  MaxMishaps = 1
  MaxRevisionCount = 6
  MaxRetryCount = 8
INVARIANTS
  TypeOK
  CallIsAnchored
  DivergenceIsTransient
  Traced
  TurnsTaken
PROPERTIES
  AnchoredHistory
CHECK_DEADLOCK FALSE
