\* Two requests at a time, a stranger's write and a lost answer, with repairs as often as the owner likes.
SPECIFICATION FairSpec
CONSTANTS
  Slots = {1, 2}
  MaxActs = 2
  MaxForeign = 1
  MaxMishaps = 1
INVARIANTS
  TypeOK
  
  RouteIsTrusted
  
PROPERTIES
  TrustEndsWithImport
  
CHECK_DEADLOCK FALSE
