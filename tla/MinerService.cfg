SPECIFICATION FairSpec
CONSTANTS
  MaxQueue = 4
  MaxDeaths = 2
INVARIANTS
  TypeOK
  LockOnlyWhileMining
  StopIsFinal
PROPERTY
  StopCompletes
