SPECIFICATION Spec
CONSTANTS
  MaxQueue = 4
  MaxDeaths = 2
INVARIANT AwakeWhileMining
