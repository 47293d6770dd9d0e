SPECIFICATION Spec
CONSTANTS
  Readings = {44, 45, 54, 55, 64, 65}
  Levels = {0, 19, 20, 100}
  Cpus = {1, 3, 4, 5, 9, 12}
  Memory = {0, 3, 4, 7, 11, 12, 36, 40}
  UnitsPerThread = 4
  LongRanges = {8, 1024}
INVARIANTS
  TypeOK
  LowPowerFollowsBattery
  TrackersCompatible
  ThreadsWithinMeans
