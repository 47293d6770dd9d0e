SPECIFICATION Spec
CONSTANTS
  Digits = 2
  Significand = 8
  Exponents <- MCExponents
  WordBytes = 3
  NonceBytes = 2
  NonceAt = 1
  MinBlob = 4
  Jobs <- MCJobs
  HistorySizes = {0, 2}
  DefaultHistory = 1
  Difficulties <- MCDifficulties
  InitialDifficulty <- MCInitial
  NumWorkers = 5
  CoreCounts = {0, 2}
  MaxPosts = 3
  MaxShares = 1
CHECK_DEADLOCK FALSE
INVARIANTS
  TypeOK
  RecentWindow
  CallbacksInOrder
  NonceCarried
  TargetBytes
  TextRoundTrip
  ShareOdds
  WorkersBalanced
