SPECIFICATION FairSpec
CONSTANTS
  Wallets <- MCWallets
  MaxPages = 3
INVARIANTS
  TypeOK
  MiningFlagTrue
  StoppedPageLeftNothing
  PageWatchesItsMiner
PROPERTIES
  StopTakesHold
  ImplementsSwitch
