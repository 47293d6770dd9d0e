SPECIFICATION Spec
CONSTANTS
  RigNames <- MCRigNames
  ValidAddrs <- MCValidAddrs
  ShortAddrs <- MCShortAddrs
  ValidPools <- MCValidPools
  BadPools <- MCBadPools
  Imports <- MCImports
  MaxSuffixes = 1
  MaxMonitors = 2
  MaxCopies = 2
PROPERTY MainWalletPaid
