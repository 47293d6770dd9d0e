SPECIFICATION Spec
CONSTANTS
  Wrappers = {w1, w2}
  Handles = {h1, h2, h3, h4, h5, h6}
  Null = Null
  MaxThreads = 2
SYMMETRY Symmetric
INVARIANTS
  TypeOK
  NothingLeaks
  UniquelyHeld
  VmsHaveTheirMemory
