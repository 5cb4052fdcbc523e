SPECIFICATION FairSpec
CONSTANTS
  Sockets = {w1, w2, w3, w4}
  Refills = {r1, r2}
  PoolSize = 2
  None = None
INVARIANTS
  TypeOK
  Ownership
  PoolBounded
PROPERTIES
  CloseEnds
  Refilled
