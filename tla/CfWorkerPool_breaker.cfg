SPECIFICATION FairSpec
CONSTANTS
  Workers = {w1, w2}
  DCs = {dc1}
  Clients = {c1, c2}
  LocalAbort = 1
  FailureCooldown = 2
  QuotaCooldown = 3
  CooldownMax = 5
  BackoffSteps = 2
  RefillInitial = 1
  RefillMax = 2
  RefillSteps = 2
  None = None
INVARIANTS
  TypeOK
  RestIsEarned
PROPERTIES
  RestsKept
  KeepsFilling
