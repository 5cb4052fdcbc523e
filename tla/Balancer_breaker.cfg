SPECIFICATION Spec
CONSTANTS
  d1 = d1
  d2 = d2
  Domains = {d1, d2, d3}
  FirstPool = {d1, d2, d3}
  Pools <- Fixed
  DCs = {dc1}
  Fallbacks = {f1, f2}
  Hold = 2
  Cooldown = 2
  MaxCooldown = 3
  BackoffSteps = 2
  MaxAttempts = 2
  RefreshPeriod = 3
  DialLimit = 3
  None = None
SYMMETRY FrontSymmetry
INVARIANTS
  TypeOK
  OutNoLongerThanEarned
  ReservedDialsSpaced
PROPERTIES
  CooldownRespected
