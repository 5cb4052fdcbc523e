SPECIFICATION Spec
CONSTANTS
  d1 = d1
  d2 = d2
  Domains = {d1, d2}
  FirstPool <- BothFronts
  Pools <- Shrinking
  DCs = {dc1}
  Fallbacks = {f1, f2}
  Hold = 2
  Cooldown = 10
  MaxCooldown = 100
  BackoffSteps = 8
  MaxAttempts = 3
  RefreshPeriod = 600
  DialLimit = 3
  None = None
INVARIANTS
  RefreshSurvives
