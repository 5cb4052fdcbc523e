SPECIFICATION Spec
CONSTANTS
  d1 = d1
  d2 = d2
  Domains = {d1, d2}
  FirstPool <- BothFronts
  Pools <- Shrinking
  DCs = {dc1}
  Fallbacks = {f1, f2}
  Hold = 1
  Cooldown = 1
  MaxCooldown = 2
  BackoffSteps = 2
  MaxAttempts = 2
  RefreshPeriod = 2
  DialLimit = 1
  None = None
SYMMETRY Symmetry
INVARIANTS
  DepartedForgotten
