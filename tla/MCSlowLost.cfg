SPECIFICATION Spec
CONSTANTS
  ReferenceEvery = 12
  Gap = 4
  Lookback <- MCLookback
  CalmTicks = 2
  Slack = 1
  Outages = TRUE
  MaxRestarts = 0
INVARIANTS
  NothingFallsOut
