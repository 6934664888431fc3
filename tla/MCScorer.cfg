SPECIFICATION Spec
CONSTANTS
  Markets = {m1, m2}
  Outcomes <- MCOutcomes
  Spreads = {1}
  FULL_DURATION = 2
  FULL_SPREAD = 2
  DAY = 2
  MaxTime = 3
  MaxWindows = 3
  NoStats = NoStats
INVARIANTS
  CompletePassIsReflected
  ScoreFollowsQuality
SYMMETRY MarketSymmetry
CHECK_DEADLOCK FALSE
