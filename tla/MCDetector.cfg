\* A market that stays and one that comes and goes; two windows in a row fit.
SPECIFICATION FairSpec
CONSTANTS
  m1 = m1
  m2 = m2
  NoWindow = NoWindow
  Markets <- TwoMarkets
  Churn <- SecondChurns
  Asks = {4, 5}
  One = 10
  Times = {1, 2}
  MIN_ARB_TICKS = 2
  CHANNEL_CAPACITY = 1
  MaxRouted = 6
INVARIANTS TypeOK PendingIffUnconfirmed WindowMatchesPrices OpenClosePairing
PROPERTIES WindowIdentityStable ImplementsLifecycle HotPathNeverBlocks
CHECK_DEADLOCK FALSE
