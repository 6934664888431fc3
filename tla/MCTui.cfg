SPECIFICATION FairTuiSpec
CONSTANTS
  Markets = {m1, m2}
  NoMarket = NoMarket
  Rows = {0, 2}
PROPERTIES
  EnterOpensHighlighted
  RefreshNotStarved
CHECK_DEADLOCK FALSE
