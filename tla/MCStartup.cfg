\* From an empty or hand-made database to a scanner that serves, through failures.
SPECIFICATION FairSpec
CONSTANTS
  Ids <- MCIds
  Item <- MCItem
  FirstListing <- MCFirstListing
  now <- Noon28
  min_expiry_secs = 3600
  max_expiry_secs = 172800
  page_size = 2
  scanner_max_markets = 3
  MaxMoves = 1
  ByHand <- AnyColumns
  Managed = {"a", "g"}
  MaxDowns = 2
INVARIANTS AppliedColumnsExplained SteadyRankFetchedOnce StillListingExact BootstrapIsComplete
PROPERTIES ScannerComesUp
CHECK_DEADLOCK FALSE
