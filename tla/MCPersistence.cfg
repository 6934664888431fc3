\* Two markets, two windows each at most, one crash.
SPECIFICATION PFairSpec
CONSTANTS
  m1 = m1
  m2 = m2
  Markets <- TwoMarkets
  Times = {1}
  CHANNEL_CAPACITY = 1
  MaxEvents = 4
  MaxCrashes = 1
INVARIANTS PendingCountsQueuedCloses OpenRowsAccounted ClosesRecorded RowsPerWindow
PROPERTIES EventsSettle
CHECK_DEADLOCK FALSE
