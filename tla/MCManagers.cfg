\* Three successive markets of one prefix through all their ends.
SPECIFICATION WatcherFairSpec
CONSTANTS
  p1 = p1
  p2 = p2
  p3 = p3
  Markets = {p1, p2, p3}
  Listable = {}
  Pinned = {p1, p2, p3}
  Prefix <- OnePrefix
  EndTs <- ThreeEnds
  Duration = 3
  EXPIRY_GRACE_SECS = 2
  PRESUB_SECS = 1
  GAMMA_REFETCH_SECS = 2
  CHANNEL_CAPACITY = 1
  MaxTime = 12
  MaxFetchErrors = 1
INVARIANTS CurrentMarketSubscribed
PROPERTIES ExpiredEventuallyDropped
