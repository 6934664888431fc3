\* Both managers on one pinned market, and a connection that fails once.
SPECIFICATION LifecycleFairSpec
CONSTANTS
  p1 = p1
  o1 = o1
  Markets = {p1}
  Listable = {p1}
  Pinned = {p1}
  Prefix <- PrefixOne
  EndTs <- OneEnd
  Duration = 2
  EXPIRY_GRACE_SECS = 1
  PRESUB_SECS = 1
  GAMMA_REFETCH_SECS = 2
  CHANNEL_CAPACITY = 1
  MaxTime = 3
  MaxFetchErrors = 0
  WS_SUBSCRIBE_CHUNK_SIZE = 1
  RECONNECT_BACKOFF_MS <- Backoff
  MaxFailures = 1
PROPERTIES ControlEventuallyDrained
INVARIANTS TrackedMarketsSubscribed WatchedStayInStore UnlistedMarketsArePinned
