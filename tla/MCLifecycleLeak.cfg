\* market_refresh.rs 78-80: the Unsubscribe is handled before the removal.
SPECIFICATION LifecycleSpec
CONSTANTS
  p1 = p1
  o1 = o1
  Markets = {p1, o1}
  Listable = {p1, o1}
  Pinned = {}
  Prefix <- NoPrefix
  EndTs <- NoEnd
  Duration = 2
  EXPIRY_GRACE_SECS = 1
  PRESUB_SECS = 1
  GAMMA_REFETCH_SECS = 2
  CHANNEL_CAPACITY = 1
  MaxTime = 0
  MaxFetchErrors = 0
  WS_SUBSCRIBE_CHUNK_SIZE = 1
  RECONNECT_BACKOFF_MS <- Backoff
  MaxFailures = 0
INVARIANTS RemovedMarketsUnsubscribed
