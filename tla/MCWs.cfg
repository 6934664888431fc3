\* Five failures: past the end of the table of delays.
SPECIFICATION FairSpec
CONSTANTS
  m1 = m1
  m2 = m2
  Markets <- TwoMarkets
  Managers = {refresher, watcher}
  WS_SUBSCRIBE_CHUNK_SIZE = 3
  RECONNECT_BACKOFF_MS <- Backoff
  CHANNEL_CAPACITY = 2
  MaxFailures = 5
INVARIANTS FlagWrongOnlyAsleep SubscriptionsCoverStore
PROPERTIES DelaysStepThroughBackoff StoreEventuallySubscribed
