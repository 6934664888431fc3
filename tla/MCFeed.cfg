\* One market from the exchange's books to its window, through lost connections.
SPECIFICATION FeedSpec
CONSTANTS
  m1 = m1
  NoWindow = NoWindow
  Managers = {}
  Owned <- NoOwned
  Static = {m1}
  Prices = {4, 6}
  Quoted <- YesToken
  QuotedBids = {4, 6}
  One = 10
  Times = {1}
  MIN_ARB_TICKS = 2
  CHANNEL_CAPACITY = 1
  OpeningAsks = {6}
  OpeningBids = {4}
  Updates <- SmallUpdates
  MaxMoves = 3
  MaxInFlight = 1
INVARIANTS BooksMirrorExchange WindowFollowsBook AnnouncedWindowsWereReal AuditQuietWhenInSync
CHECK_DEADLOCK FALSE
