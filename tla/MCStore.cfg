\* One market that two managers add and remove while its events are applied, under a request.
SPECIFICATION ApiSpec
CONSTANTS
  m1 = m1
  refresher = refresher
  watcher = watcher
  Managers <- BothManagers
  Owned <- SharedMarket
  Static = {}
  Prices = {1}
  Quoted <- SharedTokens
  QuotedBids = {}
  MaxSamples = 1
SYMMETRY Symmetric
INVARIANTS StructureConsistent OnlyRacedTokensLinger AnswersAddUp
