SPECIFICATION FairSpec
CONSTANTS
  Clients = {c1, c2}
  Readers = {c1}
  CAPACITY = 2
  MaxEvents = 5
INVARIANTS
  StreamHasNoGap
PROPERTIES
  SentOrCutOff
CHECK_DEADLOCK FALSE
