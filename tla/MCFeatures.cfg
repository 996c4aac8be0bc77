CONSTANTS
  p1 = p1
  p2 = p2
  a = a
  b = b
  bad = bad
  junk = junk
  cardA = cardA
  cardB = cardB
  shopA = shopA
  shopB = shopB
  Partitions = {p1, p2}
  Txns = {a, b, bad, junk}
  Entities = {cardA, cardB, shopA, shopB}
  Stream <- MCStream
  CardOf <- MCCardOf
  MerchantOf <- MCMerchantOf
  Malformed = {bad}
  Undecodable = {junk}
  MaxFailures = 1
  MaxExpiries = 1
  Ids = {1, 2, 3, 4, 5}
  Times <- MCTimes
  Spans = {1, 3}
  Day = 3
  MaxRetained = 3
  None = None
SPECIFICATION MCSpec
INVARIANTS
  TypeOK
  PublishedIsCounted
  OvercountHasACause
  NoSilentLoss
  WindowTypeOK
  NewestEventIsExact
  LateEventMissesNothing
  ForgottenForAReason
PROPERTIES
  EventuallyConsumed
CHECK_DEADLOCK FALSE
