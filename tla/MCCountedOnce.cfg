\* The claim of the feature builder on idempotency.
CONSTANTS
  p1 = p1
  p2 = p2
  a = a
  b = b
  bad = bad
  junk = junk
  cardA = cardA
  cardB = cardB
  shopA = shopA
  shopB = shopB
  Partitions = {p1, p2}
  Txns = {a, b, bad, junk}
  Entities = {cardA, cardB, shopA, shopB}
  Stream <- MCStream
  CardOf <- MCCardOf
  MerchantOf <- MCMerchantOf
  Malformed = {bad}
  Undecodable = {junk}
  MaxFailures = 1
  MaxExpiries = 1
SPECIFICATION Spec
INVARIANT CountedOnce
CHECK_DEADLOCK FALSE
