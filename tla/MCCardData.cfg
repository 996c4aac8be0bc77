CONSTANTS
  c1 = c1
  c2 = c2
  c3 = c3
  l1 = l1
  l2 = l2
  Cards = {c1, c2, c3}
  NoCardYet = NoCardYet
  Lookups = {l1, l2}
  MaxSize = 2
  Ttl = 1
  ReadTime = 1
  MaxTime = 3
  MaxChanges = 1
  Rings <- MCRings
  Embedded = {c1}
  CreateMissing = TRUE
SPECIFICATION MCSpec
INVARIANTS
  CardTypeOK
  BoundedStaleness
  RecentlyUsedIsHeld
PROPERTIES
  PublishKeepsTheRest
SYMMETRY MCSymmetry
CHECK_DEADLOCK FALSE
