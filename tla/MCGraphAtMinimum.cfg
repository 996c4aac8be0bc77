\* What scale-to-min.sh says of itself: all expensive resources are scaled down.
CONSTANTS
  w1 = w1
  w2 = w2
  t1 = t1
  t2 = t2
  s1 = s1
  s2 = s2
  o1 = o1
  o2 = o2
  r1 = r1
  r2 = r2
  None = None
  Tables <- MCTables
  Attempts <- MCAttempts
  MaxRewrites = 1
  Workers = {w1, w2}
  PerWorker = 1
  MaxErrors = 1
  MaxRequests = 3
  RingCards = 10
  RingMerchants = 3
  MinBurst = 8
  MaxBurst = 25
  MaxCursor = 31
  Models = {"missing", "columns"}
  RingSize = 1
  BurstSize = 2
  Tabs = {t1, t2}
  Offered <- MCOffered
  MaxRuns = 1
  MaxClears = 1
  Shells = {s1, s2}
  MaxOutages = 1
  Operators = {o1, o2}
  MaxDeploys = 2
  Runners = {r1, r2}
  FirstVersion = 9
SPECIFICATION MCSpec
INVARIANT GraphIsAtMinimum
CHECK_DEADLOCK FALSE
