\* The claim of the API that a replay is answered.
CONSTANTS
  r1 = r1
  r2 = r2
  c1 = c1
  c2 = c2
  Replays = {r1, r2}
  Clients = {c1, c2}
  Length = 2
  SnapshotAt = 2
  Capacity = 2
SPECIFICATION LiveSpec
PROPERTY EveryReplayIsAnswered
CHECK_DEADLOCK FALSE
