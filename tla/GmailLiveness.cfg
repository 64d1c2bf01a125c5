SPECIFICATION LiveSpec
CONSTANTS
  u1 = u1  u2 = u2  h1 = h1  r1 = r1  k1 = k1  k2 = k2  w1 = w1  w2 = w2
  None = None
  User = {u1}  Hotel = {h1}  Recipient = {r1}  Key = {k1, k2}  Worker = {w1}
  Request <- PitchOnly
  SentBefore <- NoneBefore
  MaxRows = 2  Lease = 1  Spacing = 1  FollowDelay = 0  DailyCap = 2
  DayLen = 2  OpenFrom = 0  OpenTo = 1
  Standings = {"ok"}  Pausable = {}  Deletable = {u1}  Haltable = {}  Fickle = {}
PROPERTIES ComesToRest DeletionDrains
