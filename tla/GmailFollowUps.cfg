SPECIFICATION Spec
CONSTANTS
  u1 = u1  u2 = u2  h1 = h1  r1 = r1  k1 = k1  k2 = k2  w1 = w1  w2 = w2
  None = None
  User = {u1}  Hotel = {h1}  Recipient = {r1}  Key = {k1}  Worker = {w1}
  Request <- NoRequest
  SentBefore <- OneBefore
  MaxRows = 3  Lease = 1  Spacing = 1  FollowDelay = 0  DailyCap = 2
  DayLen = 2  OpenFrom = 0  OpenTo = 2
  Standings = {"ok", "unpaid"}  Pausable = {}  Deletable = {}  Haltable = {1}  Fickle = {r1}
SYMMETRY Swaps
INVARIANTS FollowUpsAgree
