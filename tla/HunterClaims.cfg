SPECIFICATION Spec
CONSTANTS
  c1 = c1  c2 = c2  d1 = d1  d2 = d2
  None = None
  Caller = {c1, c2}  Key = {d1}
  Cap = 2  Headroom = 1  Returned = {0, 2}  MaxMonth = 2
  Lossy = TRUE  Killable = TRUE  Slow = FALSE
INVARIANTS SearchOwnsClaim
